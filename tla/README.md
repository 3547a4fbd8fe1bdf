# Formal models of the OneLedger protocol node

These TLA+ modules model the state-changing parts of the OneLedger node in
`src/`. TLC checks them on small instances, and TLAPS proves the main safety
results for every value of the constants.

## The system and its parts

| Part | Source | What it does |
|---|---|---|
| ABCI controller | `src/app/controller.go` | InitChain, BeginBlock (sets the header), CheckTx, DeliverTx (routes a transaction to its handler, **no per-transaction rollback**), EndBlock, Commit (store hashes → app hash) |
| FundProposal | `src/action/governance/fundProposal.go` | deadline and status checks; on reaching the goal: status → Voting, VotingDeadline, snapshot of the validator set in the vote store, proposal write; then debit funder, `AddFunds`, re-credit on failure |
| Proposal fund store | `src/data/governance/proposal_fund_store.go` | per (proposal, funder) amounts; `AddFunds` = get + set(sum) |
| Proposal vote store | `src/data/governance/proposal_vote_store.go` | `Setup` (Unknown + power), `Update` (only an existing key), `Delete` (all keys of a proposal, continues past failures), `IsPassed` |
| ApplyValidator | `src/action/staking/apply_validator.go` | `checkBalances`, debit VT, then `HandleStake` / `HandleUnstake` (Purge) |
| Swap coordinator | `src/node/action/swap.go` | stage table `swapStageFlow`, delivery loop `ProcessDeliver`, HTLC calls on BTC/ETH/OLT, swap matching, in-memory secret map `tokens` |
| ETH lock | `src/action/eth/ext_lock.go` | writes a Tracker in state New (on CheckTx and DeliverTx) |
| Legacy node | `src/node/app/application.go`, `src/node/action/{command,publish,external_send}.go` | older ABCI app (DeliverTx runs Validate and ProcessDeliver on every node) and command dispatcher; the Publish transaction a matched node sends its counterparty |
| Misc. | `src/node/id/validators.go`, `src/node/comm/*`, `src/event/context.go`, `src/action/context.go`, `src/client/*` | validator selection, RPC client, contexts, types |

How they interact: the consensus driver calls the controller serially.
BeginBlock, then DeliverTx for each transaction, then Commit. DeliverTx hands
the transaction to a handler (FundProposal, ApplyValidator, ...), and the
handler writes directly into the block's state. Handlers interact through
shared stores:
- FundProposal reads the validator set that ApplyValidator changes, and copies
  it into the vote store.
- The vote store is later read by IsPassed.
- Every handler runs on the same state. A handler that fails halfway leaves its
  earlier writes in the block, because the code has no rollback.

## Modules

- **`Staking.tla`** models ApplyValidator.
  - Variables:
    - `vt`: the VT balance of each address.
    - `power`: the validator table, where 0 means absent.
  - `checkBalances` and `ApplyValidator` translate `checkBalances` and
    `runApply`. The debit is done for both Purge values.
  - `HandleStake`, `HandleUnstake` and `ValidatorSet` model the validator
    store. That store is not under `src/`, so these follow spec §4.3. The spec
    does not define an unstake larger than the validator's power; the model
    treats it as an error that leaves the table unchanged.
- **`Governance.tla`** EXTENDS Staking and models the governance engine inside
  the controller's block loop.
  - Variables:
    - `height`: the header.
    - `status` and `votingDeadline` of each proposal.
    - `funds`: the fund store.
    - `olt`: the balances.
    - `votes`: the vote store, mapping proposal → validator → entry or `NoEntry`.
    - `snapshot`: a history variable holding the validator set read when the
      proposal entered Voting.
  - `FundProposal` is the whole of `runFundProposal`:
    - its guards are the two early returns (deadline, status);
    - its four outcomes are named actions: `FundBelowGoal`, `StartVoting`,
      `SetupFails` (the Setup loop fails after a proper subset of the
      validators) and `ProposalSetFails`;
    - each of them ends in `TransferFunds`, which covers debit failed,
      debit+AddFunds, AddFunds failed and re-credited, and AddFunds failed with
      the re-credit also failed.
  - `UpdateVote`, `DeleteVotes` and `IsPassed` translate the vote store.
  - `BeginBlock` advances the height. It leaves out the controller's
    `validators.Set`, because no property reads it. `Stake` delivers an
    ApplyValidator.
  - `StoreFaults` enables the storage error paths.
  - `FiniteStores` assumes finitely many addresses, proposals and
    validators. It is what makes the supplies `TotalOLT` (OLT) and
    `VTSupply` (VT) finite sums.
- **`SwapDeliver.tla`** models `Swap.ProcessDeliver` as far as it runs.
  - `Resolve` first calls `parseSwapMessage`. That function declares
    `var swap swapMessage`, a nil interface.
  - For every stage of `swapStageFlow`, its switch applies a one-result type
    assertion (`swap.(SwapInit)`, ...) to that nil value, which panics
    (`ParseListed`).
  - For any other stage it returns nil, and `Resolve` calls `resolve` on the
    nil interface, which panics as well (`ResolveNil`).
  - The command loop after `Resolve` is never reached, so it is not modelled.
  - The Go code as written does not compile. It calls a pointer-receiver
    method on a type-assertion result. The model follows what the code says.
- **`MC_Governance.tla`** is the TLC instance:
  - two addresses and two validators (power 1 and 0), one proposal;
  - goal 3 and funding deadline 2, with fund values {1,2} and 2 OLT per
    address, so the goal needs two funders or two transactions;
  - heights up to 3 (`HeightBound`), so both "before the deadline" and "after
    the deadline" happen;
  - symmetry over the addresses (they are interchangeable: same initial
    balance, no address is named by a definition).
- **`GovernanceProofs.tla`** holds the TLAPS proofs.
- **`GovernanceSumProofs.tla`** EXTENDS GovernanceProofs and
  FiniteSetTheorems. It holds the lemmas about `FunSum` and the proofs of
  the two OLT-supply invariants.
- `Lifecycle` instantiates **`ProposalLifecycle.tla`** WITH `validators <-
  ValidatorSet`, with the other variables of the same name. `LifecycleSpec`
  is `Lifecycle!Spec`.
- **`ProposalLifecycle.tla`** is the abstract specification of the funding
  stage (spec 4.6), with no balances, vote keys or failures.
  - `Fund` adds to a funder's entry of a proposal that is in Funding and
    not past its FundingDeadline.
  - `BeginVoting` moves such a proposal to Voting in one step and records
    the current validator set as its snapshot. It may record the
    contribution that took it there in the same step.
  - `Tick` is a new block. `Reconfigure` changes the validator set.
  - Nothing leaves Voting. Reaching the goal is not promised, because the
    code does not keep it (run gov_unfunded).
- **`SwapHTLC.tla`** models the HTLC stages of the swap between an initiator
  node I and a participant node P.
  - Variables:
    - `now`: the chains' clock.
    - `htlc[c][k]`: the k-th contract on chain c, with its state, hash, expiry
      and the preimage a redemption revealed.
    - `tokens`: the initiator's in-memory secret entry.
    - `known[n][c]`: the contract of chain c that node n's `FindContract`
      returns, which is the last one `SaveContract` stored.
    - `draws`: how many secrets `resolve` has drawn.
  - Actions:
    - `InitiatorInitiate` is `resolve` followed by `Initiate`. It draws a
      fresh secret, which is zero when `rand.Read` fails, and overwrites
      `tokens` (swap.go:193). `CreateContractBTC` locks a new contract on
      every call and saves it over the one saved before.
      `CreateContractETH` funds the node's saved contract, which the chain
      funds once.
    - `ParticipantParticipate` is `AuditContract` followed by `Participate`.
    - `InitiatorRedeem` is `AuditContract` followed by `Redeem`, with the
      secret read back from `tokens`.
    - `ParticipantRedeem` is `ExtractSecret` followed by `Redeem` of the
      contract P audited.
    - `Refund(c)` is the owner's refund of the contract its `FindContract`
      returns.
  - A stage stops at its first failing call and keeps what the earlier calls
    did. Nothing checks the stage order or dedupes a delivery, so stages run
    in any order and again, up to `MaxInitiates` initiations.
  - `SwapExchange.resolve`, `SaveContract` and `FindContract` have no body in
    `src/`.
    - The initiator's later stages read the secret from `tokens`, as
      `SwapInit.resolve` does.
    - `FindContract` returns the last contract saved.
  - The chains are the environment.
    - Any contract can be redeemed by anyone who knows a public preimage
      (`PublicRedeem`).
    - The BTC script checks only the preimage. The ETH contract also checks
      that the expiry has not passed.
    - The clock advances (`Tick`). The run bounds it with the state
      constraint `TimeBound`, not with a guard.
  - `Restart` empties `tokens`.
  - The lock time follows the chain, not the role: BTC locks for
    2·lockPeriod (swap.go:702) and ETH for lockPeriod (:776).
  - The inverted `ParticipateBTC` check (:854) only changes the return code,
    because the trailing `NextStage` stub fails the stage anyway. So the model
    creates the contract either way.
- **`SwapHTLCProofs.tla`** holds the TLAPS proofs about `SwapHTLC`.
- **`SwapMatching.tla`** models `MatchingSwap`, `FindMatchingSwap`, `isMatch`
  and `SaveSwap`/`FindSwap`.
  - Every node runs `MatchingSwap` on every delivered `SwapInit`, in the same
    order, against its own store, which maps account key → swap.
  - `Deliver` applies it on the two nodes whose accounts are the request's
    sides. `IsParty` returns nil for the other nodes, which change nothing.
  - Nothing stops a request from being delivered again.
  - A request may name the same account on both sides, because
    `SwapInit.validate` does not forbid it.
  - No code calls `MatchingSwap` yet: the SWAP_MATCHING stage runs the
    `ProcessMatching` stub. `Deliver` is the delivery spec 4.4 describes,
    and the model checks the algorithm as written.
- **`SwapMatchingProofs.tla`** holds the TLAPS proofs about `SwapMatching`.
- **`MC_SwapMatching.tla`** is the TLC instance:
  - three accounts, two coins and two nonces, with symmetry over the accounts;
  - at most `MaxSent` delivered requests, set to 3. With 3 requests a pair
    can match with a third request before or after it. A bound of 4 also
    passes, in about a minute without self-addressed requests and in six
    minutes with them.
- **`SwapPublish.tla`** EXTENDS SwapMatching and composes it with the
  Publish transaction (`publish.go`).
  - `DeliverSwap` is SwapMatching's `Deliver`, and also keeps the history
    `matches` of what `MatchingSwap` returned on each node.
  - `DeliverPublish` is the legacy `DeliverTx` on every node: `ShouldProcess`
    is never called.
    - A Publish is sent by a node whose swap with the target matched
      (`SubmitTransactionOLT`).
    - Expand looks the swap up under the sender's key `Base.Owner` and
      asserts it to `*Swap`: a nil result panics.
    - `*isParty` panics when the node is neither side of the swap found.
    - The commands Expand then selects are not in the sources, so getting past
      Expand counts as processed.
  - `SwapPublishProofs.tla` holds the TLAPS proof about `SwapPublish`.
  - `MC_SwapPublish.tla` uses two accounts and swaps between different
    accounts, so the run shows the two sides of a real swap and no bystander.
- **`EthLock.tla`** models the ETH lock as the controller routes it.
  - `CheckTx` runs `Validate`. `ProcessCheck` writes only to the check
    overlay, which is discarded (spec 4.7). A transaction that passes enters
    the mempool.
  - `DeliverTx` runs `processCommon` only, with no `Validate`. A lock whose
    ETHTxn decodes overwrites the tracker of its name with a New tracker owned
    by its Locker.
  - The proposer may be faulty. A block can carry any lock, including one
    this node's CheckTx never saw, as a block from another proposer can.
  - `TrackerJob` is the tracker job of spec 4.5 (not under `src/`). It moves
    a tracker from New through BusyBroadcasting and BusyFinalizing to
    Finalized or Failed.
- **`MC_EthLock.tla`**: two lockers and two names, with symmetry over both.

## Runs

| Run | cfg | Result | What it shows |
|---|---|---|---|
| gov_safety | `MC_Governance.cfg` | pass (5515 states) | Without store faults, `NoForeignVoter` holds: every vote key of a Voting proposal is in its snapshot, even with stakes, updates and deletes interleaved. `FundsConserved` holds. `VTNotCreated` holds: stakes and unstakes never raise the VT in balances plus validator power. |
| gov_faults | `MC_Governance_faults.cfg` | pass (33960 states) | With every store write able to fail, `NoMoneyCreated` holds: compensation never creates OLT. `LifecycleSpec` still holds: failed setups and failed transfers are stutters of the lifecycle. |
| gov_unfunded | `_unfunded.cfg` | violation of `VotingImpliesFunded` | The status is written before the debit. A failed debit leaves a Voting proposal below its goal. |
| gov_deadline | `_deadline.cfg` | violation of `VotingDeadlineAfterFunding` | The voting deadline is height + period, which can be ≤ FundingDeadline (spec 8.3). |
| gov_ispassed | `_ispassed.cfg` | violation of `IsPassedAsSpecified` | Unknown power stays in IsPassed's denominator (spec 4.6, 8.5). |
| gov_foreign | `_foreign.cfg` | violation of `NoForeignVoter` | With store faults, keys left by a failed Setup survive into a later snapshot (spec 8.4). |
| swap_panic | `SwapDeliver.cfg` | violation of `NoPanic` | Every Swap delivery panics in `Resolve`. For a listed stage, `parseSwapMessage` type-asserts its nil interface (swap.go:338); for any other stage, `resolve` is called on nil (spec 7: handlers never panic). |
| swap_safety | `SwapHTLC.cfg` | pass (7661 states) | `InitiatorSafe` holds: no contract of I is redeemed unless one of P's is. `HashLocked` holds: every contract of P carries the hash of a contract of I. Both hold with stages in any order, INITIATOR_INITIATE delivered twice, failing chain calls and restarts of I's node (BTC initiator, lockPeriod 1, clock up to 4, two initiations). |
| swap_reinit | `SwapHTLC_reinit.cfg` | violation of `InitiatorCanRefund` | INITIATOR_INITIATE is delivered twice. The second delivery locks a new contract and `SaveContract` replaces the saved one, so the first stays locked where I's SWAP_REFUND cannot reach it (spec 4.4: a stage run again is a no-op). |
| swap_match | `MC_SwapMatching.cfg` | pass (36433 states) | `MatchOnlyAsRequested` holds: a node matches only the request just delivered, against an earlier mirror request (spec 4.4). It holds with requests delivered again, overwriting and self-addressed requests interleaved. |
| swap_publish | `MC_SwapPublish.cfg` | violation of `PublishNoPanic` | a1's request is delivered, then a2's, and both nodes match. a2 then sends its Publish. a2's node saved the match under a1's key, so Expand finds nothing under a2's key and the `.(*Swap)` assertion panics (publish.go:121). A node outside the swap would panic on every Publish. |
| ethlock_owner | `MC_EthLock.cfg` | violation of `TrackerOwnerSigned` | DeliverTx runs no `Validate` (controller.go:138). A lock that l1 never signed, delivered in a block, creates a tracker owned by l1 (spec 4.7 says DeliverTx validates). |

Every property of a passing run has a mutant in `PROJECT.json`: a plausible
bug in the mapped code that TLC then catches. The mutants are:
- a missing balance check;
- an overwrite instead of an addition in AddFunds;
- a missing status check in `runFundProposal` (breaks the lifecycle
  refinement);
- a missing Exists check in Update;
- an unconditional re-credit;
- a swap redeem on the wrong chain;
- a BTC audit that does not return the contract's hash;
- an expiry computed backwards;
- an `isMatch` without the nonce comparison;
- a `runApply` that never writes the debited VT balance back (breaks
  `VTNotCreated`).

The mutants are listed in `PROJECT.json` next to the property they break.

No liveness is checked, so no fairness is assumed. Governance has no step
that must eventually happen: a proposal is finalised by code that is not in
`src/`. In the swap, the stages are carried by transactions that users submit
and by external chains, and nothing in the code makes either fair. The swap's
progress problem is recorded as a hazard instead: with an ETH initiator, the
participant's `AuditContractETH` compares the contract's hash with a
`PREIMAGE` that its context never had (swap.go:825), so participation never
succeeds.

`TypeOK` of `SwapMatching` and `EthLock` is not run. Both hold by the shape of
those models, and no plausible change of the code breaks them.

## Proofs (`GovernanceProofs.tla`)

- `TypeCorrect`: `Spec => []TypeOK`, for all constants satisfying
  `StakingAssumption` and `GovernanceAssumption`.
  - It is inductive as it stands.
  - There is one lemma per action (`FundProposalType`, with one case per
    outcome; `TransferFundsType`; `ApplyValidatorType`; ...).
- `NoForeignVoterHolds`: `~StoreFaults => (Spec => []NoForeignVoter)`.
  - `NoForeignVoter` alone is not inductive. A Funding proposal may hold keys
    that a later `StartVoting` would not cover.
  - The inductive invariant is `IInv == TypeOK /\ VoteStoreInv`, where
    `VoteStoreInv` says:
    - a Funding proposal has no vote keys;
    - a Voting proposal's keys are inside its snapshot.
  - `StartVoting` writes exactly the snapshot. `UpdateVote` only rewrites
    existing keys. `DeleteVotes` only removes keys.
  - TLC checked `VoteStoreInv` on the gov_safety instance before the proof.
  - With store faults, the gov_foreign run shows that the invariant fails.
- `GovernanceRefinesLifecycle`: `Spec => LifecycleSpec`, for all constants,
  with or without store faults.
  - The mapping is `lbar`: the lifecycle variables are Governance's, and
    the validator set is `ValidatorSet`, computed from the staking table.
  - Initial states map to `Lifecycle!Init`.
  - `LifecycleStep` shows `TypeOK /\ [Next]_vars => [Lifecycle!Next]_lbar`,
    with one case per action:
    - `BeginBlock` is `Tick`.
    - `Stake` is `Reconfigure`. It is the only action that changes the
      validator set.
    - `UpdateVote` and `DeleteVotes` are stutters.
    - `FundProposalRefines` splits `FundProposal` by outcome.
      `FundBelowGoal` is a `Fund`, or a stutter when the transfer fails.
      `StartVoting` is a `BeginVoting`. `SetupFails` and `ProposalSetFails`
      are stutters.
  - `AddFundsContributes` is the lemma on the fund store: `AddFunds` is a
    lifecycle contribution, because amounts are naturals.
  - `TypeOK` is the only invariant needed. It comes from `TypeCorrect`.
## Proofs (`SwapHTLCProofs.tla`)

These hold for every lock period, clock bound, bound on initiations and
initiator chain that `SwapAssumption` allows, with or without restarts, with
stages in any order and INITIATOR_INITIATE delivered again.

- `SwapTypeCorrect`: `Spec => []TypeOK`.
  - `TypeOK` is inductive. `TypeOKStep` has one case per action.
- `InitiatorSafeHolds`: `~RandFails => (Spec => []InitiatorSafe)`.
  - `InitiatorSafe` alone is not inductive. A state where I's contract is
    locked with a public hash would let `PublicRedeem` open it.
  - The strengthening is `SecretInv`:
    - a contract that is not redeemed has revealed no preimage;
    - every contract of I is locked with the hash of a drawn secret.
  - A public preimage is the zero secret or one that a redemption revealed.
    So a preimage that opens a contract of I is a drawn secret. It was
    revealed by a redemption on PC, which is the conclusion, or on IC, where
    the old `InitiatorSafe` gives a redeemed contract on PC.
  - `IInvStep` proves `IInv == TypeOK /\ SecretInv /\ InitiatorSafe` is
    preserved, with one case per action. The lemmas it uses:
    - `ChainsOfSwap`: the two chains are IC and PC;
    - `HashFacts`: the hash is injective;
    - `CreatedFacts`, `RedeemedFacts` and `RefundedFacts`: each change fills
      or settles one slot and leaves every other contract alone.
  - The proof needs `~RandFails`. With `RandFails = TRUE`, TLC finds a
    counterexample in two steps: the zero secret is locked and then redeemed
    by anyone.
- `HashLockedHolds`: `Spec => []HashLocked`. It needs no assumption on
  `RandFails` or `Restarts`.
  - `HashLocked` alone is not inductive. `ParticipantParticipate` copies an
    unset hash if a contract of I can carry one.
  - The strengthening `HInv` adds that no contract of I carries the unset
    hash.
  - So the ETH audit in Participate, which compares the hash with the unset
    `PREIMAGE` of P's context, accepts no contract. The BTC audit copies the
    hash of a contract of I.
  - Redeems and refunds keep which contracts exist and their hashes
    (`KeepsHashes`). A new contract of I only adds a witness.
- TLC checked `IInv` and `HInv` as invariants of the swap_safety instance,
  and of the same instance with an ETH initiator, before the proofs. It
  checked `HInv` with `RandFails = TRUE` as well.

## Proofs (`SwapMatchingProofs.tla`)

- `MatchOnlyAsRequestedHolds`: `Spec => []MatchOnlyAsRequested`. It holds
  for all sets of accounts, coins and nonces, with self-addressed requests
  and with requests delivered again.
  - The property is not inductive alone. It talks only about the last
    delivery, while the next delivery depends on the stores.
  - The inductive invariant `IInv` adds two facts:
    - `StoreDelivered`: every swap a node keeps is a delivered request;
    - `StoresPaired`: for any two accounts a and b, node a's entry under b
      and node b's entry under a are the same request, or mirror requests.
  - TLC checked `IInv` on the swap_match instance before the proof.
  - `PartyNode` and `CounterNode` compute what `MatchingSwap` does on the
    two nodes of a request.
    - The requester's node always saves the request under the
      counterparty's key, because the match it builds is the request itself.
    - The counterparty's node, on a match, saves the stored entry under its
      own key.
  - `DeliverStep` is the core step. It has four cases for the two nodes'
    stored entries:
    - neither node matches;
    - the entries are equal and both nodes match;
    - the entries are mirrors and only one node matches. The request is then
      the other mirror, a delivered request.
  - Both nodes' matches are the request and a mirror delivered before, which
    is the property.
- Without a once-only guard, the two nodes of a swap can disagree. The
  counterparty's node matches a repeated request, and the requester's does
  not. That is the swap.go:546 hazard. The model delivers requests again as
  the code allows, so no agreement property is stated.

## Proofs (`SwapPublishProofs.tla`)

- `TargetProcessesHolds`: `PSpec => []TargetProcesses`, for all sets of
  accounts, coins and nonces.
  - `TargetProcesses` says a Publish of a matched swap never panics on the
    node of its Target.
  - So the panic that swap_publish finds is confined to nodes that keep no
    swap of their own under the sender's key: the sender's own node, and
    nodes outside the swap.
  - The inductive invariant `PIInv` has two parts:
    - `StoreOwn`: a node keeps only swaps its account is a side of;
    - `MatchesStored`: once a node matched a swap, each side's node holds a
      swap under the other side's key.
  - `DeliverEffect` is the lemma for a delivery: it writes only the request,
    or the matched entry, which is a swap of the same two sides. It always
    leaves a swap under each side's key on the other side's node.
  - TLC checked `PIInv` and `TargetProcesses` on the `MC_SwapPublish`
    instance (with `MaxSent` = 4), with and without self-addressed requests.

Liveness and properties involving ENABLED stay with TLC, and this project has
none yet.

Every invariant and action property that a passing run checks is also proved
for every value of the constants that its assumptions allow.

## Proofs (`GovernanceSumProofs.tla`)

Both theorems hold for every finite set of addresses and proposals. That
finiteness is the assumption `FiniteStores` in `Governance.tla`.

- `NoMoneyCreatedHolds`: `Spec => []NoMoneyCreated`, with or without store
  faults.
- `FundsConservedHolds`: `~StoreFaults => (Spec => []FundsConserved)`.

The argument:
- `TypeOK` is the only strengthening needed. The invariant is a statement
  about how each step changes `TotalOLT`.
- `TotalStep` shows that every step keeps `TotalOLT` at most where it was, and
  keeps it equal when `StoreFaults` is FALSE.
  - `DebitTotal` shows that the debit of step 8 lowers the balance sum by
    `amt`.
  - `AddFundsTotal` shows that `AddFunds` raises the fund-store sum by `amt`.
    It raises `CurrentFunds(p)`, and that raises the sum over proposals.
  - `TransferFundsTotal` combines them for the four outcomes of
    `TransferFunds`. Only an `AddFunds` that fails and whose re-credit also
    fails loses `amt`.
- `InitTotal` shows the genesis total is `InitOLT` once per address.

- `VTNotCreatedHolds`: `Spec => []VTNotCreated`, for every finite set of
  validators as well (`FiniteStores`).
  - `ApplyValidatorVT` shows that `runApply` lowers the balance sum by the
    stake. It raises the validator table's sum by at most the stake:
    - a stake adds it;
    - an unstake subtracts it;
    - an unstake larger than the power changes nothing.
  - `SumExcept` is `SumUpdate` for an EXCEPT.
  - The governance actions leave `vt` and `power` alone (`VTStep`).

The sum lemmas:
- `FunSum` is a recursive function over the subsets of a finite set. The
  library's induction theorems take the predicate as an operator parameter,
  which the installed provers cannot instantiate.
- Instead, `SubsetInduction` states strong induction over subsets with a
  set `G` of subsets as its parameter. It is proved from `WFMin` and the
  well-foundedness of the strict-subset ordering, neither of which has an
  operator parameter.
- On top of it:
  - `SumUnique` and `SumExists` show that the defining equation of
    `FunSum`'s function has exactly one solution on every subset.
  - `SumFnDef` then shows that the `CHOOSE` in `FunSum` satisfies that
    equation, with integer values.
  - `SumUpdate`: changing one term by `d` changes the sum by `d`.
  - `SumConst`: a constant sum is the constant times the number of terms.

## Hazards seen while modelling but not among the runs

The project keeps at most twelve runs. These disagreements with the spec were found
with TLC on the same modules, by changing a constant or adding a property.
They are recorded as hazards in `PROJECT.json`:
- **A failed `rand.Read` (swap.go:187)** is only logged. With
  `RandFails = TRUE`, `InitiatorSafe` fails: I's coin is locked with the hash
  of the zero secret, and anyone can redeem it.
- **A resubmitted `SwapInit`** matches again on the counterparty's node only.
  That node saved the match under the requester's key (swap.go:546), while
  the requester's node still holds its own request (:539). So the two nodes
  of a swap stop agreeing after three deliveries. `MatchingSwap` has no
  caller, so no run records this.
- **`processCommon` (ext_lock.go:172)** overwrites the tracker of its name.
  A replayed or competing lock resets a tracker that is being broadcast back
  to New.
- **A Purge unstake** debits the VT balance (apply_validator.go:161) and
  also removes the power, so the stake is burnt. The spec does not say what
  an unstake returns. gov_safety checks the other direction, `VTNotCreated`:
  no order of stakes and unstakes creates VT.

## Not modelled (yet)

- CheckTx overlays, EndBlock, Commit and the app hash. They persist and hash,
  and change no state a property distinguishes.
- The validator store and the tracker store internals. They are not in
  `src/`.
- `FindSelectedValidator`, a pure index computation. It panics when the list
  is empty.
- The OLT contract stubs of the swap, and the rest of the legacy node
  application and the RPC client. The commands a Publish runs (`GetCommands`,
  `Execute`) are not in the sources; `command.go` only dispatches to chain
  calls.
- Witness signatures of the tracker job (⅔ of the power). They are not in
  `src/`.

## Plan for later sittings

1. A run that checks a forward-only tracker lifecycle, which the overwrite
   in `processCommon` breaks (ext_lock.go:172). It would need a run slot.
