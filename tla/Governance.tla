------------------------------ MODULE Governance ------------------------------
(***************************************************************************)
(* The governance engine of the OneLedger node, composed with staking:     *)
(*   - FundProposal transaction (src/action/governance/fundProposal.go),   *)
(*   - ProposalFundStore.AddFunds (src/data/governance/proposal_fund_store)*)
(*   - ProposalVoteStore Setup / Update / Delete / IsPassed                *)
(*     (src/data/governance/proposal_vote_store.go),                       *)
(*   - BeginBlock, which moves the block height (src/app/controller.go),   *)
(*   - ApplyValidator (module Staking), which changes the validator set    *)
(*     the funding transaction snapshots.                                  *)
(*                                                                         *)
(* Transactions are delivered one at a time (DeliverTx is serialised by    *)
(* the consensus driver) and DeliverTx keeps every write a handler made    *)
(* before it returned false: there is no per-transaction rollback.         *)
(* With StoreFaults = TRUE a write to the state store may fail, taking the *)
(* error paths the handlers contain.                                       *)
(***************************************************************************)
EXTENDS Staking, FiniteSets

CONSTANTS
  Proposals,        \* proposal IDs, all in the Active prefix
  FundValues,       \* OLT amounts a FundProposal transaction may carry
  FundingGoal,      \* Proposals -> goal
  FundingDeadline,  \* Proposals -> last height at which funding is accepted
  VotingPeriod,     \* options(Type).VotingDeadline
  InitOLT,          \* genesis OLT balance of every address
  VotePowers,       \* powers a caller of ProposalVoteStore.Update may write
  PassPercent,      \* pass threshold handed to IsPassed
  StoreFaults       \* TRUE: a State.Set / Delete may return an error

ASSUME GovernanceAssumption ==
  /\ FundValues \subseteq Nat
  /\ FundingGoal \in [Proposals -> Nat]
  /\ FundingDeadline \in [Proposals -> Nat]
  /\ VotingPeriod \in Nat
  /\ InitOLT \in Nat
  /\ VotePowers \subseteq Nat
  /\ PassPercent \in Nat
  /\ StoreFaults \in BOOLEAN

(* The balance, proposal and validator stores hold finitely many keys, so  *)
(* the supplies of OLT and VT are finite sums.                             *)
ASSUME FiniteStores ==
  IsFiniteSet(Addresses) /\ IsFiniteSet(Proposals) /\ IsFiniteSet(Validators)

VARIABLES
  height,          \* ctx.Header.Height
  status,          \* proposal.Status
  votingDeadline,  \* proposal.VotingDeadline
  funds,           \* ProposalFundStore: Proposals -> Addresses -> amount
  olt,             \* OLT balance of every address
  votes,           \* ProposalVoteStore: Proposals -> Validators -> entry
  snapshot         \* history: validator set read when the status became Voting

govVars == <<height, status, votingDeadline, funds, olt, votes, snapshot>>
vars == <<govVars, stakingVars>>

Status == {"Funding", "Voting"}

OPIN_UNKNOWN == "Unknown"
OPIN_POSITIVE == "Positive"
OPIN_NEGATIVE == "Negative"
OPIN_GIVEUP == "GiveUp"
Opinions == {OPIN_UNKNOWN, OPIN_POSITIVE, OPIN_NEGATIVE, OPIN_GIVEUP}

(* A key of the vote store that holds nothing.                             *)
NoEntry == [opinion |-> "None", power |-> 0]
VoteEntry == [opinion : Opinions, power : Nat] \cup {NoEntry}

(* The validators that have a key under proposal p.                        *)
Voters(p) == {v \in Validators : votes[p][v] /= NoEntry}

(* Sum of g[x] over the finite set S, as a recursive function.             *)
FunSum(g, S) ==
  LET sum[T \in SUBSET S] ==
        IF T = {} THEN 0
        ELSE LET x == CHOOSE x \in T : TRUE IN g[x] + sum[T \ {x}]
  IN  sum[S]

(* governance.GetCurrentFunds: the funds recorded for p, over all funders. *)
CurrentFunds(p) == FunSum(funds[p], Addresses)

TypeOK ==
  /\ StakingTypeOK
  /\ height \in Nat
  /\ status \in [Proposals -> Status]
  /\ votingDeadline \in [Proposals -> Nat]
  /\ funds \in [Proposals -> [Addresses -> Nat]]
  /\ olt \in [Addresses -> Nat]
  /\ votes \in [Proposals -> [Validators -> VoteEntry]]
  /\ snapshot \in [Proposals -> SUBSET Validators]

Init ==
  /\ StakingInit
  /\ height = 1
  /\ status = [p \in Proposals |-> "Funding"]
  /\ votingDeadline = [p \in Proposals |-> 0]
  /\ funds = [p \in Proposals |-> [a \in Addresses |-> 0]]
  /\ olt = [a \in Addresses |-> InitOLT]
  /\ votes = [p \in Proposals |-> [v \in Validators |-> NoEntry]]
  /\ snapshot = [p \in Proposals |-> {}]

-----------------------------------------------------------------------------
(***************************************************************************)
(* ProposalVoteStore.Setup for every validator of W: the key is written    *)
(* with OPIN_UNKNOWN and the validator's power.                            *)
(***************************************************************************)
SetupVotes(p, W) ==
  votes' = [votes EXCEPT ![p] =
              [v \in Validators |-> IF v \in W
                                      THEN [opinion |-> OPIN_UNKNOWN, power |-> power[v]]
                                      ELSE @[v]]]

(***************************************************************************)
(* Step 8 of runFundProposal: MinusFromAddress, then AddFunds.  A failed   *)
(* debit returns false; a failed AddFunds re-credits the funder, and when  *)
(* that re-credit fails too the debit stays.                               *)
(***************************************************************************)
(* Mutant of AddFunds: the stored amount is overwritten, not added to.     *)
AddFundsOverwrite(p, a, amt) == funds' = [funds EXCEPT ![p][a] = amt]

AddFunds(p, a, amt) == funds' = [funds EXCEPT ![p][a] = @ + amt]

(* Mutant of TransferFunds: the debit does not check the balance.          *)
TransferFundsNoBalanceCheck(p, a, amt) ==
  /\ olt' = [olt EXCEPT ![a] = @ - amt]
  /\ AddFunds(p, a, amt)

(* Mutant of TransferFunds: the funder is re-credited whatever AddFunds    *)
(* returned.                                                               *)
TransferFundsCompensateAlways(p, a, amt) ==
  \/ /\ olt[a] < amt
     /\ UNCHANGED <<olt, funds>>
  \/ /\ olt[a] >= amt
     /\ AddFunds(p, a, amt)
     /\ UNCHANGED olt

TransferFunds(p, a, amt) ==
  \/ /\ olt[a] < amt
     /\ UNCHANGED <<olt, funds>>
  \/ /\ olt[a] >= amt
     /\ olt' = [olt EXCEPT ![a] = @ - amt]
     /\ AddFunds(p, a, amt)
  \/ /\ olt[a] >= amt /\ StoreFaults
     /\ UNCHANGED <<olt, funds>>
  \/ /\ olt[a] >= amt /\ StoreFaults
     /\ olt' = [olt EXCEPT ![a] = @ - amt]
     /\ UNCHANGED funds

ReachesGoal(p, amt) == amt + CurrentFunds(p) >= FundingGoal[p]

(* Step 4, goal not reached: only the transfer of step 8.                  *)
FundBelowGoal(p, a, amt) ==
  /\ ~ReachesGoal(p, amt)
  /\ TransferFunds(p, a, amt)
  /\ UNCHANGED <<status, votingDeadline, votes, snapshot>>

(* Steps 5-7 succeed: the current validator set is written into the vote  *)
(* store, the proposal is set to Voting with its VotingDeadline, and the   *)
(* transfer of step 8 follows.                                             *)
StartVoting(p, a, amt) ==
  /\ ReachesGoal(p, amt)
  /\ SetupVotes(p, ValidatorSet)
  /\ status' = [status EXCEPT ![p] = "Voting"]
  /\ votingDeadline' = [votingDeadline EXCEPT ![p] = height + VotingPeriod]
  /\ snapshot' = [snapshot EXCEPT ![p] = ValidatorSet]
  /\ TransferFunds(p, a, amt)

(* Step 6 fails at some validator: the ones iterated before it keep their  *)
(* keys, nothing else is written.                                          *)
SetupFails(p, a, amt) ==
  /\ ReachesGoal(p, amt) /\ StoreFaults
  /\ \E W \in SUBSET ValidatorSet \ {ValidatorSet} : SetupVotes(p, W)
  /\ UNCHANGED <<status, votingDeadline, funds, olt, snapshot>>

(* Step 7 fails: the whole snapshot is written, the proposal is not.       *)
ProposalSetFails(p, a, amt) ==
  /\ ReachesGoal(p, amt) /\ StoreFaults
  /\ SetupVotes(p, ValidatorSet)
  /\ UNCHANGED <<status, votingDeadline, funds, olt, snapshot>>

(* Mutant of FundProposal: the status check of step 3 is missing.          *)
FundProposalNoStatusCheck(p, a, amt) ==
  /\ height <= FundingDeadline[p]
  /\ \/ FundBelowGoal(p, a, amt)
     \/ StartVoting(p, a, amt)
     \/ SetupFails(p, a, amt)
     \/ ProposalSetFails(p, a, amt)
  /\ UNCHANGED <<height, stakingVars>>

(***************************************************************************)
(* runFundProposal, delivered.  Rejections at steps 2 and 3 write nothing. *)
(* When the contribution reaches the goal, the vote snapshot (step 6) and  *)
(* the status write (step 7) happen before the debit (step 8); a failure   *)
(* at any step returns false with the earlier writes kept.                 *)
(***************************************************************************)
FundProposal(p, a, amt) ==
  /\ height <= FundingDeadline[p]
  /\ status[p] = "Funding"
  /\ \/ FundBelowGoal(p, a, amt)
     \/ StartVoting(p, a, amt)
     \/ SetupFails(p, a, amt)
     \/ ProposalSetFails(p, a, amt)
  /\ UNCHANGED <<height, stakingVars>>

(* Mutant of UpdateVote: the Exists check on the key is missing.          *)
UpdateVoteNoExistCheck(p, v, o, pw) ==
  /\ votes' = [votes EXCEPT ![p][v] = [opinion |-> o, power |-> pw]]
  /\ UNCHANGED <<height, status, votingDeadline, funds, olt, snapshot, stakingVars>>

(***************************************************************************)
(* ProposalVoteStore.Update: only a key that exists may be overwritten,    *)
(* and the caller's whole vote (opinion and power) is written.             *)
(***************************************************************************)
UpdateVote(p, v, o, pw) ==
  /\ votes[p][v] /= NoEntry
  /\ votes' = [votes EXCEPT ![p][v] = [opinion |-> o, power |-> pw]]
  /\ UNCHANGED <<height, status, votingDeadline, funds, olt, snapshot, stakingVars>>

(***************************************************************************)
(* ProposalVoteStore.Delete: every key of p is deleted; a failed delete    *)
(* leaves its key and the call reports an error.                           *)
(***************************************************************************)
DeleteVotes(p) ==
  /\ \/ votes' = [votes EXCEPT ![p] = [v \in Validators |-> NoEntry]]
     \/ /\ StoreFaults
        /\ \E K \in SUBSET Voters(p) :
             votes' = [votes EXCEPT ![p] = [v \in Validators |->
                                              IF v \in K THEN @[v] ELSE NoEntry]]
  /\ UNCHANGED <<height, status, votingDeadline, funds, olt, snapshot, stakingVars>>

(* BeginBlock: the header of the new block becomes ctx.Header.            *)
BeginBlock ==
  /\ height' = height + 1
  /\ UNCHANGED <<status, votingDeadline, funds, olt, votes, snapshot, stakingVars>>

(* A delivered ApplyValidator transaction.                                 *)
Stake ==
  /\ StakingNext
  /\ UNCHANGED govVars

Next ==
  \/ BeginBlock
  \/ \E p \in Proposals, a \in Addresses, amt \in FundValues : FundProposal(p, a, amt)
  \/ \E p \in Proposals, v \in Validators, o \in Opinions, pw \in VotePowers :
        UpdateVote(p, v, o, pw)
  \/ \E p \in Proposals : DeleteVotes(p)
  \/ Stake

Spec == Init /\ [][Next]_vars

-----------------------------------------------------------------------------
(***************************************************************************)
(* ProposalVoteStore.IsPassed.  totalPower is the power of every key of p  *)
(* less the GiveUp power, so Unknown keys stay in the denominator; the     *)
(* percentage is 0 when totalPower is 0, and the proposal passes when it   *)
(* is at least passPercent/100 (compared here without rounding).  Without  *)
(* any key GetVotesByID fails and IsPassed returns false.                  *)
(***************************************************************************)
OpinionPower(p, o) ==
  FunSum([v \in Validators |-> IF votes[p][v].opinion = o THEN votes[p][v].power ELSE 0],
         Validators)

IsPassed(p, passPercent) ==
  LET totalPower == FunSum([v \in Validators |-> votes[p][v].power], Validators)
                      - OpinionPower(p, OPIN_GIVEUP)
  IN  /\ Voters(p) /= {}
      /\ IF totalPower > 0
           THEN OpinionPower(p, OPIN_POSITIVE) * 100 >= passPercent * totalPower
           ELSE 0 >= passPercent

-----------------------------------------------------------------------------
(***************************************************************************)
(* Properties.                                                             *)
(***************************************************************************)

(* Every key under a proposal in Voting belongs to a validator of the set  *)
(* snapshotted when runFundProposal moved it to Voting: no validator       *)
(* outside that snapshot can weigh on IsPassed.                            *)
NoForeignVoter ==
  \A p \in Proposals : status[p] = "Voting" => Voters(p) \subseteq snapshot[p]

(* OLT is conserved across the balances and the proposal fund store: what  *)
(* runFundProposal debits is exactly what AddFunds records (spec 8.2).     *)
TotalOLT == FunSum(olt, Addresses) + FunSum([p \in Proposals |-> CurrentFunds(p)], Proposals)

FundsConserved == TotalOLT = InitOLT * FunSum([a \in Addresses |-> 1], Addresses)

(* Whatever fails, runFundProposal never creates OLT: the compensation     *)
(* after a failed AddFunds gives back at most what was debited.            *)
NoMoneyCreated == TotalOLT <= InitOLT * FunSum([a \in Addresses |-> 1], Addresses)

(* ApplyValidator never creates VT: the VT balances and the validator      *)
(* table's power together never exceed the genesis VT.  runApply writes    *)
(* the debited balance before it calls HandleStake or HandleUnstake, so a  *)
(* failed unstake, or a Purge unstake, loses the stake instead.            *)
VTSupply == FunSum(vt, Addresses) + FunSum(power, Validators)

VTNotCreated ==
  VTSupply <= InitVT * FunSum([a \in Addresses |-> 1], Addresses) + FunSum(InitPower, Validators)

(* The fund store, the status and the snapshot, with the validator set     *)
(* GetValidatorSet returns, seen as the proposal lifecycle of spec 4.6.    *)
Lifecycle == INSTANCE ProposalLifecycle WITH validators <- ValidatorSet

(* runFundProposal, the vote store, ApplyValidator and BeginBlock together *)
(* implement the lifecycle: funds are added only while a proposal is in    *)
(* Funding before its deadline, and a proposal enters Voting once, with   *)
(* the validator set of that block as its snapshot.                        *)
LifecycleSpec == Lifecycle!Spec

(* Spec 4.6 / 3: a proposal is in Voting only when the funds recorded for  *)
(* it reach its FundingGoal.                                               *)
VotingImpliesFunded ==
  \A p \in Proposals : status[p] = "Voting" => CurrentFunds(p) >= FundingGoal[p]

(* Spec 8.3: VotingDeadline > FundingDeadline for a proposal in Voting.    *)
VotingDeadlineAfterFunding ==
  \A p \in Proposals : status[p] = "Voting" => votingDeadline[p] > FundingDeadline[p]

(* Spec 8.5: IsPassed is true iff positive * 100 >= threshold *            *)
(* (positive + negative) and positive + negative > 0.                      *)
SpecPassed(p, passPercent) ==
  LET pos == OpinionPower(p, OPIN_POSITIVE)
      neg == OpinionPower(p, OPIN_NEGATIVE)
  IN  pos + neg > 0 /\ pos * 100 >= passPercent * (pos + neg)

IsPassedAsSpecified ==
  \A p \in Proposals : status[p] = "Voting" => (IsPassed(p, PassPercent) <=> SpecPassed(p, PassPercent))
=============================================================================
