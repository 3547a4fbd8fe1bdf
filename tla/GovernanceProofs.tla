--------------------------- MODULE GovernanceProofs ---------------------------
(***************************************************************************)
(* Proofs about the Governance specification, for every value of the      *)
(* constants that satisfies StakingAssumption and GovernanceAssumption.    *)
(***************************************************************************)
EXTENDS Governance, TLAPS

(* Vote-store invariant: a proposal still in Funding holds no vote key,    *)
(* and one in Voting holds keys only for its snapshot.  Valid when no      *)
(* store write fails.                                                      *)
VoteStoreInv ==
  \A p \in Proposals :
     /\ status[p] = "Funding" => Voters(p) = {}
     /\ status[p] = "Voting" => Voters(p) \subseteq snapshot[p]

IInv == TypeOK /\ VoteStoreInv

-----------------------------------------------------------------------------
(* Writing the snapshot keys of any set of validators keeps the vote store *)
(* well typed.                                                             *)
LEMMA SetupVotesType ==
  ASSUME TypeOK, NEW p \in Proposals, NEW W \in SUBSET Validators, SetupVotes(p, W)
  PROVE  votes' \in [Proposals -> [Validators -> VoteEntry]]
BY StakingAssumption DEF TypeOK, StakingTypeOK, SetupVotes, VoteEntry, Opinions, OPIN_UNKNOWN

(* Step 8 of runFundProposal keeps balances and funds natural numbers.     *)
LEMMA TransferFundsType ==
  ASSUME TypeOK, NEW p \in Proposals, NEW a \in Addresses, NEW amt \in FundValues,
         TransferFunds(p, a, amt)
  PROVE  /\ olt' \in [Addresses -> Nat]
         /\ funds' \in [Proposals -> [Addresses -> Nat]]
<1>1. amt \in Nat
  BY GovernanceAssumption
<1>2. olt[a] >= amt => [olt EXCEPT ![a] = @ - amt] \in [Addresses -> Nat]
  BY <1>1 DEF TypeOK
<1>3. CASE olt[a] >= amt /\ olt' = [olt EXCEPT ![a] = @ - amt] /\ AddFunds(p, a, amt)
  BY <1>1, <1>2, <1>3 DEF TypeOK, AddFunds
<1>4. CASE olt[a] >= amt /\ olt' = [olt EXCEPT ![a] = @ - amt] /\ UNCHANGED funds
  BY <1>2, <1>4 DEF TypeOK
<1>5. CASE UNCHANGED <<olt, funds>>
  BY <1>5 DEF TypeOK
<1>6. QED
  BY <1>3, <1>4, <1>5 DEF TransferFunds

(* An ApplyValidator transaction keeps the staking state well typed.       *)
LEMMA ApplyValidatorType ==
  ASSUME StakingTypeOK, NEW a \in Addresses, NEW v \in Validators, NEW amt \in StakeValues,
         NEW purge \in BOOLEAN, ApplyValidator(a, v, amt, purge)
  PROVE  StakingTypeOK'
BY StakingAssumption DEF StakingTypeOK, ApplyValidator, checkBalances, HandleStake, HandleUnstake

(* A delivered FundProposal transaction keeps the state well typed.        *)
LEMMA FundProposalType ==
  ASSUME TypeOK, NEW p \in Proposals, NEW a \in Addresses, NEW amt \in FundValues,
         FundProposal(p, a, amt)
  PROVE  TypeOK'
<1>1. ValidatorSet \in SUBSET Validators
  BY DEF ValidatorSet
<1>2. StakingTypeOK' /\ height' \in Nat
  BY DEF FundProposal, TypeOK, StakingTypeOK, stakingVars
<1>3. CASE FundBelowGoal(p, a, amt)
  BY <1>2, <1>3, TransferFundsType DEF FundBelowGoal, TypeOK
<1>4. CASE StartVoting(p, a, amt)
  <2>1. votes' \in [Proposals -> [Validators -> VoteEntry]]
    BY <1>1, <1>4, SetupVotesType DEF StartVoting
  <2>2. /\ status' \in [Proposals -> Status]
        /\ votingDeadline' \in [Proposals -> Nat]
        /\ snapshot' \in [Proposals -> SUBSET Validators]
    BY <1>1, <1>4, GovernanceAssumption DEF StartVoting, TypeOK, Status
  <2>3. QED
    BY <1>2, <1>4, <2>1, <2>2, TransferFundsType DEF StartVoting, TypeOK
<1>5. CASE SetupFails(p, a, amt)
  <2>1. PICK W \in SUBSET ValidatorSet \ {ValidatorSet} : SetupVotes(p, W)
    BY <1>5 DEF SetupFails
  <2>2. votes' \in [Proposals -> [Validators -> VoteEntry]]
    BY <1>1, <2>1, SetupVotesType
  <2>3. QED
    BY <1>2, <1>5, <2>2 DEF SetupFails, TypeOK
<1>6. CASE ProposalSetFails(p, a, amt)
  BY <1>1, <1>2, <1>6, SetupVotesType DEF ProposalSetFails, TypeOK
<1>7. QED
  BY <1>3, <1>4, <1>5, <1>6 DEF FundProposal

(* The initial state is well typed.                                        *)
LEMMA InitTypeOK == Init => TypeOK
BY StakingAssumption, GovernanceAssumption
DEF Init, StakingInit, TypeOK, StakingTypeOK, VoteEntry, NoEntry, Status

(* Every step of Next, and every stutter, keeps the state well typed.      *)
LEMMA TypeOKStep == TypeOK /\ [Next]_vars => TypeOK'
<1> SUFFICES ASSUME TypeOK, [Next]_vars PROVE TypeOK'
  OBVIOUS
<1>1. CASE BeginBlock
  BY <1>1 DEF BeginBlock, TypeOK, StakingTypeOK, stakingVars
<1>2. CASE \E p \in Proposals, a \in Addresses, amt \in FundValues : FundProposal(p, a, amt)
  BY <1>2, FundProposalType
<1>3. ASSUME NEW p \in Proposals, NEW v \in Validators, NEW o \in Opinions,
             NEW pw \in VotePowers, UpdateVote(p, v, o, pw)
      PROVE  TypeOK'
  <2>1. [opinion |-> o, power |-> pw] \in VoteEntry
    BY GovernanceAssumption DEF VoteEntry
  <2>2. QED
    BY <1>3, <2>1 DEF UpdateVote, TypeOK, StakingTypeOK, stakingVars
<1>4. ASSUME NEW p \in Proposals, DeleteVotes(p)
      PROVE  TypeOK'
  <2>1. UNCHANGED <<height, status, votingDeadline, funds, olt, snapshot, stakingVars>>
    BY <1>4 DEF DeleteVotes
  <2>2. votes' \in [Proposals -> [Validators -> VoteEntry]]
    <3>1. CASE votes' = [votes EXCEPT ![p] = [v \in Validators |-> NoEntry]]
      BY <3>1 DEF TypeOK, VoteEntry, NoEntry
    <3>2. CASE \E K \in SUBSET Voters(p) :
                 votes' = [votes EXCEPT ![p] = [v \in Validators |->
                                                  IF v \in K THEN @[v] ELSE NoEntry]]
      <4>1. PICK K \in SUBSET Voters(p) :
                 votes' = [votes EXCEPT ![p] = [v \in Validators |->
                                                  IF v \in K THEN @[v] ELSE NoEntry]]
        BY <3>2
      <4>2. QED
        BY <4>1 DEF TypeOK, VoteEntry, NoEntry
    <3>3. QED
      BY <1>4, <3>1, <3>2 DEF DeleteVotes
  <2>3. QED
    BY <2>1, <2>2 DEF TypeOK, StakingTypeOK, stakingVars
<1>5. CASE Stake
  BY <1>5, ApplyValidatorType DEF Stake, StakingNext, TypeOK, govVars
<1>6. CASE UNCHANGED vars
  BY <1>6 DEF vars, govVars, stakingVars, TypeOK, StakingTypeOK
<1>7. QED
  BY <1>1, <1>2, <1>3, <1>4, <1>5, <1>6 DEF Next

(* TypeOK is an invariant of the specification.                            *)
THEOREM TypeCorrect == Spec => []TypeOK
BY InitTypeOK, TypeOKStep, PTL DEF Spec

-----------------------------------------------------------------------------
(* The vote store starts empty.                                            *)
LEMMA InitVoteStoreInv == Init => VoteStoreInv
BY DEF Init, VoteStoreInv, Voters

(* A step that leaves votes, status and snapshot alone keeps VoteStoreInv. *)
LEMMA UnchangedVoteStoreInv ==
  ASSUME VoteStoreInv, UNCHANGED <<status, votes, snapshot>>
  PROVE  VoteStoreInv'
BY DEF VoteStoreInv, Voters

(* Moving a proposal to Voting: the keys written are those of the snapshot *)
(* taken in the same step, and the proposal held none before.              *)
LEMMA StartVotingInv ==
  ASSUME TypeOK, VoteStoreInv, NEW p \in Proposals, NEW a \in Addresses, NEW amt \in FundValues,
         status[p] = "Funding", StartVoting(p, a, amt)
  PROVE  VoteStoreInv'
<1> SUFFICES ASSUME NEW q \in Proposals
             PROVE  /\ status'[q] = "Funding" => Voters(q)' = {}
                    /\ status'[q] = "Voting" => Voters(q)' \subseteq snapshot'[q]
  BY DEF VoteStoreInv
<1>1. CASE q = p
  <2>1. Voters(p) = {}
    BY DEF VoteStoreInv
  <2>2. \A v \in Validators : v \notin ValidatorSet => votes'[p][v] = NoEntry
    BY <2>1 DEF StartVoting, SetupVotes, Voters, TypeOK
  <2>3. Voters(p)' \subseteq ValidatorSet
    BY <2>2 DEF Voters
  <2>4. status'[p] = "Voting" /\ snapshot'[p] = ValidatorSet
    BY DEF StartVoting, TypeOK
  <2>5. QED
    BY <1>1, <2>3, <2>4
<1>2. CASE q # p
  <2>1. votes'[q] = votes[q] /\ status'[q] = status[q] /\ snapshot'[q] = snapshot[q]
    BY <1>2 DEF StartVoting, SetupVotes, TypeOK
  <2>2. QED
    BY <2>1 DEF VoteStoreInv, Voters
<1>3. QED
  BY <1>1, <1>2

(* Update overwrites an existing key with another one: the set of keys is  *)
(* the same.                                                               *)
LEMMA UpdateVoteInv ==
  ASSUME TypeOK, VoteStoreInv, NEW p \in Proposals, NEW v \in Validators, NEW o \in Opinions,
         NEW pw \in VotePowers, UpdateVote(p, v, o, pw)
  PROVE  VoteStoreInv'
<1>1. \A q \in Proposals : Voters(q)' = Voters(q)
  BY DEF UpdateVote, Voters, NoEntry, TypeOK, Opinions, OPIN_UNKNOWN, OPIN_POSITIVE,
         OPIN_NEGATIVE, OPIN_GIVEUP
<1>2. QED
  BY <1>1 DEF UpdateVote, VoteStoreInv

(* Without store faults Delete removes every key of the proposal.          *)
LEMMA DeleteVotesInv ==
  ASSUME TypeOK, VoteStoreInv, ~StoreFaults, NEW p \in Proposals, DeleteVotes(p)
  PROVE  VoteStoreInv'
<1>1. votes' = [votes EXCEPT ![p] = [v \in Validators |-> NoEntry]]
  BY DEF DeleteVotes
<1>2. \A q \in Proposals : Voters(q)' \subseteq Voters(q)
  BY <1>1 DEF Voters, TypeOK
<1>3. Voters(p)' = {}
  BY <1>1 DEF Voters, TypeOK
<1>4. QED
  BY <1>2, <1>3 DEF DeleteVotes, VoteStoreInv

(* With no failing store write, a proposal in Voting holds vote keys only  *)
(* for the validators snapshotted when runFundProposal moved it to Voting. *)
THEOREM NoForeignVoterHolds == ~StoreFaults => (Spec => []NoForeignVoter)
<1> SUFFICES ASSUME ~StoreFaults PROVE Spec => []NoForeignVoter
  OBVIOUS
<1>1. Init => IInv
  BY InitTypeOK, InitVoteStoreInv DEF IInv
<1>2. IInv /\ [Next]_vars => IInv'
  <2> SUFFICES ASSUME TypeOK, VoteStoreInv, [Next]_vars
               PROVE  VoteStoreInv'
    BY TypeOKStep DEF IInv
  <2>1. CASE BeginBlock
    BY <2>1, UnchangedVoteStoreInv DEF BeginBlock
  <2>2. ASSUME NEW p \in Proposals, NEW a \in Addresses, NEW amt \in FundValues,
               FundProposal(p, a, amt)
        PROVE  VoteStoreInv'
    <3>1. CASE FundBelowGoal(p, a, amt)
      BY <3>1, UnchangedVoteStoreInv DEF FundBelowGoal
    <3>2. CASE StartVoting(p, a, amt)
      BY <2>2, <3>2, StartVotingInv DEF FundProposal
    <3>3. QED
      BY <2>2, <3>1, <3>2 DEF FundProposal, SetupFails, ProposalSetFails
  <2>3. ASSUME NEW p \in Proposals, NEW v \in Validators, NEW o \in Opinions,
               NEW pw \in VotePowers, UpdateVote(p, v, o, pw)
        PROVE  VoteStoreInv'
    BY <2>3, UpdateVoteInv
  <2>4. ASSUME NEW p \in Proposals, DeleteVotes(p)
        PROVE  VoteStoreInv'
    BY <2>4, DeleteVotesInv
  <2>5. CASE Stake
    BY <2>5, UnchangedVoteStoreInv DEF Stake, govVars
  <2>6. CASE UNCHANGED vars
    BY <2>6, UnchangedVoteStoreInv DEF vars, govVars
  <2>7. QED
    BY <2>1, <2>2, <2>3, <2>4, <2>5, <2>6 DEF Next
<1>3. IInv => NoForeignVoter
  BY DEF IInv, VoteStoreInv, NoForeignVoter
<1>4. QED
  BY <1>1, <1>2, <1>3, PTL DEF Spec

-----------------------------------------------------------------------------
(* The lifecycle variables as Governance computes them.                    *)
lbar == <<height, status, funds, snapshot, ValidatorSet>>

(* GetValidatorSet reads only the validator table.                         *)
LEMMA ValidatorSetFrame == UNCHANGED power => UNCHANGED ValidatorSet
BY DEF ValidatorSet

(* Step 8 of runFundProposal, when it records the contribution, is a       *)
(* lifecycle contribution of the funder to the proposal.                   *)
LEMMA AddFundsContributes ==
  ASSUME TypeOK, NEW p \in Proposals, NEW a \in Addresses, NEW amt \in FundValues,
         AddFunds(p, a, amt)
  PROVE  Lifecycle!Contribute(p, a)
<1>1. amt \in Nat
  BY GovernanceAssumption
<1>2. funds'[p][a] = funds[p][a] + amt
  BY DEF AddFunds, TypeOK
<1>3. funds' = [funds EXCEPT ![p][a] = funds[p][a] + amt]
  BY DEF AddFunds
<1>4. funds' = [funds EXCEPT ![p][a] = funds'[p][a]]
  BY <1>2, <1>3
<1>5. funds'[p][a] >= funds[p][a]
  BY <1>1, <1>2 DEF TypeOK
<1>6. QED
  BY <1>4, <1>5 DEF Lifecycle!Contribute

(* A delivered FundProposal is a lifecycle Fund, a BeginVoting, or a       *)
(* stutter of the lifecycle (a failed or zero transfer, a failed setup).   *)
LEMMA FundProposalRefines ==
  ASSUME TypeOK, NEW p \in Proposals, NEW a \in Addresses, NEW amt \in FundValues,
         FundProposal(p, a, amt)
  PROVE  [Lifecycle!Next]_lbar
<1>1. Lifecycle!Open(p)
  BY DEF FundProposal, Lifecycle!Open
<1>2. UNCHANGED <<height, power>> /\ UNCHANGED ValidatorSet
  BY ValidatorSetFrame DEF FundProposal, stakingVars
<1>3. TransferFunds(p, a, amt) => UNCHANGED funds \/ Lifecycle!Contribute(p, a)
  BY AddFundsContributes DEF TransferFunds
<1>4. CASE FundBelowGoal(p, a, amt)
  <2>1. UNCHANGED <<status, snapshot>> /\ TransferFunds(p, a, amt)
    BY <1>4 DEF FundBelowGoal
  <2>2. CASE UNCHANGED funds
    BY <1>2, <2>1, <2>2 DEF lbar
  <2>3. CASE Lifecycle!Contribute(p, a)
    <3>1. Lifecycle!Fund(p, a)
      BY <1>1, <1>2, <2>1, <2>3 DEF Lifecycle!Fund
    <3>2. QED
      BY <3>1 DEF Lifecycle!Next
  <2>4. QED
    BY <1>3, <2>1, <2>2, <2>3
<1>5. CASE StartVoting(p, a, amt)
  <2>1. /\ status' = [status EXCEPT ![p] = "Voting"]
        /\ snapshot' = [snapshot EXCEPT ![p] = ValidatorSet]
        /\ TransferFunds(p, a, amt)
    BY <1>5 DEF StartVoting
  <2>2. Lifecycle!BeginVoting(p)
    BY <1>1, <1>2, <1>3, <2>1 DEF Lifecycle!BeginVoting
  <2>3. QED
    BY <2>2 DEF Lifecycle!Next
<1>6. CASE SetupFails(p, a, amt) \/ ProposalSetFails(p, a, amt)
  BY <1>2, <1>6 DEF SetupFails, ProposalSetFails, lbar
<1>7. QED
  BY <1>4, <1>5, <1>6 DEF FundProposal

(* Every step of Governance is a lifecycle step or leaves the lifecycle    *)
(* variables alone.                                                        *)
LEMMA LifecycleStep == TypeOK /\ [Next]_vars => [Lifecycle!Next]_lbar
<1> SUFFICES ASSUME TypeOK, [Next]_vars PROVE [Lifecycle!Next]_lbar
  OBVIOUS
<1>1. CASE BeginBlock
  <2>1. UNCHANGED ValidatorSet
    BY <1>1, ValidatorSetFrame DEF BeginBlock, stakingVars
  <2>2. Lifecycle!Tick
    BY <1>1, <2>1 DEF BeginBlock, Lifecycle!Tick
  <2>3. QED
    BY <2>2 DEF Lifecycle!Next
<1>2. CASE \E p \in Proposals, a \in Addresses, amt \in FundValues : FundProposal(p, a, amt)
  BY <1>2, FundProposalRefines
<1>3. CASE \E p \in Proposals, v \in Validators, o \in Opinions, pw \in VotePowers :
             UpdateVote(p, v, o, pw)
  BY <1>3, ValidatorSetFrame DEF UpdateVote, stakingVars, lbar
<1>4. CASE \E p \in Proposals : DeleteVotes(p)
  BY <1>4, ValidatorSetFrame DEF DeleteVotes, stakingVars, lbar
<1>5. CASE Stake
  <2>1. Lifecycle!Reconfigure
    BY <1>5 DEF Stake, govVars, ValidatorSet, Lifecycle!Reconfigure
  <2>2. QED
    BY <2>1 DEF Lifecycle!Next
<1>6. CASE UNCHANGED vars
  BY <1>6, ValidatorSetFrame DEF vars, govVars, stakingVars, lbar
<1>7. QED
  BY <1>1, <1>2, <1>3, <1>4, <1>5, <1>6 DEF Next

(* For all constants, with or without store faults, Governance implements  *)
(* the proposal lifecycle under the mapping validators <- ValidatorSet:    *)
(* funds grow only for a Funding proposal before its deadline, and a       *)
(* proposal enters Voting once, snapshotting the validator set of the      *)
(* step in which runFundProposal moves it.                                 *)
THEOREM GovernanceRefinesLifecycle == Spec => LifecycleSpec
<1>1. Init => Lifecycle!Init
  BY DEF Init, StakingInit, ValidatorSet, Lifecycle!Init
<1>2. TypeOK /\ [Next]_vars => [Lifecycle!Next]_lbar
  BY LifecycleStep
<1>3. QED
  BY <1>1, <1>2, TypeCorrect, PTL DEF Spec, LifecycleSpec, Lifecycle!Spec, lbar, Lifecycle!lvars
=============================================================================
