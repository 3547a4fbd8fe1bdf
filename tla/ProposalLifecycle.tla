---------------------------- MODULE ProposalLifecycle ----------------------------
(***************************************************************************)
(* What the funding stage of a governance proposal promises (spec 4.6),    *)
(* with balances, vote keys and failures left out.  A proposal takes funds *)
(* only while it is in Funding and the chain is not past its               *)
(* FundingDeadline; a contribution only adds to what its funder gave.  It  *)
(* enters Voting once, in one step, from Funding and before the deadline,  *)
(* and that step records the validator set of that moment as the voters.   *)
(* Nothing leaves Voting.  Whether the goal was reached is not promised:   *)
(* the code does not keep it (run gov_unfunded).                           *)
(***************************************************************************)
EXTENDS Naturals

CONSTANTS Proposals, Addresses, Validators, FundingDeadline

VARIABLES
  height,      \* the block height
  status,      \* status[p]: "Funding" or "Voting"
  funds,       \* funds[p][a]: what funder a gave to proposal p
  snapshot,    \* snapshot[p]: the voters of p, fixed when p enters Voting
  validators   \* the current validator set

lvars == <<height, status, funds, snapshot, validators>>

Init ==
  /\ height = 1
  /\ status = [p \in Proposals |-> "Funding"]
  /\ funds = [p \in Proposals |-> [a \in Addresses |-> 0]]
  /\ snapshot = [p \in Proposals |-> {}]
  /\ validators \in SUBSET Validators

(* A new block.                                                            *)
Tick ==
  /\ height' = height + 1
  /\ UNCHANGED <<status, funds, snapshot, validators>>

(* The validator set changes.                                              *)
Reconfigure ==
  /\ validators' \in SUBSET Validators
  /\ UNCHANGED <<height, status, funds, snapshot>>

(* Proposal p is open for funding.                                         *)
Open(p) == status[p] = "Funding" /\ height <= FundingDeadline[p]

(* Funder a's entry of p grows, and no other entry changes.                 *)
Contribute(p, a) ==
  /\ funds'[p][a] >= funds[p][a]
  /\ funds' = [funds EXCEPT ![p][a] = funds'[p][a]]

(* Funder a adds to p.                                                     *)
Fund(p, a) ==
  /\ Open(p)
  /\ Contribute(p, a)
  /\ UNCHANGED <<height, status, snapshot, validators>>

(* p enters Voting with the current validators as its voters; the         *)
(* contribution that took it there may be recorded in the same step.       *)
BeginVoting(p) ==
  /\ Open(p)
  /\ status' = [status EXCEPT ![p] = "Voting"]
  /\ snapshot' = [snapshot EXCEPT ![p] = validators]
  /\ \/ UNCHANGED funds
     \/ \E a \in Addresses : Contribute(p, a)
  /\ UNCHANGED <<height, validators>>

Next ==
  \/ Tick
  \/ Reconfigure
  \/ \E p \in Proposals, a \in Addresses : Fund(p, a)
  \/ \E p \in Proposals : BeginVoting(p)

Spec == Init /\ [][Next]_lvars
=============================================================================
