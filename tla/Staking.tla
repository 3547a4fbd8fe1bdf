------------------------------- MODULE Staking -------------------------------
(***************************************************************************)
(* The staking transaction of the OneLedger node: ApplyValidator           *)
(* (src/action/staking/apply_validator.go, runApply).  A stake address     *)
(* moves VT from its balance into the power of a validator (Purge = FALSE) *)
(* or asks the validator store to unstake (Purge = TRUE).                  *)
(*                                                                         *)
(* The validator store itself (identity.ValidatorStore: HandleStake,       *)
(* HandleUnstake, GetValidatorSet) is not part of the sources; its          *)
(* behaviour is taken from the specification (section 4.3).                *)
(*                                                                         *)
(* DeliverTx in src/app/controller.go has no per-transaction rollback: a   *)
(* write done before a handler returns false stays in the block's state.   *)
(***************************************************************************)
EXTENDS Naturals

CONSTANTS
  Addresses,    \* accounts holding a balance (stake and funding addresses)
  Validators,   \* validator addresses
  StakeValues,  \* VT amounts a transaction may carry
  InitVT,       \* genesis VT balance of every address
  InitPower     \* genesis validator table: Validators -> power

ASSUME StakingAssumption ==
  /\ StakeValues \subseteq Nat
  /\ InitVT \in Nat
  /\ InitPower \in [Validators -> Nat]

VARIABLES
  vt,      \* VT balance of every address (balance.Store, currency "VT")
  power    \* validator table: power 0 means "not in the store"

stakingVars == <<vt, power>>

StakingTypeOK ==
  /\ vt \in [Addresses -> Nat]
  /\ power \in [Validators -> Nat]

(* GetValidatorSet: the validators the store holds.                        *)
ValidatorSet == {v \in Validators : power[v] > 0}

StakingInit ==
  /\ vt = [a \in Addresses |-> InitVT]
  /\ power = InitPower

(* HandleStake: add the stake to the validator, inserting it if absent.    *)
HandleStake(v, amt) == power' = [power EXCEPT ![v] = @ + amt]

(* HandleUnstake: subtract the stake; the validator is dropped when its    *)
(* power reaches zero.  An unstake of more than the validator holds is an  *)
(* error and leaves the table as it was.                                   *)
HandleUnstake(v, amt) ==
  IF amt <= power[v] THEN power' = [power EXCEPT ![v] = @ - amt]
                     ELSE UNCHANGED power

(***************************************************************************)
(* runApply: checkBalances (VT balance covers the stake), then the balance *)
(* is debited and written back, and only then the validator store is       *)
(* asked to stake or unstake.  The debit happens for Purge = TRUE as well. *)
(* A failed checkBalances returns before any write: that is a stutter.     *)
(***************************************************************************)
checkBalances(a, amt) == vt[a] >= amt

(* Mutant of runApply: the debited balance is never written back.         *)
ApplyValidatorNoDebit(a, v, amt, purge) ==
  /\ checkBalances(a, amt)
  /\ UNCHANGED vt
  /\ IF purge THEN HandleUnstake(v, amt) ELSE HandleStake(v, amt)

ApplyValidator(a, v, amt, purge) ==
  /\ checkBalances(a, amt)
  /\ vt' = [vt EXCEPT ![a] = @ - amt]
  /\ IF purge THEN HandleUnstake(v, amt) ELSE HandleStake(v, amt)

StakingNext ==
  \E a \in Addresses, v \in Validators, amt \in StakeValues, purge \in BOOLEAN :
     ApplyValidator(a, v, amt, purge)
=============================================================================
