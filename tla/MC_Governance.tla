---------------------------- MODULE MC_Governance ----------------------------
(***************************************************************************)
(* Model-checking instance of Governance: two funding/stake addresses, two *)
(* validators (one in the genesis set), one proposal whose goal needs the  *)
(* contributions of both funders, and heights up to MaxHeight.             *)
(***************************************************************************)
EXTENDS Governance, TLC

CONSTANTS a1, a2, v1, v2, p1

MC_Addresses == {a1, a2}
MC_Validators == {v1, v2}
MC_Proposals == {p1}
MC_InitPower == (v1 :> 1) @@ (v2 :> 0)
MC_FundingGoal == p1 :> 3
MC_FundingDeadline == p1 :> 2

(* The chain keeps producing blocks; states past MaxHeight are not explored. *)
MaxHeight == 3
HeightBound == height <= MaxHeight

Symmetry == Permutations(MC_Addresses)
=============================================================================
