--------------------------- MODULE MC_SwapMatching ---------------------------
(***************************************************************************)
(* Model-checking instance of SwapMatching: three accounts, so that swaps  *)
(* of one account with two others share its store; two coins and two      *)
(* nonces, so that requests of the same pair may or may not mirror each    *)
(* other; up to MaxSent delivered requests.                                *)
(***************************************************************************)
EXTENDS SwapMatching, TLC

CONSTANTS a1, a2, a3,
  MaxSent   \* bound on the delivered requests

MC_Accounts == {a1, a2, a3}

(* More requests keep arriving; states past MaxSent are not explored.      *)
SentBound == sent <= MaxSent

Symmetry == Permutations(MC_Accounts)
=============================================================================
