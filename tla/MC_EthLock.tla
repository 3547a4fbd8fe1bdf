----------------------------- MODULE MC_EthLock -----------------------------
(***************************************************************************)
(* Model-checking instance of EthLock: two lockers, so that one can sign   *)
(* for the other or reuse the other's tracker name, and two tracker names. *)
(***************************************************************************)
EXTENDS EthLock, TLC

CONSTANTS l1, l2, n1, n2

MC_Lockers == {l1, l2}
MC_Names == {n1, n2}

Symmetry == Permutations(MC_Lockers) \cup Permutations(MC_Names)
=============================================================================
