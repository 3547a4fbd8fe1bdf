---------------------------- MODULE MC_SwapPublish ----------------------------
(***************************************************************************)
(* Model-checking instance of SwapPublish: two accounts, the two sides of  *)
(* a swap, so that no bystander node is involved; one coin pair and one   *)
(* nonce; up to MaxSent delivered transactions.                            *)
(***************************************************************************)
EXTENDS SwapPublish, TLC

CONSTANTS a1, a2,
  MaxSent   \* bound on the delivered SwapInit and Publish transactions

MC_Accounts == {a1, a2}

(* Swaps between two different accounts: a self-addressed swap is left   *)
(* out, so that the runs show what happens to the two sides of a real one. *)
MC_Requests == {r \in Swaps : r.party /= r.counter}

(* States past MaxSent deliveries are not explored.                        *)
SentBound == sent <= MaxSent
=============================================================================
