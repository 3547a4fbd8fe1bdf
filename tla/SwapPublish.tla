------------------------------ MODULE SwapPublish ------------------------------
(***************************************************************************)
(* The Publish transaction of src/node/action/publish.go, delivered on the *)
(* swap-status stores that SwapMatching fills.  A node whose swap matched  *)
(* sends a Publish (SubmitTransactionOLT) to its counterparty.  The legacy *)
(* application's DeliverTx (src/node/app/application.go) runs Validate and *)
(* ProcessDeliver on every node, whoever the transaction is for:          *)
(* ShouldProcess is never called.  ProcessDeliver's Expand looks the swap  *)
(* up under the sender's key (FindSwap(status, Base.Owner), asserted to   *)
(* be a *Swap) and dereferences IsParty's answer for the node's account.   *)
(*                                                                         *)
(* The commands Expand selects (GetCommands, Execute) are not in the       *)
(* sources; a node that gets past Expand is recorded as having processed   *)
(* the Publish.  Validate only rejects a nil Target or Contract, which the *)
(* sender never builds.                                                    *)
(***************************************************************************)
EXTENDS SwapMatching

VARIABLES
  outcome,  \* outcome[n]: how node n ended the last Publish delivered
  matches   \* history: <<n, m>> when MatchingSwap on node n returned m

pvars == <<vars, outcome, matches>>

Outcomes == {"none", "processed", "panic"}

(* A Publish: Base.Owner, the account that signed it, and Target.          *)
Publishes == [owner : Accounts, target : Accounts]

PInit ==
  /\ Init
  /\ outcome = [n \in Accounts |-> "none"]
  /\ matches = {}

(* MatchingSwap returned a swap of o and t on the sender o's node, which   *)
(* then runs the commands that submit the Publish.                         *)
SwapMatched(o, t) ==
  \E m \in matches : m[1] = o /\ {m[2].party, m[2].counter} = {o, t}

(* Expand on node n: FindSwap under the sender's key; the type assertion   *)
(* on a nil result panics, and so does *isParty when the node's account is *)
(* neither side of the swap found.                                         *)
ExpandPanics(n, tx) ==
  LET swap == store[n][tx.owner] IN
  \/ swap = NoSwap
  \/ n \notin {swap.party, swap.counter}

(* DeliverTx of a Publish on every node.  It changes no swap store.        *)
DeliverPublish(tx) ==
  /\ SwapMatched(tx.owner, tx.target)
  /\ outcome' = [n \in Accounts |-> IF ExpandPanics(n, tx) THEN "panic" ELSE "processed"]
  /\ sent' = sent + 1
  /\ UNCHANGED <<store, result, delivered, last, matches>>

(* A SwapInit delivered on every node, its matches kept in the history.    *)
DeliverSwap(tx) ==
  /\ Deliver(tx)
  /\ matches' = matches \cup {<<n, result'[n]>> : n \in {m \in Accounts : result'[m] /= NoSwap}}
  /\ UNCHANGED outcome

PNext ==
  \/ \E tx \in Requests : DeliverSwap(tx)
  \/ \E tx \in Publishes : DeliverPublish(tx)

PSpec == PInit /\ [][PNext]_pvars

-----------------------------------------------------------------------------
(* Spec section 7: a handler reports an error code and never panics; every *)
(* node delivers a Publish of a matched swap without crashing.             *)
PublishNoPanic == \A n \in Accounts : outcome[n] /= "panic"
=============================================================================
