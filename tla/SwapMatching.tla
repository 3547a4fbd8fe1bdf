----------------------------- MODULE SwapMatching -----------------------------
(***************************************************************************)
(* Swap matching of src/node/action/swap.go (MatchingSwap,                 *)
(* FindMatchingSwap, isMatch, SaveSwap, FindSwap).  Every node runs        *)
(* MatchingSwap on every delivered SwapInit, in the block order consensus  *)
(* gives all of them, against its own status store.  The store keeps one  *)
(* swap per account key: the first request of a pair is saved under the   *)
(* other side's key, and a match is saved under the key of the side that   *)
(* asked first.  The node of account n is node n; a node whose account is  *)
(* neither side of a request (IsParty returns nil) leaves its store alone. *)
(*                                                                         *)
(* Base.Type and Base.ChainId, which isMatch also compares, are the same   *)
(* for every SwapInit of one chain; Fee and Base are not compared and are  *)
(* left out.                                                               *)
(***************************************************************************)
EXTENDS Naturals

CONSTANTS
  Accounts,   \* account keys, one node per account
  Coins,      \* the coins (currency and amount) a request names
  Nonces,     \* swap nonces
  NoSwap      \* what FindSwap returns for an empty key, and a nil *Swap

ASSUME MatchingAssumption ==
  NoSwap \notin [party : Accounts, counter : Accounts, amount : Coins,
                  exchange : Coins, nonce : Nonces]

(* A SwapInit, as far as matching reads it.                                *)
Swaps == [party : Accounts, counter : Accounts, amount : Coins,
          exchange : Coins, nonce : Nonces]

(* SwapInit.validate only asks for both keys and known currencies: a swap  *)
(* with oneself passes it.                                                 *)
Requests == Swaps

VARIABLES
  store,      \* store[n][k]: the swap node n saved under account key k
  result,     \* result[n]: what MatchingSwap returned on node n for the last request
  delivered,  \* the requests delivered so far
  last,       \* the last request delivered
  sent        \* how many requests were delivered

vars == <<store, result, delivered, last, sent>>

TypeOK ==
  /\ store \in [Accounts -> [Accounts -> Swaps \cup {NoSwap}]]
  /\ result \in [Accounts -> Swaps \cup {NoSwap}]
  /\ delivered \subseteq Requests
  /\ last \in Requests \cup {NoSwap}
  /\ sent \in Nat

Init ==
  /\ store = [n \in Accounts |-> [k \in Accounts |-> NoSwap]]
  /\ result = [n \in Accounts |-> NoSwap]
  /\ delivered = {}
  /\ last = NoSwap
  /\ sent = 0

-----------------------------------------------------------------------------
(* Mutant of isMatch: the Nonce comparison is left out.                     *)
isMatchNoNonce(left, right) ==
  /\ left.party = right.counter
  /\ left.counter = right.party
  /\ left.amount = right.exchange
  /\ left.exchange = right.amount

(* Two requests from opposite sides of the same swap.                      *)
isMatch(left, right) ==
  /\ left.party = right.counter
  /\ left.counter = right.party
  /\ left.amount = right.exchange
  /\ left.exchange = right.amount
  /\ left.nonce = right.nonce

(* Mutant of FindMatchingSwap: the party side names the stored entry's    *)
(* party as its own.                                                       *)
FindMatchingSwapPartySwapped(n, key, tx, isParty) ==
  LET entry == store[n][key] IN
  IF entry /= NoSwap /\ isMatch(entry, tx)
  THEN IF isParty
       THEN [party |-> entry.party, counter |-> entry.party, amount |-> tx.amount,
             exchange |-> tx.exchange, nonce |-> tx.nonce]
       ELSE [party |-> entry.party, counter |-> tx.party, amount |-> tx.exchange,
             exchange |-> tx.amount, nonce |-> tx.nonce]
  ELSE NoSwap

(* FindSwap under key on node n, and the matched swap built from the       *)
(* stored entry and the request from the node's side, or NoSwap.           *)
FindMatchingSwap(n, key, tx, isParty) ==
  LET entry == store[n][key] IN
  IF entry /= NoSwap /\ isMatch(entry, tx)
  THEN IF isParty
       THEN [party |-> tx.party, counter |-> entry.party, amount |-> tx.amount,
             exchange |-> tx.exchange, nonce |-> tx.nonce]
       ELSE [party |-> entry.party, counter |-> tx.party, amount |-> tx.exchange,
             exchange |-> tx.amount, nonce |-> tx.nonce]
  ELSE NoSwap

(* MatchingSwap on node n: look under the other side's key; save the match *)
(* (the party side under the counterparty's key, the counterparty side     *)
(* under the matched swap's party key), or else save the request under the *)
(* other side's key.  Returns the match or nil.                            *)
MatchingSwap(n, tx) ==
  LET isParty == tx.party = n
      key     == IF isParty THEN tx.counter ELSE tx.party
      matched == FindMatchingSwap(n, key, tx, isParty)
      saveKey == IF matched = NoSwap \/ isParty THEN key ELSE matched.party
      saved   == IF matched = NoSwap THEN tx ELSE matched
  IN  [store |-> [store[n] EXCEPT ![saveKey] = saved], result |-> matched]

(* DeliverTx of a SwapInit on every node, in the same order.  No code     *)
(* calls MatchingSwap yet; this is the delivery spec 4.4 describes for the  *)
(* SWAP_MATCHING stage.  Nothing stops the same request from being         *)
(* delivered again.  A node that is neither side returns at IsParty's nil. *)
Deliver(tx) ==
  /\ LET out(n) == MatchingSwap(n, tx)
         involved == {tx.party, tx.counter}
     IN  /\ store' = [n \in Accounts |-> IF n \in involved THEN out(n).store ELSE store[n]]
         /\ result' = [n \in Accounts |-> IF n \in involved THEN out(n).result ELSE NoSwap]
  /\ delivered' = delivered \cup {tx}
  /\ last' = tx
  /\ sent' = sent + 1

Next == \E tx \in Requests : Deliver(tx)

Spec == Init /\ [][Next]_vars

-----------------------------------------------------------------------------
(* A swap with the party/counterparty roles and coins put in one form.     *)
Normal(s) == [sides |-> {<<s.party, s.amount>>, <<s.counter, s.exchange>>},
              nonce |-> s.nonce]

(* Spec section 4.4: two requests match iff they are of opposite parties   *)
(* with the same nonce and each one's Amount is the other's Exchange.      *)
Mirrors(left, right) ==
  /\ <<left.party, left.counter>> = <<right.counter, right.party>>
  /\ <<left.amount, left.exchange>> = <<right.exchange, right.amount>>
  /\ left.nonce = right.nonce

(* Spec section 4.4: a swap is matched only when the other side asked for  *)
(* the mirror swap: a node's match is the request just delivered, from its *)
(* own side, and an earlier request of the other side is its mirror.       *)
MatchOnlyAsRequested ==
  \A n \in Accounts :
    result[n] /= NoSwap =>
      /\ Normal(result[n]) = Normal(last)
      /\ \E r \in delivered : Mirrors(r, last)
=============================================================================
