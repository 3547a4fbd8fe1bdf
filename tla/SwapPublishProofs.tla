--------------------------- MODULE SwapPublishProofs ---------------------------
(***************************************************************************)
(* Proofs about SwapPublish, for all sets of accounts, coins and nonces:   *)
(* where a Publish can panic, and where it cannot.                         *)
(***************************************************************************)
EXTENDS SwapPublish, SwapMatchingProofs

PTypeOK ==
  /\ TypeOK
  /\ outcome \in [Accounts -> Outcomes]
  /\ matches \subseteq Accounts \X Swaps

(* A node keeps only swaps its own account is a side of.                   *)
StoreOwn ==
  \A n, k \in Accounts :
    store[n][k] /= NoSwap => n \in {store[n][k].party, store[n][k].counter}

(* When a node matched a swap, each side's node holds a swap under the     *)
(* other side's key.                                                       *)
MatchesStored ==
  \A m \in matches :
    /\ store[m[2].party][m[2].counter] /= NoSwap
    /\ store[m[2].counter][m[2].party] /= NoSwap

PIInv == PTypeOK /\ StoreOwn /\ MatchesStored

(* The node a Publish is sent to gets past Expand: it finds a swap under   *)
(* the sender's key, and its own account is a side of it.                  *)
TargetProcesses ==
  \A tx \in Publishes : SwapMatched(tx.owner, tx.target) => ~ExpandPanics(tx.target, tx)

-----------------------------------------------------------------------------
(* What a delivered SwapInit writes: the requester's node saves it under   *)
(* the counterparty's key; the counterparty's node saves it under the      *)
(* requester's key, or, when it matched the stored entry ec, saves ec      *)
(* under its own key; every other node is left alone.                      *)
LEMMA DeliverEffect ==
  ASSUME TypeOK, NEW tx \in Requests, Deliver(tx)
  PROVE  LET p == tx.party
             c == tx.counter
             ec == store[c][p]
             matchC == ec /= NoSwap /\ isMatch(ec, tx)
         IN  /\ \A n, k \in Accounts :
                  \/ store'[n][k] = store[n][k]
                  \/ n \in {p, c} /\ store'[n][k] = tx
                  \/ n = c /\ matchC /\ store'[n][k] = ec
             /\ store'[p][c] = tx
             /\ store'[c][p] \in {tx, ec} \ {NoSwap}
             /\ \A n \in Accounts :
                  result'[n] \in {NoSwap, tx} \/ (matchC /\ result'[n] = ec)
             /\ store' \in [Accounts -> [Accounts -> Swaps \cup {NoSwap}]]
             /\ result' \in [Accounts -> Swaps \cup {NoSwap}]
<1> DEFINE p == tx.party
           c == tx.counter
           ep == store[p][c]
           ec == store[c][p]
           matchP == ep /= NoSwap /\ isMatch(ep, tx)
           matchC == ec /= NoSwap /\ isMatch(ec, tx)
<1>1. p \in Accounts /\ c \in Accounts /\ tx \in Swaps /\ tx /= NoSwap
  BY MatchingAssumption DEF Requests, Swaps
<1>2. /\ store' = [n \in Accounts |-> IF n \in {p, c} THEN MatchingSwap(n, tx).store ELSE store[n]]
      /\ result' = [n \in Accounts |-> IF n \in {p, c} THEN MatchingSwap(n, tx).result ELSE NoSwap]
  BY DEF Deliver
<1>3. matchC => ec \in Swaps
  BY <1>1 DEF TypeOK
<1>4. MatchingSwap(p, tx) = [store  |-> [store[p] EXCEPT ![c] = tx],
                             result |-> IF matchP THEN tx ELSE NoSwap]
  BY PartyNode
<1>5. /\ MatchingSwap(p, tx).store = [store[p] EXCEPT ![c] = tx]
      /\ MatchingSwap(p, tx).result = IF matchP THEN tx ELSE NoSwap
  BY <1>4
<1>6. CASE p = c
  <2>1. /\ store' = [store EXCEPT ![p] = [store[p] EXCEPT ![p] = tx]]
        /\ result' = [n \in Accounts |-> IF n = p /\ matchP THEN tx ELSE NoSwap]
    BY <1>1, <1>2, <1>5, <1>6 DEF TypeOK
  <2>2. QED
    BY <1>1, <1>6, <2>1 DEF TypeOK
<1>7. CASE p /= c
  <2>1. MatchingSwap(c, tx) = IF matchC
                              THEN [store |-> [store[c] EXCEPT ![c] = ec], result |-> ec]
                              ELSE [store |-> [store[c] EXCEPT ![p] = tx], result |-> NoSwap]
    BY <1>7, CounterNode
  <2>2. CASE matchC
    <3>1. /\ MatchingSwap(c, tx).store = [store[c] EXCEPT ![c] = ec]
          /\ MatchingSwap(c, tx).result = ec
      BY <2>1, <2>2
    <3>2. /\ store' = [store EXCEPT ![p] = [store[p] EXCEPT ![c] = tx],
                                    ![c] = [store[c] EXCEPT ![c] = ec]]
          /\ result' = [n \in Accounts |-> IF n = p THEN (IF matchP THEN tx ELSE NoSwap)
                                           ELSE IF n = c THEN ec ELSE NoSwap]
      BY <1>1, <1>2, <1>5, <1>7, <3>1 DEF TypeOK
    <3>3. QED
      BY <1>1, <1>3, <1>7, <2>2, <3>2 DEF TypeOK
  <2>3. CASE ~matchC
    <3>1. /\ MatchingSwap(c, tx).store = [store[c] EXCEPT ![p] = tx]
          /\ MatchingSwap(c, tx).result = NoSwap
      BY <2>1, <2>3
    <3>2. /\ store' = [store EXCEPT ![p] = [store[p] EXCEPT ![c] = tx],
                                    ![c] = [store[c] EXCEPT ![p] = tx]]
          /\ result' = [n \in Accounts |-> IF n = p /\ matchP THEN tx ELSE NoSwap]
      BY <1>1, <1>2, <1>5, <1>7, <3>1 DEF TypeOK
    <3>3. QED
      BY <1>1, <1>7, <2>3, <3>2 DEF TypeOK
  <2>4. QED
    BY <2>2, <2>3
<1>8. QED
  BY <1>6, <1>7

(* The initial state satisfies the inductive invariant.                    *)
LEMMA PInitPIInv == PInit => PIInv
BY DEF PInit, Init, PIInv, PTypeOK, TypeOK, Outcomes, StoreOwn, MatchesStored

(* A delivered SwapInit keeps the inductive invariant: what it writes is   *)
(* the request, saved on the nodes of its sides, or the entry the          *)
(* counterparty's node matched, which is a swap of the same two sides; and *)
(* it always leaves a swap under each side's key on the other side's node. *)
LEMMA DeliverSwapPIInv ==
  ASSUME PIInv, NEW tx \in Requests, DeliverSwap(tx)
  PROVE  PIInv'
<1> DEFINE p == tx.party
           c == tx.counter
           ec == store[c][p]
           matchC == ec /= NoSwap /\ isMatch(ec, tx)
<1>1. Deliver(tx) /\ UNCHANGED outcome
      /\ matches' = matches \cup {<<n, result'[n]>> : n \in {m \in Accounts : result'[m] /= NoSwap}}
  BY DEF DeliverSwap
<1>2. /\ \A n, k \in Accounts :
           \/ store'[n][k] = store[n][k]
           \/ n \in {p, c} /\ store'[n][k] = tx
           \/ n = c /\ matchC /\ store'[n][k] = ec
      /\ store'[p][c] = tx
      /\ store'[c][p] \in {tx, ec} \ {NoSwap}
      /\ \A n \in Accounts : result'[n] \in {NoSwap, tx} \/ (matchC /\ result'[n] = ec)
      /\ store' \in [Accounts -> [Accounts -> Swaps \cup {NoSwap}]]
      /\ result' \in [Accounts -> Swaps \cup {NoSwap}]
  BY <1>1, DeliverEffect DEF PIInv, PTypeOK
<1>3. p \in Accounts /\ c \in Accounts /\ tx /= NoSwap
  BY MatchingAssumption DEF Requests, Swaps
<1>4. matchC => ec.party = c /\ ec.counter = p
  BY DEF isMatch
<1>5. \A n, k \in Accounts : store[n][k] /= NoSwap => store'[n][k] /= NoSwap
  BY <1>2, <1>3
<1>6. PTypeOK'
  <2>1. TypeOK'
    BY <1>1, <1>2 DEF Deliver, PIInv, PTypeOK, TypeOK
  <2>2. matches' \subseteq Accounts \X Swaps
    BY <1>1, <1>2 DEF PIInv, PTypeOK
  <2>3. QED
    BY <1>1, <2>1, <2>2 DEF PIInv, PTypeOK
<1>7. StoreOwn'
  <2> SUFFICES ASSUME NEW n \in Accounts, NEW k \in Accounts, store'[n][k] /= NoSwap
               PROVE  n \in {store'[n][k].party, store'[n][k].counter}
    BY DEF StoreOwn
  <2>1. CASE store'[n][k] = store[n][k]
    BY <2>1 DEF PIInv, StoreOwn
  <2>2. CASE n \in {p, c} /\ store'[n][k] = tx
    BY <2>2
  <2>3. CASE n = c /\ matchC /\ store'[n][k] = ec
    BY <1>4, <2>3
  <2>4. QED
    BY <1>2, <2>1, <2>2, <2>3
<1>8. MatchesStored'
  <2> SUFFICES ASSUME NEW m \in matches'
               PROVE  /\ store'[m[2].party][m[2].counter] /= NoSwap
                      /\ store'[m[2].counter][m[2].party] /= NoSwap
    BY DEF MatchesStored
  <2>1. CASE m \in matches
    <3>1. m[2] \in Swaps
      BY <2>1 DEF PIInv, PTypeOK
    <3>2. m[2].party \in Accounts /\ m[2].counter \in Accounts
      BY <3>1 DEF Swaps
    <3>3. QED
      BY <1>5, <2>1, <3>2 DEF PIInv, MatchesStored
  <2>2. CASE m \notin matches
    <3>1. PICK n \in Accounts : result'[n] /= NoSwap /\ m = <<n, result'[n]>>
      BY <1>1, <2>2
    <3>2. m[2] = tx \/ (matchC /\ m[2] = ec)
      BY <1>2, <3>1
    <3>3. \/ m[2].party = p /\ m[2].counter = c
          \/ m[2].party = c /\ m[2].counter = p
      BY <1>4, <3>2
    <3>4. QED
      BY <1>2, <1>3, <3>3
  <2>3. QED
    BY <2>1, <2>2
<1>9. QED
  BY <1>6, <1>7, <1>8 DEF PIInv

(* A delivered Publish changes no swap store and no match.                 *)
LEMMA DeliverPublishPIInv ==
  ASSUME PIInv, NEW tx \in Publishes, DeliverPublish(tx)
  PROVE  PIInv'
<1>1. outcome' \in [Accounts -> Outcomes]
  BY DEF DeliverPublish, Outcomes
<1>2. QED
  BY <1>1 DEF DeliverPublish, PIInv, PTypeOK, TypeOK, StoreOwn, MatchesStored

LEMMA PIInvStep == PIInv /\ [PNext]_pvars => PIInv'
<1> SUFFICES ASSUME PIInv, [PNext]_pvars PROVE PIInv'
  OBVIOUS
<1>1. CASE \E tx \in Requests : DeliverSwap(tx)
  BY <1>1, DeliverSwapPIInv
<1>2. CASE \E tx \in Publishes : DeliverPublish(tx)
  BY <1>2, DeliverPublishPIInv
<1>3. CASE UNCHANGED pvars
  BY <1>3 DEF pvars, vars, PIInv, PTypeOK, TypeOK, StoreOwn, MatchesStored
<1>4. QED
  BY <1>1, <1>2, <1>3 DEF PNext

(* The invariant gives the target's node a swap of both sides under the   *)
(* sender's key.                                                           *)
LEMMA PIInvTarget == PIInv => TargetProcesses
<1> SUFFICES ASSUME PIInv, NEW tx \in Publishes, SwapMatched(tx.owner, tx.target)
             PROVE  ~ExpandPanics(tx.target, tx)
  BY DEF TargetProcesses
<1>1. PICK m \in matches : m[1] = tx.owner /\ {m[2].party, m[2].counter} = {tx.owner, tx.target}
  BY DEF SwapMatched
<1>2. store[tx.target][tx.owner] /= NoSwap
  BY <1>1 DEF PIInv, MatchesStored
<1>3. tx.target \in Accounts /\ tx.owner \in Accounts
  BY DEF Publishes
<1>4. QED
  BY <1>2, <1>3 DEF PIInv, StoreOwn, ExpandPanics

(* In every behaviour, for all accounts, coins and nonces, a Publish of a  *)
(* matched swap never panics on the node of its Target: the panic that     *)
(* run swap_publish finds happens only on nodes that have no swap of their *)
(* own under the sender's key, such as the sender's own node.              *)
THEOREM TargetProcessesHolds == PSpec => []TargetProcesses
<1>1. PInit => PIInv
  BY PInitPIInv
<1>2. PIInv /\ [PNext]_pvars => PIInv'
  BY PIInvStep
<1>3. PIInv => TargetProcesses
  BY PIInvTarget
<1>4. QED
  BY <1>1, <1>2, <1>3, PTL DEF PSpec
=============================================================================
