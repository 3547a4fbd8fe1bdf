--------------------------- MODULE SwapMatchingProofs ---------------------------
(***************************************************************************)
(* Proofs about SwapMatching, for all sets of accounts, coins and nonces. *)
(***************************************************************************)
EXTENDS SwapMatching, TLAPS

(* Every swap a node keeps is a request that was delivered: a match saved *)
(* is either the request just delivered or the stored entry it matched.    *)
StoreDelivered ==
  \A n, k \in Accounts : store[n][k] /= NoSwap => store[n][k] \in delivered

(* The nodes of accounts a and b keep, under each other's key, the same    *)
(* request or two mirror requests of one swap.                             *)
StoresPaired ==
  \A a, b \in Accounts :
    \/ store[a][b] = store[b][a]
    \/ /\ store[a][b] \in Swaps /\ store[b][a] \in Swaps
       /\ Mirrors(store[a][b], store[b][a])

IInv == TypeOK /\ StoreDelivered /\ StoresPaired /\ MatchOnlyAsRequested

-----------------------------------------------------------------------------
(* Mirroring is symmetric.                                                 *)
LEMMA MirrorSym ==
  ASSUME NEW x, NEW y, Mirrors(x, y) PROVE Mirrors(y, x)
BY DEF Mirrors

(* isMatch is Mirrors, written field by field.                             *)
LEMMA MatchMirrors ==
  ASSUME NEW x, NEW y, isMatch(x, y) PROVE Mirrors(x, y)
BY DEF isMatch, Mirrors

(* A swap has one mirror: a request that matches the mirror of y is y.     *)
LEMMA MirrorUnique ==
  ASSUME NEW x \in Swaps, NEW y \in Swaps, NEW t \in Swaps,
         Mirrors(x, y), isMatch(x, t)
  PROVE  t = y
<1>1. /\ x.party = y.counter /\ x.counter = y.party
      /\ x.amount = y.exchange /\ x.exchange = y.amount /\ x.nonce = y.nonce
  BY DEF Mirrors
<1>2. /\ t.party = y.party /\ t.counter = y.counter
      /\ t.amount = y.amount /\ t.exchange = y.exchange /\ t.nonce = y.nonce
  BY <1>1 DEF isMatch
<1>3. QED
  BY <1>2 DEF Swaps

(* Mirror swaps are the same swap up to whose side is called Party.        *)
LEMMA MirrorNormal ==
  ASSUME NEW x, NEW y, Mirrors(x, y) PROVE Normal(x) = Normal(y)
BY DEF Mirrors, Normal

(* MatchingSwap on the requester's node always saves the request under the *)
(* counterparty's key: the match it builds is the request itself.          *)
LEMMA PartyNode ==
  ASSUME TypeOK, NEW tx \in Requests
  PROVE  LET ep == store[tx.party][tx.counter] IN
         MatchingSwap(tx.party, tx) =
           [store  |-> [store[tx.party] EXCEPT ![tx.counter] = tx],
            result |-> IF ep /= NoSwap /\ isMatch(ep, tx) THEN tx ELSE NoSwap]
<1> DEFINE ep == store[tx.party][tx.counter]
<1>1. tx = [party |-> tx.party, counter |-> tx.counter, amount |-> tx.amount,
            exchange |-> tx.exchange, nonce |-> tx.nonce]
  BY DEF Requests, Swaps
<1>2. ep /= NoSwap /\ isMatch(ep, tx) =>
        FindMatchingSwap(tx.party, tx.counter, tx, TRUE) = tx
  BY <1>1 DEF FindMatchingSwap, isMatch
<1>3. ~(ep /= NoSwap /\ isMatch(ep, tx)) =>
        FindMatchingSwap(tx.party, tx.counter, tx, TRUE) = NoSwap
  BY DEF FindMatchingSwap
<1>4. QED
  BY <1>2, <1>3 DEF MatchingSwap

(* MatchingSwap on the counterparty's node: a match is the stored entry,   *)
(* saved under the node's own key; otherwise the request is saved under    *)
(* the requester's key.                                                    *)
LEMMA CounterNode ==
  ASSUME TypeOK, NEW tx \in Requests, tx.party /= tx.counter
  PROVE  LET ec == store[tx.counter][tx.party] IN
         MatchingSwap(tx.counter, tx) =
           IF ec /= NoSwap /\ isMatch(ec, tx)
           THEN [store |-> [store[tx.counter] EXCEPT ![tx.counter] = ec], result |-> ec]
           ELSE [store |-> [store[tx.counter] EXCEPT ![tx.party] = tx], result |-> NoSwap]
<1> DEFINE ec == store[tx.counter][tx.party]
<1>1. CASE ec /= NoSwap /\ isMatch(ec, tx)
  <2>1. ec \in Swaps
    BY <1>1 DEF TypeOK, Requests, Swaps
  <2>2. ec = [party |-> ec.party, counter |-> tx.party, amount |-> tx.exchange,
              exchange |-> tx.amount, nonce |-> tx.nonce]
    BY <1>1, <2>1 DEF isMatch, Swaps
  <2>3. FindMatchingSwap(tx.counter, tx.party, tx, FALSE) = ec
    BY <1>1, <2>2 DEF FindMatchingSwap
  <2>4. ec.party = tx.counter
    BY <1>1 DEF isMatch
  <2>5. QED
    BY <1>1, <2>3, <2>4 DEF MatchingSwap
<1>2. CASE ~(ec /= NoSwap /\ isMatch(ec, tx))
  BY <1>2 DEF MatchingSwap, FindMatchingSwap
<1>3. QED
  BY <1>1, <1>2

-----------------------------------------------------------------------------
(* The initial state satisfies the inductive invariant.                    *)
LEMMA InitIInv == Init => IInv
BY DEF Init, IInv, TypeOK, StoreDelivered, StoresPaired, MatchOnlyAsRequested

(* A Deliver step keeps the inductive invariant.  The requester's node     *)
(* looks under the counterparty's key, the counterparty's node under the   *)
(* requester's.  By StoresPaired the two entries are equal, and then both  *)
(* nodes match or neither does, or they are mirrors, and then the only     *)
(* request that matches one of them is the other: a request delivered     *)
(* again, which matches on one node only.                                  *)
LEMMA DeliverStep ==
  ASSUME IInv, NEW tx \in Requests, Deliver(tx)
  PROVE  IInv'
<1> DEFINE p == tx.party
           c == tx.counter
           ep == store[p][c]
           ec == store[c][p]
           matchP == ep /= NoSwap /\ isMatch(ep, tx)
           matchC == ec /= NoSwap /\ isMatch(ec, tx)
<1>1. /\ delivered' = delivered \cup {tx}
      /\ last' = tx
      /\ sent' = sent + 1
  BY DEF Deliver
<1>2. p \in Accounts /\ c \in Accounts /\ tx \in Swaps
  BY DEF Requests, Swaps
<1>3. /\ store' = [n \in Accounts |-> IF n \in {p, c} THEN MatchingSwap(n, tx).store ELSE store[n]]
      /\ result' = [n \in Accounts |-> IF n \in {p, c} THEN MatchingSwap(n, tx).result ELSE NoSwap]
  BY DEF Deliver
<1>4. matchP => ep \in delivered /\ ep \in Swaps /\ Mirrors(ep, tx)
  BY <1>2, MatchMirrors DEF IInv, StoreDelivered, TypeOK
<1>5. matchC => ec \in delivered /\ ec \in Swaps /\ Mirrors(ec, tx)
  BY <1>2, MatchMirrors DEF IInv, StoreDelivered, TypeOK
<1>6. sent' \in Nat /\ delivered' \subseteq Requests /\ last' \in Requests
  BY <1>1 DEF IInv, TypeOK
<1>7. CASE p = c
  <2>1. /\ store' = [store EXCEPT ![p] = [store[p] EXCEPT ![p] = tx]]
        /\ result' = [n \in Accounts |-> IF n = p /\ matchP THEN tx ELSE NoSwap]
    <3>0. MatchingSwap(p, tx) = [store  |-> [store[p] EXCEPT ![c] = tx],
                                 result |-> IF matchP THEN tx ELSE NoSwap]
      BY PartyNode DEF IInv
    <3>1. /\ MatchingSwap(p, tx).store = [store[p] EXCEPT ![c] = tx]
          /\ MatchingSwap(p, tx).result = IF matchP THEN tx ELSE NoSwap
      BY <3>0
    <3>2. QED
      BY <1>2, <1>3, <1>7, <3>1 DEF IInv, TypeOK
  <2>2. TypeOK'
    BY <1>2, <1>6, <2>1 DEF IInv, TypeOK
  <2>3. StoreDelivered'
    BY <1>1, <1>2, <2>1 DEF IInv, TypeOK, StoreDelivered
  <2>4. StoresPaired'
    <3> SUFFICES ASSUME NEW a \in Accounts, NEW b \in Accounts, a /= b
                 PROVE  store'[a][b] = store[a][b] /\ store'[b][a] = store[b][a]
      BY DEF IInv, StoresPaired
    <3> QED
      BY <1>2, <2>1 DEF IInv, TypeOK
  <2>5. MatchOnlyAsRequested'
    BY <1>1, <1>4, <2>1 DEF MatchOnlyAsRequested
  <2>6. QED
    BY <2>2, <2>3, <2>4, <2>5 DEF IInv
<1>8. CASE p /= c
  <2>1. \/ ~matchP /\ ~matchC
        \/ matchP /\ matchC /\ ep = ec
        \/ matchC /\ ~matchP /\ tx = ep
        \/ matchP /\ ~matchC /\ tx = ec
    <3>1. CASE ep = ec
      BY <3>1
    <3>2. CASE ep /= ec
      <4>1. ep \in Swaps /\ ec \in Swaps /\ Mirrors(ep, ec)
        BY <1>2, <3>2 DEF IInv, StoresPaired
      <4>2. matchP => tx = ec
        BY <1>2, <4>1, MirrorUnique
      <4>3. matchC => tx = ep
        BY <1>2, <4>1, MirrorUnique, MirrorSym
      <4>4. QED
        BY <3>2, <4>2, <4>3
    <3>3. QED
      BY <3>1, <3>2
  <2>2. /\ MatchingSwap(p, tx) = [store  |-> [store[p] EXCEPT ![c] = tx],
                                  result |-> IF matchP THEN tx ELSE NoSwap]
        /\ MatchingSwap(c, tx) = IF matchC
                                 THEN [store |-> [store[c] EXCEPT ![c] = ec], result |-> ec]
                                 ELSE [store |-> [store[c] EXCEPT ![p] = tx], result |-> NoSwap]
    BY <1>8, PartyNode, CounterNode DEF IInv
  <2>3. CASE matchP /\ matchC /\ ep = ec
    <3>1. /\ store' = [store EXCEPT ![p] = [store[p] EXCEPT ![c] = tx],
                                    ![c] = [store[c] EXCEPT ![c] = ec]]
          /\ result' = [n \in Accounts |-> IF n = p THEN tx ELSE IF n = c THEN ec ELSE NoSwap]
      <4>1. /\ MatchingSwap(p, tx).store = [store[p] EXCEPT ![c] = tx]
            /\ MatchingSwap(p, tx).result = tx
            /\ MatchingSwap(c, tx).store = [store[c] EXCEPT ![c] = ec]
            /\ MatchingSwap(c, tx).result = ec
        BY <2>2, <2>3
      <4>2. QED
        BY <1>2, <1>3, <1>8, <4>1 DEF IInv, TypeOK
    <3>2. ec \in delivered /\ ec \in Swaps /\ Mirrors(tx, ec) /\ Normal(ec) = Normal(tx)
      BY <1>5, <2>3, MirrorSym, MirrorNormal
    <3>3. \A a, b \in Accounts :
            store'[a][b] = IF a = p /\ b = c THEN tx
                           ELSE IF a = c /\ b = c THEN ec
                           ELSE store[a][b]
      BY <1>2, <1>8, <3>1 DEF IInv, TypeOK
    <3>4. TypeOK'
      BY <1>2, <1>6, <3>1, <3>2 DEF IInv, TypeOK
    <3>5. StoreDelivered'
      BY <1>1, <3>2, <3>3 DEF IInv, StoreDelivered
    <3>6. StoresPaired'
      <4> SUFFICES ASSUME NEW a \in Accounts, NEW b \in Accounts
                   PROVE  \/ store'[a][b] = store'[b][a]
                          \/ /\ store'[a][b] \in Swaps /\ store'[b][a] \in Swaps
                             /\ Mirrors(store'[a][b], store'[b][a])
        BY DEF StoresPaired
      <4>1. CASE a = p /\ b = c
        BY <1>2, <1>8, <2>3, <3>2, <3>3, <4>1
      <4>2. CASE a = c /\ b = p
        BY <1>2, <1>8, <2>3, <3>2, <3>3, <4>2, MirrorSym
      <4>3. CASE a = b
        BY <4>3
      <4>4. CASE {a, b} /= {p, c} /\ a /= b
        <5>1. store'[a][b] = store[a][b] /\ store'[b][a] = store[b][a]
          BY <3>3, <4>4
        <5>2. QED
          BY <5>1 DEF IInv, StoresPaired
      <4>5. QED
        BY <4>1, <4>2, <4>3, <4>4
    <3>7. MatchOnlyAsRequested'
      <4>1. Mirrors(ep, tx) /\ ep \in delivered'
        BY <1>1, <1>4, <2>3
      <4>2. QED
        BY <1>1, <1>2, <3>1, <3>2, <4>1 DEF MatchOnlyAsRequested
    <3>8. QED
      BY <3>4, <3>5, <3>6, <3>7 DEF IInv
  <2>4. CASE ~matchP /\ ~matchC
    <3>1. /\ store' = [store EXCEPT ![p] = [store[p] EXCEPT ![c] = tx],
                                    ![c] = [store[c] EXCEPT ![p] = tx]]
          /\ result' = [n \in Accounts |-> NoSwap]
      <4>1. /\ MatchingSwap(p, tx).store = [store[p] EXCEPT ![c] = tx]
            /\ MatchingSwap(p, tx).result = NoSwap
            /\ MatchingSwap(c, tx).store = [store[c] EXCEPT ![p] = tx]
            /\ MatchingSwap(c, tx).result = NoSwap
        BY <2>2, <2>4
      <4>2. QED
        BY <1>2, <1>3, <1>8, <4>1 DEF IInv, TypeOK
    <3>2. \A a, b \in Accounts :
            store'[a][b] = IF {a, b} = {p, c} /\ a /= b THEN tx ELSE store[a][b]
      BY <1>2, <1>8, <3>1 DEF IInv, TypeOK
    <3>3. TypeOK'
      BY <1>2, <1>6, <3>1 DEF IInv, TypeOK
    <3>4. StoreDelivered'
      BY <1>1, <3>2 DEF IInv, StoreDelivered
    <3>5. StoresPaired'
      <4> SUFFICES ASSUME NEW a \in Accounts, NEW b \in Accounts
                   PROVE  \/ store'[a][b] = store'[b][a]
                          \/ /\ store'[a][b] \in Swaps /\ store'[b][a] \in Swaps
                             /\ Mirrors(store'[a][b], store'[b][a])
        BY DEF StoresPaired
      <4>1. CASE {a, b} = {p, c} /\ a /= b
        BY <3>2, <4>1
      <4>2. CASE ~({a, b} = {p, c} /\ a /= b)
        BY <3>2, <4>2 DEF IInv, StoresPaired
      <4>3. QED
        BY <4>1, <4>2
    <3>6. MatchOnlyAsRequested'
      BY <3>1 DEF MatchOnlyAsRequested
    <3>7. QED
      BY <3>3, <3>4, <3>5, <3>6 DEF IInv
  <2>5. CASE matchC /\ ~matchP /\ tx = ep
    <3>1. /\ store' = [store EXCEPT ![p] = [store[p] EXCEPT ![c] = tx],
                                    ![c] = [store[c] EXCEPT ![c] = ec]]
          /\ result' = [n \in Accounts |-> IF n = c THEN ec ELSE NoSwap]
      <4>1. /\ MatchingSwap(p, tx).store = [store[p] EXCEPT ![c] = tx]
            /\ MatchingSwap(p, tx).result = NoSwap
            /\ MatchingSwap(c, tx).store = [store[c] EXCEPT ![c] = ec]
            /\ MatchingSwap(c, tx).result = ec
        BY <2>2, <2>5
      <4>2. QED
        BY <1>2, <1>3, <1>8, <4>1 DEF IInv, TypeOK
    <3>2. ec \in delivered /\ ec \in Swaps /\ Mirrors(ec, tx) /\ Normal(ec) = Normal(tx)
      BY <1>5, <2>5, MirrorNormal
    <3>3. \A a, b \in Accounts :
            store'[a][b] = IF a = c /\ b = c THEN ec ELSE store[a][b]
      BY <1>2, <1>8, <2>5, <3>1 DEF IInv, TypeOK
    <3>4. TypeOK'
      BY <1>2, <1>6, <3>1, <3>2 DEF IInv, TypeOK
    <3>5. StoreDelivered'
      BY <1>1, <3>2, <3>3 DEF IInv, StoreDelivered
    <3>6. StoresPaired'
      <4> SUFFICES ASSUME NEW a \in Accounts, NEW b \in Accounts
                   PROVE  \/ store'[a][b] = store'[b][a]
                          \/ /\ store'[a][b] \in Swaps /\ store'[b][a] \in Swaps
                             /\ Mirrors(store'[a][b], store'[b][a])
        BY DEF StoresPaired
      <4>1. CASE a = b
        BY <4>1
      <4>2. CASE a /= b
        BY <3>3, <4>2 DEF IInv, StoresPaired
      <4>3. QED
        BY <4>1, <4>2
    <3>7. MatchOnlyAsRequested'
      BY <1>1, <1>2, <1>8, <3>1, <3>2 DEF MatchOnlyAsRequested
    <3>8. QED
      BY <3>4, <3>5, <3>6, <3>7 DEF IInv
  <2>6. CASE matchP /\ ~matchC /\ tx = ec
    <3>1. /\ store' = [store EXCEPT ![p] = [store[p] EXCEPT ![c] = tx],
                                    ![c] = [store[c] EXCEPT ![p] = tx]]
          /\ result' = [n \in Accounts |-> IF n = p THEN tx ELSE NoSwap]
      <4>1. /\ MatchingSwap(p, tx).store = [store[p] EXCEPT ![c] = tx]
            /\ MatchingSwap(p, tx).result = tx
            /\ MatchingSwap(c, tx).store = [store[c] EXCEPT ![p] = tx]
            /\ MatchingSwap(c, tx).result = NoSwap
        BY <2>2, <2>6
      <4>2. QED
        BY <1>2, <1>3, <1>8, <4>1 DEF IInv, TypeOK
    <3>2. ep \in delivered /\ ep \in Swaps /\ Mirrors(ep, tx)
      BY <1>4, <2>6
    <3>3. \A a, b \in Accounts :
            store'[a][b] = IF a = p /\ b = c THEN tx ELSE store[a][b]
      BY <1>2, <1>8, <2>6, <3>1 DEF IInv, TypeOK
    <3>4. TypeOK'
      BY <1>2, <1>6, <3>1 DEF IInv, TypeOK
    <3>5. StoreDelivered'
      BY <1>1, <3>3 DEF IInv, StoreDelivered
    <3>6. StoresPaired'
      <4> SUFFICES ASSUME NEW a \in Accounts, NEW b \in Accounts
                   PROVE  \/ store'[a][b] = store'[b][a]
                          \/ /\ store'[a][b] \in Swaps /\ store'[b][a] \in Swaps
                             /\ Mirrors(store'[a][b], store'[b][a])
        BY DEF StoresPaired
      <4>1. CASE a = p /\ b = c
        BY <1>8, <2>6, <3>3, <4>1
      <4>2. CASE a = c /\ b = p
        BY <1>8, <2>6, <3>3, <4>2
      <4>3. CASE ~(a = p /\ b = c) /\ ~(a = c /\ b = p)
        BY <3>3, <4>3 DEF IInv, StoresPaired
      <4>4. QED
        BY <4>1, <4>2, <4>3
    <3>7. MatchOnlyAsRequested'
      <4>1. Mirrors(ep, tx) /\ ep \in delivered'
        BY <1>1, <3>2
      <4>2. QED
        BY <1>1, <1>2, <3>1, <4>1 DEF MatchOnlyAsRequested
    <3>8. QED
      BY <3>4, <3>5, <3>6, <3>7 DEF IInv
  <2>7. QED
    BY <2>1, <2>3, <2>4, <2>5, <2>6
<1>9. QED
  BY <1>7, <1>8

(* Every step, and every stutter, keeps the inductive invariant.           *)
LEMMA IInvStep == IInv /\ [Next]_vars => IInv'
<1> SUFFICES ASSUME IInv, [Next]_vars PROVE IInv'
  OBVIOUS
<1>1. ASSUME NEW tx \in Requests, Deliver(tx) PROVE IInv'
  BY <1>1, DeliverStep
<1>2. CASE UNCHANGED vars
  BY <1>2 DEF vars, IInv, TypeOK, StoreDelivered, StoresPaired, MatchOnlyAsRequested
<1>3. QED
  BY <1>1, <1>2 DEF Next

(* In every behaviour, for all accounts, coins and nonces, MatchingSwap    *)
(* returns a match only for the request just delivered, and only when the  *)
(* mirror request of the other side was delivered before (spec 4.4).       *)
THEOREM MatchOnlyAsRequestedHolds == Spec => []MatchOnlyAsRequested
<1>1. Init => IInv
  BY InitIInv
<1>2. IInv /\ [Next]_vars => IInv'
  BY IInvStep
<1>3. IInv => MatchOnlyAsRequested
  BY DEF IInv
<1>4. QED
  BY <1>1, <1>2, <1>3, PTL DEF Spec
=============================================================================
