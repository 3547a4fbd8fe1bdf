---------------------------- MODULE SwapHTLCProofs ----------------------------
(***************************************************************************)
(* Proofs about the swap protocol of SwapHTLC, for every lock period,      *)
(* bound on initiations and choice of the initiator's chain, with or       *)
(* without node restarts and with stages delivered again.                 *)
(***************************************************************************)
EXTENDS SwapHTLC, TLAPS

Preimages == RealSecrets \cup {ZeroSecret, NoSecret}

(* Secret-flow invariant: a contract not yet redeemed has revealed no      *)
(* preimage, and each of I's contracts is locked with the hash of a secret *)
(* rand.Read drew.                                                         *)
SecretInv ==
  /\ \A c \in Chains, k \in Ids :
       htlc[c][k].state /= "redeemed" => htlc[c][k].preimage = NoSecret
  /\ \A k \in Ids :
       htlc[IC][k].state /= "none" => \E r \in RealSecrets : htlc[IC][k].hash = Hash(r)

IInv == TypeOK /\ SecretInv /\ InitiatorSafe

(* Every contract on IC is locked with a hash, never the unset value, and *)
(* so is every contract on PC, with the hash of one of I's contracts.      *)
HInv ==
  /\ TypeOK
  /\ HashLocked
  /\ \A k \in Ids : htlc[IC][k].state /= "none" => htlc[IC][k].hash /= Unset

-----------------------------------------------------------------------------
(* The two chains of the swap are the two chains, and they differ.         *)
LEMMA ChainsOfSwap == IC \in Chains /\ PC \in Chains /\ PC /= IC /\ Chains = {IC, PC}
<1>1. IC \in Chains
  BY SwapAssumption DEF IC, Chains
<1>2. \E c \in Chains : c /= IC
  BY <1>1 DEF Chains
<1>3. PC \in Chains /\ PC /= IC
  BY <1>1, <1>2 DEF PC
<1>4. QED
  BY <1>1, <1>3 DEF Chains

(* Hashes of different values differ, and no hash is the unset value; the  *)
(* zero secret and the markers are no drawn secret.                        *)
LEMMA HashFacts ==
  ASSUME NEW s, NEW t
  PROVE  /\ Hash(s) = Hash(t) => s = t
         /\ Hash(s) /= Unset
         /\ ZeroSecret \notin RealSecrets
         /\ NoSecret \notin RealSecrets
         /\ NoSecret /= ZeroSecret
BY DEF Hash, Unset, RealSecrets, Secret, ZeroSecret, NoSecret

(* A contract locked by CreateContract is a contract.                      *)
LEMMA LockType ==
  ASSUME TypeOK, NEW c \in Chains, NEW h \in Hashes
  PROVE  Lock(c, h) \in Contract
BY SwapAssumption DEF TypeOK, Lock, Timeout, Contract, States, Preimages

(* A creation fills a free slot with the locked contract and leaves every  *)
(* other contract as it was.                                               *)
LEMMA CreatedFacts ==
  ASSUME TypeOK, NEW c \in Chains, NEW h \in Hashes, CanCreate(c)
  PROVE  /\ NewId(c) \in Ids
         /\ htlc[c][NewId(c)].state = "none"
         /\ Created(c, h) \in [Chains -> [Ids -> Contract]]
         /\ Created(c, h)[c][NewId(c)] = Lock(c, h)
         /\ \A d \in Chains, i \in Ids :
              ~(d = c /\ i = NewId(c)) => Created(c, h)[d][i] = htlc[d][i]
<1>1. NewId(c) \in Ids /\ htlc[c][NewId(c)].state = "none"
  <2>1. CASE c = "BTC"
    <3>1. FreeIds(c) /= {}
      BY <2>1 DEF CanCreate
    <3>2. NewId(c) \in FreeIds(c)
      BY <2>1, <3>1 DEF NewId
    <3>3. QED
      BY <3>2 DEF FreeIds
  <2>2. CASE c /= "BTC"
    <3>1. NewId(c) = 1 /\ 1 \in Ids
      BY <2>2, SwapAssumption DEF NewId, Ids
    <3>2. QED
      BY <2>2, <3>1 DEF CanCreate
  <2>3. QED
    BY <2>1, <2>2
<1>2. Lock(c, h) \in Contract
  BY LockType
<1>3. QED
  BY <1>1, <1>2 DEF TypeOK, Created

(* A redemption of contract k on chain c with preimage s marks it redeemed *)
(* with s, keeps its hash, and leaves every other contract as it was.      *)
LEMMA RedeemedFacts ==
  ASSUME TypeOK, NEW c \in Chains, NEW k \in Ids, NEW s \in Preimages
  PROVE  /\ Redeemed(c, k, s) \in [Chains -> [Ids -> Contract]]
         /\ Redeemed(c, k, s)[c][k].state = "redeemed"
         /\ Redeemed(c, k, s)[c][k].preimage = s
         /\ Redeemed(c, k, s)[c][k].hash = htlc[c][k].hash
         /\ \A d \in Chains, i \in Ids :
              ~(d = c /\ i = k) => Redeemed(c, k, s)[d][i] = htlc[d][i]
<1> DEFINE r == [state |-> "redeemed", hash |-> htlc[c][k].hash,
                 expiry |-> htlc[c][k].expiry, preimage |-> s]
<1>1. htlc[c][k] \in Contract
  BY DEF TypeOK
<1>2. Redeemed(c, k, s) = [htlc EXCEPT ![c][k] = r]
  BY DEF Redeemed
<1>3. r \in Contract
  BY <1>1 DEF Contract, States, Preimages
<1>4. QED
  BY <1>2, <1>3 DEF TypeOK

(* A refund of contract k on chain c marks it refunded, keeps its hash and *)
(* preimage, and leaves every other contract as it was.                    *)
LEMMA RefundedFacts ==
  ASSUME TypeOK, NEW c \in Chains, NEW k \in Ids
  PROVE  LET h2 == [htlc EXCEPT ![c][k].state = "refunded"] IN
         /\ h2 \in [Chains -> [Ids -> Contract]]
         /\ h2[c][k].state = "refunded"
         /\ h2[c][k].preimage = htlc[c][k].preimage
         /\ h2[c][k].hash = htlc[c][k].hash
         /\ \A d \in Chains, i \in Ids : ~(d = c /\ i = k) => h2[d][i] = htlc[d][i]
<1> DEFINE r == [state |-> "refunded", hash |-> htlc[c][k].hash,
                 expiry |-> htlc[c][k].expiry, preimage |-> htlc[c][k].preimage]
<1>1. htlc[c][k] \in Contract
  BY DEF TypeOK
<1>2. [htlc EXCEPT ![c][k].state = "refunded"] = [htlc EXCEPT ![c][k] = r]
  <2>1. PICK st, h, e, p : htlc[c][k] = [state |-> st, hash |-> h, expiry |-> e, preimage |-> p]
    BY <1>1 DEF Contract
  <2>2. [htlc[c][k] EXCEPT !.state = "refunded"] = r
    BY <2>1
  <2>3. QED
    BY <2>2, Zenon
<1>3. r \in Contract
  BY <1>1 DEF Contract, States
<1>4. QED
  BY <1>2, <1>3 DEF TypeOK

(* The secrets resolve hands INITIATOR_INITIATE are drawn secrets, or     *)
(* zero when rand.Read may fail.                                           *)
LEMMA SecretsType ==
  ASSUME TypeOK, draws < MaxInitiates
  PROVE  /\ FreshSecrets \subseteq RealSecrets \cup {ZeroSecret}
         /\ ~RandFails => FreshSecrets \subseteq RealSecrets
<1>1. draws + 1 \in Ids
  BY SwapAssumption DEF TypeOK, Ids
<1>2. Secret(draws + 1) \in RealSecrets
  BY <1>1 DEF RealSecrets
<1>3. QED
  BY <1>2 DEF FreshSecrets

(* The secrets resolve hands the initiator's later stages.                 *)
LEMMA InitiatorSecretsType ==
  ASSUME TypeOK
  PROVE  InitiatorSecrets \subseteq RealSecrets \cup {ZeroSecret}
BY DEF TypeOK, InitiatorSecrets

(* The preimages anyone can show are preimages of the model.               *)
LEMMA PublicType ==
  ASSUME TypeOK
  PROVE  PublicSecrets \subseteq Preimages
BY DEF TypeOK, PublicSecrets, Contract, Preimages

-----------------------------------------------------------------------------
(* The initial state satisfies the inductive invariant.                    *)
LEMMA InitIInv == Init => IInv
<1> SUFFICES ASSUME Init PROVE IInv
  OBVIOUS
<1>1. TypeOK
  BY ChainsOfSwap, SwapAssumption DEF Init, TypeOK, Contract, States, Hashes,
     Unset, NoSecret, Ids
<1>2. SecretInv /\ InitiatorSafe
  BY ChainsOfSwap DEF Init, SecretInv, InitiatorSafe
<1>3. QED
  BY <1>1, <1>2 DEF IInv

(* Every step of Next, and every stutter, keeps the state well typed.      *)
LEMMA TypeOKStep == TypeOK /\ [Next]_vars => TypeOK'
<1> SUFFICES ASSUME TypeOK, [Next]_vars PROVE TypeOK'
  OBVIOUS
<1> USE ChainsOfSwap, SwapAssumption
<1>1. CASE InitiatorInitiate
  <2>1. PICK s \in FreshSecrets :
          /\ tokens' = s
          /\ \/ /\ CanCreate(IC)
                /\ htlc' = Created(IC, Hash(s))
                /\ known' = [known EXCEPT !["I"][IC] = NewId(IC)]
             \/ UNCHANGED <<htlc, known>>
          /\ draws < MaxInitiates
          /\ draws' = draws + 1
          /\ now' = now
    BY <1>1, Zenon DEF InitiatorInitiate
  <2>2. s \in RealSecrets \cup {ZeroSecret} /\ Hash(s) \in Hashes
    BY <2>1, SecretsType DEF Hashes
  <2>3. tokens' \in RealSecrets \cup {ZeroSecret, NoToken}
    BY <2>1, <2>2
  <2>7. draws' \in 0 .. MaxInitiates
    BY <2>1 DEF TypeOK
  <2>8. now' \in Nat
    BY <2>1 DEF TypeOK
  <2>4. CASE CanCreate(IC) /\ htlc' = Created(IC, Hash(s))
             /\ known' = [known EXCEPT !["I"][IC] = NewId(IC)]
    <3>1. htlc' \in [Chains -> [Ids -> Contract]] /\ NewId(IC) \in Ids
      BY <2>2, <2>4, CreatedFacts
    <3>2. known' \in [{"I", "P"} -> [Chains -> 0 .. MaxInitiates]]
      BY <2>4, <3>1 DEF TypeOK, Ids
    <3>3. QED
      BY <2>3, <2>7, <2>8, <3>1, <3>2 DEF TypeOK
  <2>5. CASE UNCHANGED <<htlc, known>>
    BY <2>3, <2>7, <2>8, <2>5 DEF TypeOK
  <2>6. QED
    BY <2>1, <2>4, <2>5
<1>2. CASE ParticipantParticipate
  <2>1. PICK k \in Ids :
          /\ Audits(IC, k, Unset)
          /\ \/ /\ CanCreate(PC)
                /\ htlc' = Created(PC, AuditedHash(IC, k, Unset))
                /\ known' = [known EXCEPT !["P"] = [@ EXCEPT ![IC] = k, ![PC] = NewId(PC)]]
             \/ /\ UNCHANGED htlc
                /\ known' = [known EXCEPT !["P"][IC] = k]
          /\ UNCHANGED <<now, tokens, draws>>
    BY <1>2 DEF ParticipantParticipate
  <2>2. AuditedHash(IC, k, Unset) \in Hashes
    BY DEF AuditedHash, TypeOK, Contract, Hashes
  <2>3. CanCreate(PC) => NewId(PC) \in Ids
    BY <2>2, CreatedFacts
  <2>4. QED
    BY <2>1, <2>2, <2>3, CreatedFacts DEF TypeOK, Ids
<1>3. CASE InitiatorRedeem
  <2>1. PICK s \in InitiatorSecrets, j \in Ids :
          /\ \/ /\ RedeemOK(PC, j, s)
                /\ htlc' = Redeemed(PC, j, s)
             \/ UNCHANGED htlc
          /\ known' = [known EXCEPT !["I"][PC] = j]
          /\ UNCHANGED <<now, tokens, draws>>
    BY <1>3 DEF InitiatorRedeem
  <2>2. s \in Preimages
    BY InitiatorSecretsType DEF Preimages
  <2>3. Redeemed(PC, j, s) \in [Chains -> [Ids -> Contract]]
    BY <2>2, RedeemedFacts
  <2>4. htlc' \in [Chains -> [Ids -> Contract]]
    BY <2>1, <2>3 DEF TypeOK
  <2>5. QED
    BY <2>1, <2>4 DEF TypeOK, Ids
<1>4. CASE ParticipantRedeem
  <2>1. PICK j \in Ids :
          /\ known["P"][IC] \in Ids
          /\ htlc' = Redeemed(IC, known["P"][IC], htlc[PC][j].preimage)
          /\ UNCHANGED <<now, tokens, known, draws>>
    BY <1>4 DEF ParticipantRedeem, TypeOK, Ids
  <2>2. htlc[PC][j].preimage \in Preimages
    BY DEF TypeOK, Contract, Preimages
  <2>3. Redeemed(IC, known["P"][IC], htlc[PC][j].preimage) \in [Chains -> [Ids -> Contract]]
    BY <2>1, <2>2, RedeemedFacts
  <2>4. htlc' \in [Chains -> [Ids -> Contract]]
    BY <2>1, <2>3
  <2>5. QED
    BY <2>1, <2>4 DEF TypeOK
<1>5. ASSUME NEW c \in Chains, Refund(c) PROVE TypeOK'
  <2>1. known[Owner(c)][c] \in Ids
    BY <1>5 DEF Refund, TypeOK, Owner, Ids
  <2>2. QED
    BY <1>5, <2>1, RefundedFacts DEF Refund, TypeOK
<1>6. ASSUME NEW c \in Chains, NEW k \in Ids, PublicRedeem(c, k) PROVE TypeOK'
  <2>1. PICK s \in PublicSecrets : htlc' = Redeemed(c, k, s) /\ UNCHANGED <<now, tokens, known, draws>>
    BY <1>6 DEF PublicRedeem
  <2>2. QED
    BY <2>1, PublicType, RedeemedFacts DEF TypeOK
<1>7. CASE Restart
  BY <1>7 DEF Restart, TypeOK
<1>8. CASE Tick
  BY <1>8 DEF Tick, TypeOK
<1>9. CASE UNCHANGED vars
  BY <1>9 DEF vars, TypeOK
<1>10. QED
  BY <1>1, <1>2, <1>3, <1>4, <1>5, <1>6, <1>7, <1>8, <1>9 DEF Next
-----------------------------------------------------------------------------
(* A freshly locked contract is locked, with hash h and no preimage.       *)
LEMMA LockFacts ==
  ASSUME NEW c, NEW h
  PROVE  Lock(c, h).state = "locked" /\ Lock(c, h).hash = h /\ Lock(c, h).preimage = NoSecret
BY DEF Lock

(* A step that leaves htlc alone keeps the secret-flow invariant and       *)
(* InitiatorSafe.                                                          *)
LEMMA HtlcFrame ==
  ASSUME htlc' = htlc
  PROVE  /\ SecretInv' = SecretInv
         /\ InitiatorSafe' = InitiatorSafe
BY DEF SecretInv, InitiatorSafe

(* Without a failing rand.Read, every step keeps the inductive invariant.  *)
LEMMA IInvStep == ~RandFails /\ IInv /\ [Next]_vars => IInv'
<1> SUFFICES ASSUME ~RandFails, IInv, [Next]_vars PROVE IInv'
  OBVIOUS
<1> USE ChainsOfSwap, SwapAssumption
<1>0. TypeOK /\ SecretInv /\ InitiatorSafe /\ TypeOK'
  BY TypeOKStep DEF IInv
<1> SUFFICES SecretInv' /\ InitiatorSafe'
  BY <1>0 DEF IInv
<1>1. CASE InitiatorInitiate
  <2>1. PICK s \in FreshSecrets :
          /\ \/ /\ CanCreate(IC)
                /\ htlc' = Created(IC, Hash(s))
             \/ htlc' = htlc
          /\ draws < MaxInitiates
    BY <1>1, Zenon DEF InitiatorInitiate
  <2>2. s \in RealSecrets /\ Hash(s) \in Hashes
    BY <1>0, <2>1, SecretsType DEF Hashes
  <2>3. CASE CanCreate(IC) /\ htlc' = Created(IC, Hash(s))
    <3> DEFINE n == NewId(IC)
    <3>1. /\ n \in Ids
          /\ htlc[IC][n].state = "none"
          /\ htlc'[IC][n] = Lock(IC, Hash(s))
          /\ \A d \in Chains, i \in Ids : ~(d = IC /\ i = n) => htlc'[d][i] = htlc[d][i]
      BY <1>0, <2>2, <2>3, CreatedFacts
    <3>2. htlc'[IC][n].state = "locked" /\ htlc'[IC][n].hash = Hash(s)
          /\ htlc'[IC][n].preimage = NoSecret
      BY <3>1, LockFacts
    <3>3. SecretInv'
      BY <1>0, <2>2, <3>1, <3>2 DEF SecretInv
    <3>4. InitiatorSafe'
      BY <1>0, <3>1, <3>2 DEF InitiatorSafe
    <3>5. QED
      BY <3>3, <3>4
  <2>4. CASE htlc' = htlc
    BY <1>0, <2>4, HtlcFrame
  <2>5. QED
    BY <2>1, <2>3, <2>4
<1>2. CASE ParticipantParticipate
  <2>1. PICK k \in Ids :
          \/ /\ CanCreate(PC)
             /\ htlc' = Created(PC, AuditedHash(IC, k, Unset))
          \/ htlc' = htlc
    BY <1>2, Zenon DEF ParticipantParticipate
  <2>2. AuditedHash(IC, k, Unset) \in Hashes
    BY <1>0 DEF AuditedHash, TypeOK, Contract, Hashes
  <2>3. CASE CanCreate(PC) /\ htlc' = Created(PC, AuditedHash(IC, k, Unset))
    <3> DEFINE n == NewId(PC)
    <3>1. /\ n \in Ids
          /\ htlc[PC][n].state = "none"
          /\ htlc'[PC][n] = Lock(PC, AuditedHash(IC, k, Unset))
          /\ \A d \in Chains, i \in Ids : ~(d = PC /\ i = n) => htlc'[d][i] = htlc[d][i]
      BY <1>0, <2>2, <2>3, CreatedFacts
    <3>2. htlc'[PC][n].state = "locked" /\ htlc'[PC][n].preimage = NoSecret
      BY <3>1, LockFacts
    <3>3. SecretInv'
      BY <1>0, <3>1, <3>2 DEF SecretInv
    <3>4. InitiatorSafe'
      BY <1>0, <3>1, <3>2 DEF InitiatorSafe
    <3>5. QED
      BY <3>3, <3>4
  <2>4. CASE htlc' = htlc
    BY <1>0, <2>4, HtlcFrame
  <2>5. QED
    BY <2>1, <2>3, <2>4
<1>3. CASE InitiatorRedeem
  <2>1. PICK s \in InitiatorSecrets, j \in Ids :
          \/ /\ RedeemOK(PC, j, s)
             /\ htlc' = Redeemed(PC, j, s)
          \/ htlc' = htlc
    BY <1>3, Zenon DEF InitiatorRedeem
  <2>2. CASE RedeemOK(PC, j, s) /\ htlc' = Redeemed(PC, j, s)
    <3>1. s \in Preimages
      BY <1>0, InitiatorSecretsType DEF Preimages
    <3>2. /\ htlc'[PC][j].state = "redeemed"
          /\ \A d \in Chains, i \in Ids : ~(d = PC /\ i = j) => htlc'[d][i] = htlc[d][i]
      BY <1>0, <2>2, <3>1, RedeemedFacts
    <3>3. SecretInv'
      BY <1>0, <3>2 DEF SecretInv
    <3>4. InitiatorSafe'
      BY <3>2 DEF InitiatorSafe
    <3>5. QED
      BY <3>3, <3>4
  <2>3. CASE htlc' = htlc
    BY <1>0, <2>3, HtlcFrame
  <2>4. QED
    BY <2>1, <2>2, <2>3
<1>4. CASE ParticipantRedeem
  <2>1. PICK j \in Ids :
          /\ htlc[PC][j].state = "redeemed"
          /\ known["P"][IC] \in Ids
          /\ RedeemOK(IC, known["P"][IC], htlc[PC][j].preimage)
          /\ htlc' = Redeemed(IC, known["P"][IC], htlc[PC][j].preimage)
    BY <1>0, <1>4 DEF ParticipantRedeem, TypeOK, Ids
  <2> DEFINE m == known["P"][IC]
  <2>2. htlc[PC][j].preimage \in Preimages
    BY <1>0 DEF TypeOK, Contract, Preimages
  <2>3. LET h2 == Redeemed(IC, m, htlc[PC][j].preimage) IN
        /\ h2[IC][m].state = "redeemed"
        /\ h2[IC][m].hash = htlc[IC][m].hash
        /\ \A d \in Chains, i \in Ids : ~(d = IC /\ i = m) => h2[d][i] = htlc[d][i]
    BY <1>0, <2>1, <2>2, RedeemedFacts
  <2>4. /\ htlc'[IC][m].state = "redeemed"
        /\ htlc'[IC][m].hash = htlc[IC][m].hash
        /\ htlc[IC][m].state = "locked"
        /\ \A d \in Chains, i \in Ids : ~(d = IC /\ i = m) => htlc'[d][i] = htlc[d][i]
    BY <2>1, <2>3 DEF RedeemOK
  <2>5. SecretInv'
    BY <1>0, <2>4 DEF SecretInv
  <2>6. InitiatorSafe'
    BY <2>1, <2>4 DEF InitiatorSafe
  <2>7. QED
    BY <2>5, <2>6
<1>5. ASSUME NEW c \in Chains, Refund(c) PROVE SecretInv' /\ InitiatorSafe'
  <2> DEFINE m == known[Owner(c)][c]
  <2>1. /\ m \in Ids
        /\ htlc[c][m].state = "locked"
        /\ htlc' = [htlc EXCEPT ![c][m].state = "refunded"]
    BY <1>0, <1>5 DEF Refund, TypeOK, Owner, Ids
  <2>2. /\ htlc'[c][m].state = "refunded"
        /\ htlc'[c][m].preimage = htlc[c][m].preimage
        /\ htlc'[c][m].hash = htlc[c][m].hash
        /\ \A d \in Chains, i \in Ids : ~(d = c /\ i = m) => htlc'[d][i] = htlc[d][i]
    BY <1>0, <2>1, RefundedFacts
  <2>3. m \in Ids /\ htlc[c][m].state = "locked"
    BY <2>1
  <2>4. SecretInv'
    BY <1>0, <2>2, <2>3 DEF SecretInv
  <2>5. InitiatorSafe'
    BY <1>0, <2>2, <2>3 DEF InitiatorSafe
  <2>6. QED
    BY <2>4, <2>5
<1>6. ASSUME NEW c \in Chains, NEW k \in Ids, PublicRedeem(c, k)
      PROVE  SecretInv' /\ InitiatorSafe'
  <2>1. PICK s \in PublicSecrets : RedeemOK(c, k, s) /\ htlc' = Redeemed(c, k, s)
    BY <1>6 DEF PublicRedeem
  <2>2. s \in Preimages
    BY <1>0, PublicType
  <2>3. /\ htlc'[c][k].state = "redeemed"
        /\ htlc'[c][k].hash = htlc[c][k].hash
        /\ htlc[c][k].state = "locked"
        /\ Hash(s) = htlc[c][k].hash
        /\ \A d \in Chains, i \in Ids : ~(d = c /\ i = k) => htlc'[d][i] = htlc[d][i]
    BY <1>0, <2>1, <2>2, RedeemedFacts DEF RedeemOK
  <2>4. SecretInv'
    BY <1>0, <2>3 DEF SecretInv
  <2>5. InitiatorSafe'
    <3>1. CASE c = PC
      BY <2>3, <3>1 DEF InitiatorSafe
    <3>2. CASE c = IC
      <4>1. s \in RealSecrets
        <5>1. PICK r \in RealSecrets : htlc[IC][k].hash = Hash(r)
          BY <1>0, <2>3, <3>2 DEF SecretInv
        <5>2. s = r
          BY <2>3, <3>2, <5>1, HashFacts
        <5>3. QED
          BY <5>1, <5>2
      <4>2. PICK d \in Chains, i \in Ids : htlc[d][i].preimage = s
        BY <4>1, <2>1, HashFacts DEF PublicSecrets
      <4>3. htlc[d][i].state = "redeemed"
        BY <1>0, <4>1, <4>2, HashFacts DEF SecretInv
      <4>4. \E j \in Ids : htlc[PC][j].state = "redeemed"
        BY <1>0, <4>3 DEF InitiatorSafe
      <4>5. QED
        BY <2>3, <3>2, <4>4 DEF InitiatorSafe
    <3>3. QED
      BY <3>1, <3>2
  <2>6. QED
    BY <2>4, <2>5
<1>7. CASE Restart
  BY <1>0, <1>7, HtlcFrame DEF Restart
<1>8. CASE Tick
  BY <1>0, <1>8, HtlcFrame DEF Tick
<1>9. CASE UNCHANGED vars
  BY <1>0, <1>9, HtlcFrame DEF vars
<1>10. QED
  BY <1>1, <1>2, <1>3, <1>4, <1>5, <1>6, <1>7, <1>8, <1>9 DEF Next
-----------------------------------------------------------------------------
(* A step that keeps which contracts exist and the hash of each keeps      *)
(* HashLocked and the hashes of I's contracts.                             *)
KeepsHashes ==
  \A d \in Chains, i \in Ids :
    /\ htlc'[d][i].state /= "none" <=> htlc[d][i].state /= "none"
    /\ htlc'[d][i].hash = htlc[d][i].hash

LEMMA KeepsHashesFrame ==
  ASSUME HInv, TypeOK', KeepsHashes
  PROVE  HInv'
BY ChainsOfSwap DEF HInv, HashLocked, KeepsHashes

(* A redemption or refund of a locked contract keeps the hashes.           *)
LEMMA SettleKeepsHashes ==
  ASSUME NEW c \in Chains, NEW m \in Ids,
         htlc[c][m].state = "locked",
         htlc'[c][m].state \in {"redeemed", "refunded"},
         htlc'[c][m].hash = htlc[c][m].hash,
         \A d \in Chains, i \in Ids : ~(d = c /\ i = m) => htlc'[d][i] = htlc[d][i]
  PROVE  KeepsHashes
BY DEF KeepsHashes

(* Every step keeps the hash invariant, whether rand.Read fails or not.    *)
LEMMA HInvStep == HInv /\ [Next]_vars => HInv'
<1> SUFFICES ASSUME HInv, [Next]_vars PROVE HInv'
  OBVIOUS
<1> USE ChainsOfSwap, SwapAssumption
<1>0. TypeOK /\ HashLocked /\ TypeOK'
      /\ \A k \in Ids : htlc[IC][k].state /= "none" => htlc[IC][k].hash /= Unset
  BY TypeOKStep DEF HInv
<1>1. CASE InitiatorInitiate
  <2>1. PICK s \in FreshSecrets :
          /\ \/ /\ CanCreate(IC)
                /\ htlc' = Created(IC, Hash(s))
             \/ htlc' = htlc
          /\ draws < MaxInitiates
    BY <1>1, Zenon DEF InitiatorInitiate
  <2>2. Hash(s) \in Hashes /\ Hash(s) /= Unset
    BY <1>0, <2>1, SecretsType, HashFacts DEF Hashes
  <2>3. CASE CanCreate(IC) /\ htlc' = Created(IC, Hash(s))
    <3> DEFINE n == NewId(IC)
    <3>1. /\ n \in Ids
          /\ htlc[IC][n].state = "none"
          /\ htlc'[IC][n] = Lock(IC, Hash(s))
          /\ \A d \in Chains, i \in Ids : ~(d = IC /\ i = n) => htlc'[d][i] = htlc[d][i]
      BY <1>0, <2>2, <2>3, CreatedFacts
    <3>2. htlc'[IC][n].hash = Hash(s)
      BY <3>1, LockFacts
    <3>3. QED
      BY <1>0, <2>2, <3>1, <3>2 DEF HInv, HashLocked
  <2>4. CASE htlc' = htlc
    BY <1>0, <2>4 DEF HInv, HashLocked
  <2>5. QED
    BY <2>1, <2>3, <2>4
<1>2. CASE ParticipantParticipate
  <2>1. PICK k \in Ids :
          /\ Audits(IC, k, Unset)
          /\ \/ /\ CanCreate(PC)
                /\ htlc' = Created(PC, AuditedHash(IC, k, Unset))
             \/ htlc' = htlc
    BY <1>2, Zenon DEF ParticipantParticipate
  <2>2. htlc[IC][k].state /= "none" /\ AuditedHash(IC, k, Unset) = htlc[IC][k].hash
    BY <1>0, <2>1 DEF Audits, AuditedHash, Chains
  <2>3. AuditedHash(IC, k, Unset) \in Hashes
    BY <1>0, <2>2 DEF TypeOK, Contract
  <2>4. CASE CanCreate(PC) /\ htlc' = Created(PC, AuditedHash(IC, k, Unset))
    <3> DEFINE n == NewId(PC)
    <3>1. /\ n \in Ids
          /\ htlc[PC][n].state = "none"
          /\ htlc'[PC][n] = Lock(PC, AuditedHash(IC, k, Unset))
          /\ \A d \in Chains, i \in Ids : ~(d = PC /\ i = n) => htlc'[d][i] = htlc[d][i]
      BY <1>0, <2>3, <2>4, CreatedFacts
    <3>2. htlc'[PC][n].hash = htlc[IC][k].hash
      BY <2>2, <3>1, LockFacts
    <3>3. QED
      BY <1>0, <2>2, <3>1, <3>2 DEF HInv, HashLocked
  <2>5. CASE htlc' = htlc
    BY <1>0, <2>5 DEF HInv, HashLocked
  <2>6. QED
    BY <2>1, <2>4, <2>5
<1>3. CASE InitiatorRedeem
  <2>1. PICK s \in InitiatorSecrets, j \in Ids :
          \/ /\ RedeemOK(PC, j, s)
             /\ htlc' = Redeemed(PC, j, s)
          \/ htlc' = htlc
    BY <1>3, Zenon DEF InitiatorRedeem
  <2>2. CASE RedeemOK(PC, j, s) /\ htlc' = Redeemed(PC, j, s)
    <3>1. s \in Preimages
      BY <1>0, InitiatorSecretsType DEF Preimages
    <3>2. /\ htlc'[PC][j].state = "redeemed"
          /\ htlc'[PC][j].hash = htlc[PC][j].hash
          /\ htlc[PC][j].state = "locked"
          /\ \A d \in Chains, i \in Ids : ~(d = PC /\ i = j) => htlc'[d][i] = htlc[d][i]
      BY <1>0, <2>2, <3>1, RedeemedFacts DEF RedeemOK
    <3>3. KeepsHashes
      BY <3>2, SettleKeepsHashes
    <3>4. QED
      BY <1>0, <3>3, KeepsHashesFrame DEF HInv
  <2>3. CASE htlc' = htlc
    BY <1>0, <2>3 DEF HInv, HashLocked
  <2>4. QED
    BY <2>1, <2>2, <2>3
<1>4. CASE ParticipantRedeem
  <2>0. known["P"][IC] \in 0 .. MaxInitiates
    BY <1>0 DEF TypeOK
  <2>1. PICK j \in Ids :
          /\ htlc[PC][j].state = "redeemed"
          /\ known["P"][IC] \in Ids
          /\ RedeemOK(IC, known["P"][IC], htlc[PC][j].preimage)
          /\ htlc' = Redeemed(IC, known["P"][IC], htlc[PC][j].preimage)
    BY <2>0, <1>4 DEF ParticipantRedeem, Ids
  <2> DEFINE m == known["P"][IC]
  <2>2. htlc[PC][j].preimage \in Preimages
    BY <1>0 DEF TypeOK, Contract, Preimages
  <2>3. htlc[IC][m].state = "locked"
    BY <2>1 DEF RedeemOK
  <2>4. LET h2 == Redeemed(IC, m, htlc[PC][j].preimage) IN
        /\ h2[IC][m].state = "redeemed"
        /\ h2[IC][m].hash = htlc[IC][m].hash
        /\ \A d \in Chains, i \in Ids : ~(d = IC /\ i = m) => h2[d][i] = htlc[d][i]
    BY <1>0, <2>1, <2>2, RedeemedFacts
  <2>5. /\ htlc'[IC][m].state = "redeemed"
        /\ htlc'[IC][m].hash = htlc[IC][m].hash
        /\ \A d \in Chains, i \in Ids : ~(d = IC /\ i = m) => htlc'[d][i] = htlc[d][i]
    BY <2>1, <2>4
  <2>6. KeepsHashes
    BY <2>1, <2>3, <2>5, SettleKeepsHashes
  <2>7. QED
    BY <1>0, <2>6, KeepsHashesFrame DEF HInv
<1>5. ASSUME NEW c \in Chains, Refund(c) PROVE HInv'
  <2> DEFINE m == known[Owner(c)][c]
  <2>1. /\ m \in Ids
        /\ htlc[c][m].state = "locked"
        /\ htlc' = [htlc EXCEPT ![c][m].state = "refunded"]
    BY <1>0, <1>5 DEF Refund, TypeOK, Owner, Ids
  <2>2. /\ htlc'[c][m].state = "refunded"
        /\ htlc'[c][m].hash = htlc[c][m].hash
        /\ \A d \in Chains, i \in Ids : ~(d = c /\ i = m) => htlc'[d][i] = htlc[d][i]
    BY <1>0, <2>1, RefundedFacts
  <2>3. m \in Ids /\ htlc[c][m].state = "locked"
    BY <2>1
  <2>4. KeepsHashes
    BY <2>2, <2>3, SettleKeepsHashes
  <2>5. QED
    BY <1>0, <2>4, KeepsHashesFrame DEF HInv
<1>6. ASSUME NEW c \in Chains, NEW k \in Ids, PublicRedeem(c, k) PROVE HInv'
  <2>1. PICK s \in PublicSecrets : RedeemOK(c, k, s) /\ htlc' = Redeemed(c, k, s)
    BY <1>6 DEF PublicRedeem
  <2>2. s \in Preimages
    BY <1>0, PublicType
  <2>3. /\ htlc'[c][k].state = "redeemed"
        /\ htlc'[c][k].hash = htlc[c][k].hash
        /\ htlc[c][k].state = "locked"
        /\ \A d \in Chains, i \in Ids : ~(d = c /\ i = k) => htlc'[d][i] = htlc[d][i]
    BY <1>0, <2>1, <2>2, RedeemedFacts DEF RedeemOK
  <2>4. KeepsHashes
    BY <2>3, SettleKeepsHashes
  <2>5. QED
    BY <1>0, <2>4, KeepsHashesFrame DEF HInv
<1>7. CASE Restart \/ Tick \/ UNCHANGED vars
  BY <1>0, <1>7 DEF Restart, Tick, vars, HInv, HashLocked
<1>8. QED
  BY <1>1, <1>2, <1>3, <1>4, <1>5, <1>6, <1>7 DEF Next
-----------------------------------------------------------------------------
(* The state stays well typed in every behaviour of the swap.              *)
THEOREM SwapTypeCorrect == Spec => []TypeOK
<1>1. Init => TypeOK
  BY InitIInv DEF IInv
<1>2. QED
  BY <1>1, TypeOKStep, PTL DEF Spec

(* InitiatorSafe holds for every lock period, bound on initiations, chain *)
(* of the initiator and restart setting, whenever rand.Read does not fail: *)
(* the initiator's coin goes to the participant only after the            *)
(* participant's coin went to the initiator, though INITIATOR_INITIATE    *)
(* may be delivered again and the node may lose its tokens.               *)
THEOREM InitiatorSafeHolds == ~RandFails => (Spec => []InitiatorSafe)
<1> SUFFICES ASSUME ~RandFails PROVE Spec => []InitiatorSafe
  OBVIOUS
<1>1. Init => IInv
  BY InitIInv
<1>2. IInv /\ [Next]_vars => IInv'
  BY IInvStep
<1>3. IInv => InitiatorSafe
  BY DEF IInv
<1>4. QED
  BY <1>1, <1>2, <1>3, PTL DEF Spec

(* HashLocked holds in every behaviour, rand.Read failing or not: every    *)
(* contract P creates is locked with the hash of a contract of I, because  *)
(* the participant's audit of a BTC contract copies its hash and an ETH    *)
(* audit with no PREIMAGE in the context accepts no contract of I.         *)
THEOREM HashLockedHolds == Spec => []HashLocked
<1>1. Init => HInv
  <2> SUFFICES ASSUME Init PROVE HInv
    OBVIOUS
  <2>1. TypeOK
    BY InitIInv DEF IInv
  <2>2. QED
    BY <2>1, ChainsOfSwap DEF Init, HInv, HashLocked
<1>2. HInv => HashLocked
  BY DEF HInv
<1>3. QED
  BY <1>1, <1>2, HInvStep, PTL DEF Spec
====
