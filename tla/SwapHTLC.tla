------------------------------- MODULE SwapHTLC -------------------------------
(***************************************************************************)
(* The cross-chain swap of src/node/action/swap.go between an initiator    *)
(* node I and a participant node P.  I locks its coin in a hashed-timelock *)
(* contract on chain IC, P locks the exchanged coin on chain PC with the   *)
(* same hash, I redeems P's contract with the secret, P extracts the       *)
(* secret from that redemption and redeems I's contract.                   *)
(*                                                                         *)
(* Each stage of swapStageFlow is an action of the node of its role; it    *)
(* runs the stage's commands in order and stops at the first that fails,   *)
(* keeping what the earlier ones did (the trailing NextStage stub only     *)
(* sets the return code).  The stage functions are modelled as written:   *)
(* Swap.Resolve panics before any of them runs (module SwapDeliver), and   *)
(* SwapExchange.resolve, SaveContract and FindContract have no body in the *)
(* sources.  Nothing checks the stage order or dedupes a delivery, so     *)
(* stages may be delivered in any order, and again.                        *)
(*                                                                         *)
(* The chains are the environment.  CreateContractBTC puts a new contract  *)
(* on the chain at every call; CreateContractETH reuses the node's saved   *)
(* contract, which the chain funds once.  A contract is redeemed by anyone *)
(* who shows its preimage (on ETH only before its expiry) and refunded to  *)
(* its owner from its expiry on; a call to a chain may also fail.          *)
(***************************************************************************)
EXTENDS Naturals

CONSTANTS
  LockPeriod,      \* lockPeriod, in ticks of the chains' clock
  MaxTime,         \* bound on the clock, for model checking
  InitiatorChain,  \* chain of the coin the initiator gives: "BTC" or "ETH"
  RandFails,       \* TRUE: rand.Read in resolve may fail
  Restarts,        \* TRUE: the initiator's node may restart
  MaxInitiates     \* bound on INITIATOR_INITIATE deliveries, and on contracts per chain

ASSUME SwapAssumption ==
  /\ LockPeriod \in Nat \ {0}
  /\ MaxTime \in Nat
  /\ InitiatorChain \in {"BTC", "ETH"}
  /\ RandFails \in BOOLEAN
  /\ Restarts \in BOOLEAN
  /\ MaxInitiates \in Nat \ {0}

Chains == {"BTC", "ETH"}
IC == InitiatorChain
PC == CHOOSE c \in Chains : c /= IC

(* The node that creates contracts on chain c.                             *)
Owner(c) == IF c = IC THEN "I" ELSE "P"

(* Contract slots of a chain.                                              *)
Ids == 1 .. MaxInitiates

(* Secrets are [32]byte: the one drawn at the k-th INITIATOR_INITIATE, or  *)
(* the zero value Go gives an array that was never filled (a failed        *)
(* rand.Read, a missing map entry).                                        *)
Secret(k) == <<"secret", k>>
RealSecrets == {Secret(k) : k \in Ids}
ZeroSecret == <<"zero">>
NoSecret == <<"none">>
(* An absent tokens entry.                                                 *)
NoToken == <<"empty">>
Hash(s) == <<"sha256", s>>
(* GetByte32 of an unset context entry: zero bytes, the hash of nothing.   *)
Unset == <<"unset">>
Hashes == {Hash(s) : s \in RealSecrets \cup {ZeroSecret}} \cup {Unset}

States == {"none", "locked", "redeemed", "refunded"}

VARIABLES
  now,     \* the chains' clock (time.Now)
  htlc,    \* htlc[c][k]: the k-th contract on chain c
  tokens,  \* the initiator's in-memory tokens entry for this counterparty
  known,   \* known[n][c]: the contract of chain c node n's FindContract returns, 0 for none
  draws    \* how many times resolve drew a secret for INITIATOR_INITIATE

vars == <<now, htlc, tokens, known, draws>>

Contract == [state : States, hash : Hashes, expiry : Nat,
             preimage : RealSecrets \cup {ZeroSecret, NoSecret}]

TypeOK ==
  /\ now \in Nat
  /\ htlc \in [Chains -> [Ids -> Contract]]
  /\ tokens \in RealSecrets \cup {ZeroSecret, NoToken}
  /\ known \in [{"I", "P"} -> [Chains -> 0 .. MaxInitiates]]
  /\ draws \in 0 .. MaxInitiates

Init ==
  /\ now = 0
  /\ htlc = [c \in Chains |-> [k \in Ids |-> [state |-> "none", hash |-> Unset,
                                              expiry |-> 0, preimage |-> NoSecret]]]
  /\ tokens = NoToken
  /\ known = [n \in {"I", "P"} |-> [c \in Chains |-> 0]]
  /\ draws = 0
-----------------------------------------------------------------------------
(* CreateContractBTC locks until now + 2 * lockPeriod, CreateContractETH   *)
(* for lockPeriod: the lock time follows the chain, not the role.          *)
Timeout(c) == IF c = "BTC" THEN 2 * LockPeriod ELSE LockPeriod

(* Mutant of Lock: the lock time is subtracted from the clock.            *)
LockBackwards(c, h) == [state |-> "locked", hash |-> h, expiry |-> now - Timeout(c),
                        preimage |-> NoSecret]

(* The contract CreateContract leaves on chain c, locked with hash h.      *)
Lock(c, h) == [state |-> "locked", hash |-> h, expiry |-> now + Timeout(c),
               preimage |-> NoSecret]

FreeIds(c) == {k \in Ids : htlc[c][k].state = "none"}

(* CreateContractBTC runs htlc.NewInitiateCmd, a new contract in a free    *)
(* slot; CreateContractETH funds the contract it saved under the node's    *)
(* own key and nonce 0, slot 1, which the chain funds only once.           *)
CanCreate(c) == IF c = "BTC" THEN FreeIds(c) /= {} ELSE htlc[c][1].state = "none"
NewId(c) == IF c = "BTC" THEN CHOOSE k \in FreeIds(c) : TRUE ELSE 1
Created(c, h) == [htlc EXCEPT ![c][NewId(c)] = Lock(c, h)]

(* resolve for INITIATOR_INITIATE draws a fresh secret, zero when rand.Read *)
(* fails, which is only logged.                                            *)
FreshSecrets ==
  IF RandFails THEN {Secret(draws + 1), ZeroSecret} ELSE {Secret(draws + 1)}

(* resolve for the initiator's later stages reads tokens, where a missing  *)
(* entry reads as zero.                                                    *)
InitiatorSecrets == {IF tokens = NoToken THEN ZeroSecret ELSE tokens}

(* AuditContract of contract k on chain c with the PREIMAGE of the         *)
(* context: the BTC audit only needs the contract; the ETH audit also      *)
(* needs its hash to be the context's PREIMAGE (receiver and value are     *)
(* taken as right).                                                        *)
Audits(c, k, pre) ==
  /\ htlc[c][k].state /= "none"
  /\ c = "ETH" => htlc[c][k].hash = pre

(* The PREIMAGE an audit leaves in the context.                            *)
AuditedHash(c, k, pre) == IF c = "BTC" THEN htlc[c][k].hash ELSE pre

(* What the chain accepts from Redeem(BTC|ETH) of contract k with secret   *)
(* s: the BTC script checks only the preimage, the ETH contract also the   *)
(* time.                                                                   *)
RedeemOK(c, k, s) ==
  /\ htlc[c][k].state = "locked"
  /\ Hash(s) = htlc[c][k].hash
  /\ c = "ETH" => now < htlc[c][k].expiry

Redeemed(c, k, s) ==
  [htlc EXCEPT ![c][k] = [state |-> "redeemed", hash |-> @.hash, expiry |-> @.expiry,
                          preimage |-> s]]
-----------------------------------------------------------------------------
(* INITIATOR_INITIATE: resolve stores a fresh secret in tokens, then       *)
(* Initiate creates I's contract on IC locked with the secret's hash, and  *)
(* CreateContractBTC saves it, replacing the contract saved before.        *)
InitiatorInitiate ==
  /\ draws < MaxInitiates
  /\ \E s \in FreshSecrets :
       /\ tokens' = s
       /\ \/ /\ CanCreate(IC)
             /\ htlc' = Created(IC, Hash(s))
             /\ known' = [known EXCEPT !["I"][IC] = NewId(IC)]
          \/ UNCHANGED <<htlc, known>>
  /\ draws' = draws + 1
  /\ UNCHANGED now

(* Mutant of ParticipantParticipate: the BTC audit does not put the        *)
(* contract's hash into the context, so Participate locks with what the    *)
(* context held.                                                           *)
ParticipantParticipateNoAuditHash ==
  \E k \in Ids :
    /\ Audits(IC, k, Unset)
    /\ \/ /\ CanCreate(PC)
          /\ htlc' = Created(PC, Unset)
          /\ known' = [known EXCEPT !["P"] = [@ EXCEPT ![IC] = k, ![PC] = NewId(PC)]]
       \/ /\ UNCHANGED htlc
          /\ known' = [known EXCEPT !["P"][IC] = k]
    /\ UNCHANGED <<now, tokens, draws>>

(* PARTICIPANT_PARTICIPATE: AuditContract of the contract k on IC the      *)
(* message carries (a participant's context has no PREIMAGE) saves it,     *)
(* then Participate creates P's contract on PC with the audited hash.      *)
ParticipantParticipate ==
  \E k \in Ids :
    /\ Audits(IC, k, Unset)
    /\ \/ /\ CanCreate(PC)
          /\ htlc' = Created(PC, AuditedHash(IC, k, Unset))
          /\ known' = [known EXCEPT !["P"] = [@ EXCEPT ![IC] = k, ![PC] = NewId(PC)]]
       \/ /\ UNCHANGED htlc
          /\ known' = [known EXCEPT !["P"][IC] = k]
    /\ UNCHANGED <<now, tokens, draws>>

(* Mutant of InitiatorRedeem: Redeem runs on the initiator's own chain.    *)
InitiatorRedeemWrongChain ==
  \E s \in InitiatorSecrets, j \in Ids :
    /\ Audits(PC, j, Hash(s))
    /\ \/ /\ RedeemOK(IC, j, s)
          /\ htlc' = Redeemed(IC, j, s)
       \/ UNCHANGED htlc
    /\ known' = [known EXCEPT !["I"][PC] = j]
    /\ UNCHANGED <<now, tokens, draws>>

(* INITIATOR_REDEEM: AuditContract of P's contract j with the secret read  *)
(* from tokens saves it, then Redeem of the saved contract with that       *)
(* secret.                                                                 *)
InitiatorRedeem ==
  \E s \in InitiatorSecrets, j \in Ids :
    /\ Audits(PC, j, Hash(s))
    /\ \/ /\ RedeemOK(PC, j, s)
          /\ htlc' = Redeemed(PC, j, s)
       \/ UNCHANGED htlc
    /\ known' = [known EXCEPT !["I"][PC] = j]
    /\ UNCHANGED <<now, tokens, draws>>

(* PARTICIPANT_REDEEM: ExtractSecret finds I's redemption of P's contract  *)
(* j, then Redeem of the contract of IC that P saved when it audited.      *)
ParticipantRedeem ==
  \E j \in Ids :
    /\ htlc[PC][j].state = "redeemed"
    /\ known["P"][IC] /= 0
    /\ RedeemOK(IC, known["P"][IC], htlc[PC][j].preimage)
    /\ htlc' = Redeemed(IC, known["P"][IC], htlc[PC][j].preimage)
    /\ UNCHANGED <<now, tokens, known, draws>>

(* SWAP_REFUND: the owner's Refund of the contract its FindContract        *)
(* returns; the chain accepts it from the expiry on.                       *)
Refund(c) ==
  LET k == known[Owner(c)][c] IN
  /\ k /= 0
  /\ htlc[c][k].state = "locked"
  /\ now >= htlc[c][k].expiry
  /\ htlc' = [htlc EXCEPT ![c][k].state = "refunded"]
  /\ UNCHANGED <<now, tokens, known, draws>>

(* Anyone may redeem a contract with a preimage that is public: the zero   *)
(* secret, or one revealed by a redemption.                                *)
PublicSecrets ==
  ({ZeroSecret} \cup {htlc[d][i].preimage : d \in Chains, i \in Ids}) \ {NoSecret}

PublicRedeem(c, k) ==
  \E s \in PublicSecrets :
    /\ RedeemOK(c, k, s)
    /\ htlc' = Redeemed(c, k, s)
    /\ UNCHANGED <<now, tokens, known, draws>>

(* The initiator's node restarts: the in-memory tokens map is empty.       *)
Restart ==
  /\ Restarts
  /\ tokens /= NoToken
  /\ tokens' = NoToken
  /\ UNCHANGED <<now, htlc, known, draws>>

Tick ==
  /\ now' = now + 1
  /\ UNCHANGED <<htlc, tokens, known, draws>>

Next ==
  \/ InitiatorInitiate
  \/ ParticipantParticipate
  \/ InitiatorRedeem
  \/ ParticipantRedeem
  \/ \E c \in Chains : Refund(c)
  \/ \E c \in Chains, k \in Ids : PublicRedeem(c, k)
  \/ Restart
  \/ Tick

Spec == Init /\ [][Next]_vars

(* The clock runs on; model checking explores it up to MaxTime.            *)
TimeBound == now <= MaxTime
-----------------------------------------------------------------------------
(* The initiator never pays without being paid: once one of I's contracts  *)
(* is redeemed (to P), one of P's contracts has been redeemed (to I).  It  *)
(* rests on a secret reaching P only through I's redemption on PC, however *)
(* often INITIATOR_INITIATE redraws it.                                    *)
InitiatorSafe ==
  (\E k \in Ids : htlc[IC][k].state = "redeemed") =>
    \E j \in Ids : htlc[PC][j].state = "redeemed"

(* Every contract of P is locked with the hash of one of I's contracts,    *)
(* the one the participant audited: a secret of I's opens it.             *)
HashLocked ==
  \A j \in Ids :
    htlc[PC][j].state /= "none" =>
      \E k \in Ids : htlc[IC][k].state /= "none" /\ htlc[PC][j].hash = htlc[IC][k].hash

(* Spec 4.4: SWAP_REFUND refunds the party's own outstanding HTLC, and a   *)
(* stage run again is a no-op.  Every contract holding I's coin is the one *)
(* the initiator's FindContract returns, so its SWAP_REFUND reaches it.    *)
InitiatorCanRefund ==
  \A k \in Ids : htlc[IC][k].state = "locked" => known["I"][IC] = k
=============================================================================
