------------------------------- MODULE EthLock -------------------------------
(***************************************************************************)
(* The ETH lock transaction of src/action/eth/ext_lock.go, routed by the   *)
(* controller of src/app/controller.go.  CheckTx runs Validate, then       *)
(* ProcessCheck on the check overlay, which is never committed (spec 4.7); *)
(* a transaction that passes enters the mempool.  DeliverTx runs          *)
(* ProcessDeliver only.  Both process paths call processCommon, which      *)
(* writes a Tracker in state New under the lock's TrackerName, whatever    *)
(* tracker is stored under that name.  The tracker job that moves a        *)
(* tracker along New -> BusyBroadcasting -> BusyFinalizing -> Finalized or *)
(* Failed is not under src/ and follows spec 4.5.                          *)
(*                                                                         *)
(* Fee validation and the validator-address read are taken to succeed.     *)
(* NoTracker is a model value, distinct from every tracker.                *)
(***************************************************************************)
EXTENDS Naturals

CONSTANTS
  Lockers,    \* accounts that sign and lock
  Names,      \* tracker names
  NoTracker   \* what the tracker store holds for an unused name

TrackerStates == {"New", "BusyBroadcasting", "BusyFinalizing", "Finalized", "Failed"}

Tracker == [state : TrackerStates, owner : Lockers]

(* A signed Lock: its Locker, the account whose signature it carries, the  *)
(* tracker name and whether ETHTxn decodes as an Ethereum transaction.     *)
LockTxs == [locker : Lockers, signer : Lockers, name : Names, decodes : BOOLEAN]

VARIABLES
  trackers,   \* the ETH tracker store, name -> tracker
  mempool,    \* lock transactions CheckTx accepted, not yet in a block
  delivered   \* history: lock transactions delivered so far

vars == <<trackers, mempool, delivered>>

TypeOK ==
  /\ trackers \in [Names -> Tracker \cup {NoTracker}]
  /\ mempool \subseteq LockTxs
  /\ delivered \subseteq LockTxs

Init ==
  /\ trackers = [n \in Names |-> NoTracker]
  /\ mempool = {}
  /\ delivered = {}

-----------------------------------------------------------------------------
(* Mutant of Validate: ValidateBasic's signature check is left out.        *)
ValidateNoSignature(tx) == tx.decodes

(* ethLockTx.Validate: the Locker signed the transaction (ValidateBasic    *)
(* over lock.Signers()) and ETHTxn decodes.                                *)
Validate(tx) ==
  /\ tx.signer = tx.locker
  /\ tx.decodes

(* processCommon: a lock whose ETHTxn decodes sets the tracker of its name *)
(* to state New, owned by the locker.                                      *)
processCommon(tx) ==
  IF tx.decodes
  THEN [trackers EXCEPT ![tx.name] = [state |-> "New", owner |-> tx.locker]]
  ELSE trackers

(* CheckTx: Validate, then ProcessCheck on the discarded check overlay.    *)
CheckTx(tx) ==
  /\ Validate(tx)
  /\ mempool' = mempool \cup {tx}
  /\ UNCHANGED <<trackers, delivered>>

(* DeliverTx: ProcessDeliver, which is processCommon; no Validate and no   *)
(* replay check.  The block comes from the proposer: an honest one takes   *)
(* transactions from its mempool, a faulty one may put in any lock, which  *)
(* this node's CheckTx never saw.                                          *)
DeliverTx(tx) ==
  /\ trackers' = processCommon(tx)
  /\ mempool' = mempool \ {tx}
  /\ delivered' = delivered \cup {tx}

(* The tracker job (spec 4.5): broadcast, then finalize with witness       *)
(* signatures, ending in Finalized or Failed.                              *)
Successors == [New |-> {"BusyBroadcasting"}, BusyBroadcasting |-> {"BusyFinalizing"},
               BusyFinalizing |-> {"Finalized", "Failed"}, Finalized |-> {}, Failed |-> {}]

TrackerJob(n) ==
  /\ trackers[n] /= NoTracker
  /\ \E s \in Successors[trackers[n].state] :
       trackers' = [trackers EXCEPT ![n].state = s]
  /\ UNCHANGED <<mempool, delivered>>

Next ==
  \/ \E tx \in LockTxs : CheckTx(tx) \/ DeliverTx(tx)
  \/ \E n \in Names : TrackerJob(n)

Spec == Init /\ [][Next]_vars

-----------------------------------------------------------------------------
(* Spec 4.5/S7: a tracker is owned by the locker of a lock transaction     *)
(* for its name that the locker signed.                                    *)
TrackerOwnerSigned ==
  \A n \in Names :
    trackers[n] /= NoTracker =>
      \E tx \in delivered : /\ tx.name = n
                            /\ tx.locker = trackers[n].owner
                            /\ tx.signer = tx.locker
=============================================================================
