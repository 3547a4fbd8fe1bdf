----------------------------- MODULE SwapDeliver -----------------------------
(***************************************************************************)
(* Swap.ProcessDeliver (src/node/action/swap.go) as far as it runs.  It    *)
(* first calls Resolve, which calls parseSwapMessage.  That function       *)
(* declares `var swap swapMessage`, a nil interface.  Each case of its     *)
(* switch then applies a one-result type assertion (swap.(SwapInit),       *)
(* swap.(SwapExchange) or swap.(SwapVerify)) to that nil value, which      *)
(* panics in Go.  The default case returns nil, and Resolve then calls    *)
(* resolve on the nil interface, which panics as well.  The command loop   *)
(* of ProcessDeliver (the opfuncs of swapStageFlow, and the write to       *)
(* commands[i+1]) is therefore never reached and is not modelled.          *)
(***************************************************************************)
EXTENDS Naturals

VARIABLES
  stage,    \* transaction.Stage, an int32 taken from the transaction
  result    \* "resolving", or how ProcessDeliver ended

vars == <<stage, result>>

(* The stages that swapStageFlow and the switch of parseSwapMessage list.  *)
ListedStages == {"SWAP_MATCHING", "INITIATOR_INITIATE", "PARTICIPANT_PARTICIPATE",
                 "INITIATOR_REDEEM", "PARTICIPANT_REDEEM", "WAIT_FOR_CHAIN",
                 "SWAP_REFUND", "SWAP_FINISH"}

(* Stage is decoded from the transaction, so any other int32 can occur.    *)
Stages == ListedStages \cup {"OTHER"}

TypeOK ==
  /\ stage \in Stages
  /\ result \in {"resolving", "SUCCESS", "EXPAND_ERROR", "panic"}

Init ==
  /\ stage \in Stages
  /\ result = "resolving"

(* parseSwapMessage: for a listed stage, the type assertion on the nil     *)
(* interface `swap` panics.                                                *)
ParseListed ==
  /\ result = "resolving"
  /\ stage \in ListedStages
  /\ result' = "panic"
  /\ UNCHANGED stage

(* parseSwapMessage's default case returns nil, and Resolve's call         *)
(* parsedSwap.resolve(app, &stage) on the nil interface panics.            *)
ResolveNil ==
  /\ result = "resolving"
  /\ stage \notin ListedStages
  /\ result' = "panic"
  /\ UNCHANGED stage

Next == ParseListed \/ ResolveNil

Spec == Init /\ [][Next]_vars

(* Spec section 7: handlers never panic; a delivery ends with SUCCESS or   *)
(* an error code.  ProcessDeliver of a Swap ends this way only if Resolve  *)
(* returns.                                                                *)
NoPanic == result /= "panic"
=============================================================================
