------------------------- MODULE GovernanceSumProofs -------------------------
(***************************************************************************)
(* Proofs that runFundProposal conserves OLT (FundsConserved, when no      *)
(* store write fails) and never creates OLT (NoMoneyCreated, whatever      *)
(* fails), for every finite set of addresses and proposals.                *)
(*                                                                         *)
(* Both properties are about FunSum, a sum over a finite set written as a  *)
(* recursive function.  Its defining equation is first shown to have a     *)
(* unique solution on every subset (SumUnique, SumExists, SumFnDef), by    *)
(* strong induction over subsets (SubsetInduction, from the well-founded   *)
(* strict-subset ordering of FiniteSetTheorems); the two facts the         *)
(* governance proofs need follow by the same induction: changing one term  *)
(* changes the sum by as much (SumUpdate), and a constant sum is the       *)
(* constant times the number of terms (SumConst).                          *)
(***************************************************************************)
EXTENDS GovernanceProofs, FiniteSetTheorems

(* Strong induction over the subsets of a finite set, stated with the set  *)
(* G of subsets that have the property.                                    *)
LEMMA SubsetInduction ==
  ASSUME NEW S, IsFiniteSet(S), NEW G,
         \A T \in SUBSET S : (\A U \in (SUBSET T) \ {T} : U \in G) => T \in G
  PROVE  SUBSET S \subseteq G
<1>1. IsWellFoundedOn(StrictSubsetOrdering(S), SUBSET S)
  BY FS_FiniteSubsetsOfFinite, FS_StrictSubsetOrderingWellFounded, Zenon
<1>. DEFINE Bad == (SUBSET S) \ G
<1>2. SUFFICES ASSUME Bad /= {} PROVE FALSE
  OBVIOUS
<1>3. Bad \subseteq SUBSET S
  OBVIOUS
<1>. HIDE DEF Bad
<1>4. PICK T \in Bad : \A U \in Bad : ~(<<U, T>> \in StrictSubsetOrdering(S))
  BY <1>1, <1>2, <1>3, WFMin
<1>. USE DEF Bad
<1>5. \A U \in (SUBSET T) \ {T} : U \in G
  BY <1>4 DEF StrictSubsetOrdering
<1>. QED
  BY <1>4, <1>5
(* One unfolding of FunSum's recursive function sum at the subset T.       *)
SumStep(g, f, T) ==
  IF T = {} THEN 0 ELSE LET x == CHOOSE x \in T : TRUE IN g[x] + f[T \ {x}]

(* f satisfies the defining equation of sum on every subset of T.          *)
Partial(g, T, f) == \A U \in SUBSET T : f[U] = SumStep(g, f, U)

(* The function sum that FunSum(g, S) applies to S.                        *)
SumFn(g, S) == CHOOSE f : f = [T \in SUBSET S |-> SumStep(g, f, T)]

LEMMA FunSumIsSumFn ==
  ASSUME NEW g, NEW S PROVE FunSum(g, S) = SumFn(g, S)[S]
BY DEF FunSum, SumFn, SumStep

(* Two solutions of the defining equation agree on every subset.           *)
LEMMA SumUnique ==
  ASSUME NEW g, NEW T, IsFiniteSet(T), NEW f, NEW h,
         Partial(g, T, f), Partial(g, T, h)
  PROVE  \A U \in SUBSET T : f[U] = h[U]
<1>. DEFINE G == {U \in SUBSET T : f[U] = h[U]}
<1>1. ASSUME NEW U \in SUBSET T, \A V \in (SUBSET U) \ {U} : V \in G
      PROVE  U \in G
  <2>1. CASE U = {}
    BY <2>1 DEF Partial, SumStep
  <2>2. CASE U /= {}
    <3>. DEFINE x == CHOOSE x \in U : TRUE
    <3>1. x \in U /\ U \ {x} \in (SUBSET U) \ {U}
      BY <2>2
    <3>2. f[U \ {x}] = h[U \ {x}]
      BY <1>1, <3>1
    <3>3. f[U] = g[x] + f[U \ {x}] /\ h[U] = g[x] + h[U \ {x}]
      BY <2>2 DEF Partial, SumStep
    <3>. QED
      BY <3>2, <3>3
  <2>. QED
    BY <2>1, <2>2
<1>. HIDE DEF G
<1>2. SUBSET T \subseteq G
  BY <1>1, SubsetInduction
<1>. QED
  BY <1>2 DEF G

(* Every subset T of a finite S has an integer solution of the defining    *)
(* equation: the one for T is put together from those of its proper        *)
(* subsets, which agree by SumUnique.                                      *)
LEMMA SumExists ==
  ASSUME NEW S, IsFiniteSet(S), NEW g \in [S -> Int]
  PROVE  \A T \in SUBSET S : \E f \in [SUBSET T -> Int] : Partial(g, T, f)
<1>. DEFINE G == {T \in SUBSET S : \E f \in [SUBSET T -> Int] : Partial(g, T, f)}
<1>1. ASSUME NEW T \in SUBSET S, \A V \in (SUBSET T) \ {T} : V \in G
      PROVE  T \in G
  <2>. DEFINE pf(U) == CHOOSE f \in [SUBSET U -> Int] : Partial(g, U, f)
              ch(U) == CHOOSE x \in U : TRUE
              F == [U \in SUBSET T |->
                      IF U = {} THEN 0 ELSE g[ch(U)] + pf(U \ {ch(U)})[U \ {ch(U)}]]
  <2>1. ASSUME NEW V \in (SUBSET T) \ {T}
        PROVE  /\ pf(V) \in [SUBSET V -> Int]
               /\ Partial(g, V, pf(V))
    BY <1>1
  <2>2. ASSUME NEW U \in SUBSET T, U /= {}
        PROVE  /\ ch(U) \in U
               /\ U \ {ch(U)} \in (SUBSET T) \ {T}
    BY <2>2
  <2>3. F \in [SUBSET T -> Int]
    <3>. HIDE DEF pf, ch
    <3>1. ASSUME NEW U \in SUBSET T, U /= {}
          PROVE  g[ch(U)] + pf(U \ {ch(U)})[U \ {ch(U)}] \in Int
      <4>1. ch(U) \in S /\ U \ {ch(U)} \in (SUBSET T) \ {T}
        BY <2>2, <3>1
      <4>2. pf(U \ {ch(U)}) \in [SUBSET (U \ {ch(U)}) -> Int]
        BY <4>1, <2>1, Zenon
      <4>3. pf(U \ {ch(U)})[U \ {ch(U)}] \in Int
        BY <4>2
      <4>. QED
        BY <4>1, <4>3
    <3>2. \A U \in SUBSET T :
            (IF U = {} THEN 0 ELSE g[ch(U)] + pf(U \ {ch(U)})[U \ {ch(U)}]) \in Int
      <4>. SUFFICES ASSUME NEW U \in SUBSET T
                    PROVE  (IF U = {} THEN 0 ELSE g[ch(U)] + pf(U \ {ch(U)})[U \ {ch(U)}]) \in Int
        OBVIOUS
      <4>1. CASE U = {}
        BY <4>1
      <4>2. CASE U /= {}
        BY <4>2, <3>1
      <4>. QED
        BY <4>1, <4>2
    <3>. QED
      BY <3>2
  <2>4. ASSUME NEW V \in (SUBSET T) \ {T}
        PROVE  F[V] = pf(V)[V]
    <3>1. CASE V = {}
      <4>1. Partial(g, V, pf(V))
        BY <2>1
      <4>2. pf(V)[V] = SumStep(g, pf(V), V)
        BY <4>1 DEF Partial
      <4>3. pf(V)[V] = 0
        BY <4>2, <3>1 DEF SumStep
      <4>. QED
        BY <4>3, <3>1
    <3>2. CASE V /= {}
      <4>. DEFINE y == ch(V)
                  W == V \ {y}
      <4>1. y \in V /\ W \in (SUBSET T) \ {T} /\ W \in SUBSET V
        BY <2>2, <3>2
      <4>2. F[V] = g[y] + pf(W)[W]
        BY <3>2
      <4>3. pf(V)[V] = g[y] + pf(V)[W]
        <5>1. Partial(g, V, pf(V))
          BY <2>1
        <5>2. pf(V)[V] = SumStep(g, pf(V), V)
          BY <5>1 DEF Partial
        <5>. QED
          BY <5>2, <3>2 DEF SumStep
      <4>4. IsFiniteSet(W)
        BY <4>1, FS_Subset
      <4>5. Partial(g, W, pf(V)) /\ Partial(g, W, pf(W))
        BY <2>1, <4>1 DEF Partial
      <4>6. pf(V)[W] = pf(W)[W]
        BY <4>4, <4>5, SumUnique
      <4>. QED
        BY <4>2, <4>3, <4>6
    <3>. QED
      BY <3>1, <3>2
  <2>5. Partial(g, T, F)
    <3>1. SUFFICES ASSUME NEW U \in SUBSET T PROVE F[U] = SumStep(g, F, U)
      BY DEF Partial
    <3>2. CASE U = {}
      BY <3>2 DEF SumStep
    <3>3. CASE U /= {}
      <4>1. ch(U) \in U /\ U \ {ch(U)} \in (SUBSET T) \ {T}
        BY <2>2, <3>3
      <4>2. F[U \ {ch(U)}] = pf(U \ {ch(U)})[U \ {ch(U)}]
        BY <4>1, <2>4
      <4>3. SumStep(g, F, U) = g[ch(U)] + F[U \ {ch(U)}]
        BY <3>3 DEF SumStep
      <4>. QED
        BY <3>3, <4>2, <4>3
    <3>. QED
      BY <3>2, <3>3
  <2>. QED
    BY <2>3, <2>5
<1>. HIDE DEF G
<1>2. SUBSET S \subseteq G
  BY <1>1, SubsetInduction
<1>. QED
  BY <1>2 DEF G

(* On a finite S, the function FunSum chooses satisfies the defining       *)
(* equation on every subset, with integer values.                          *)
LEMMA SumFnDef ==
  ASSUME NEW S, IsFiniteSet(S), NEW g \in [S -> Int]
  PROVE  /\ Partial(g, S, SumFn(g, S))
         /\ \A T \in SUBSET S : SumFn(g, S)[T] \in Int
<1>1. PICK f0 \in [SUBSET S -> Int] : Partial(g, S, f0)
  BY SumExists
<1>2. f0 = [T \in SUBSET S |-> SumStep(g, f0, T)]
  BY <1>1 DEF Partial
<1>3. SumFn(g, S) = [T \in SUBSET S |-> SumStep(g, SumFn(g, S), T)]
  BY <1>2 DEF SumFn
<1>4. Partial(g, S, SumFn(g, S))
  BY <1>3 DEF Partial
<1>5. \A T \in SUBSET S : SumFn(g, S)[T] = f0[T]
  BY <1>1, <1>4, SumUnique
<1>. QED
  BY <1>1, <1>4, <1>5

(* Changing one term of a finite sum by d changes the sum by d.            *)
LEMMA SumUpdate ==
  ASSUME NEW S, IsFiniteSet(S), NEW g \in [S -> Int], NEW h \in [S -> Int],
         NEW y \in S, NEW d \in Int,
         h[y] = g[y] + d, \A x \in S \ {y} : h[x] = g[x]
  PROVE  FunSum(h, S) = FunSum(g, S) + d
<1>. DEFINE sg == SumFn(g, S)
            sh == SumFn(h, S)
            G == {T \in SUBSET S : sh[T] = sg[T] + (IF y \in T THEN d ELSE 0)}
<1>1. /\ Partial(g, S, sg) /\ \A T \in SUBSET S : sg[T] \in Int
      /\ Partial(h, S, sh) /\ \A T \in SUBSET S : sh[T] \in Int
  BY SumFnDef
<1>. HIDE DEF sg, sh
<1>2. ASSUME NEW T \in SUBSET S, \A V \in (SUBSET T) \ {T} : V \in G
      PROVE  T \in G
  <2>1. CASE T = {}
    <3>1. sg[T] = SumStep(g, sg, T) /\ sh[T] = SumStep(h, sh, T)
      BY <1>1 DEF Partial
    <3>. QED
      BY <2>1, <3>1 DEF SumStep
  <2>2. CASE T /= {}
    <3>. DEFINE x == CHOOSE x \in T : TRUE
                W == T \ {x}
    <3>1. /\ x \in T /\ W \in (SUBSET T) \ {T} /\ W \in SUBSET S
          /\ \A z : z \in W <=> z \in T /\ z /= x
      BY <2>2
    <3>2. sh[W] = sg[W] + (IF y \in W THEN d ELSE 0)
      BY <3>1, <1>2
    <3>3. sg[T] = g[x] + sg[W] /\ sh[T] = h[x] + sh[W]
      <4>1. sg[T] = SumStep(g, sg, T) /\ sh[T] = SumStep(h, sh, T)
        BY <1>1 DEF Partial
      <4>. QED
        BY <4>1, <2>2 DEF SumStep
    <3>4. sg[W] \in Int /\ sh[W] \in Int /\ x \in S
      BY <1>1, <3>1
    <3>. HIDE DEF x, W
    <3>5. CASE x = y
      <4>1. y \in T /\ y \notin W
        BY <3>1, <3>5
      <4>2. sh[T] = sg[T] + d
        BY <3>2, <3>3, <3>4, <3>5, <4>1
      <4>. QED
        BY <4>1, <4>2 DEF G
    <3>6. CASE x /= y
      BY <3>1, <3>2, <3>3, <3>4, <3>6
    <3>. QED
      BY <3>5, <3>6
  <2>. QED
    BY <2>1, <2>2
<1>. HIDE DEF G
<1>3. S \in G
  BY <1>2, SubsetInduction
<1>. QED
  BY <1>3, FunSumIsSumFn DEF G, sg, sh

(* A finite sum of the constant c is c times the number of terms.          *)
LEMMA SumConst ==
  ASSUME NEW S, IsFiniteSet(S), NEW c \in Int
  PROVE  FunSum([x \in S |-> c], S) = c * FunSum([x \in S |-> 1], S)
<1>. DEFINE gc == [x \in S |-> c]
            g1 == [x \in S |-> 1]
            sc == SumFn(gc, S)
            s1 == SumFn(g1, S)
            G == {T \in SUBSET S : sc[T] = c * s1[T]}
<1>1. /\ Partial(gc, S, sc) /\ \A T \in SUBSET S : sc[T] \in Int
      /\ Partial(g1, S, s1) /\ \A T \in SUBSET S : s1[T] \in Int
  BY SumFnDef
<1>. HIDE DEF sc, s1
<1>2. ASSUME NEW T \in SUBSET S, \A V \in (SUBSET T) \ {T} : V \in G
      PROVE  T \in G
  <2>1. CASE T = {}
    <3>1. sc[T] = SumStep(gc, sc, T) /\ s1[T] = SumStep(g1, s1, T)
      BY <1>1 DEF Partial
    <3>. QED
      BY <2>1, <3>1 DEF SumStep
  <2>2. CASE T /= {}
    <3>. DEFINE x == CHOOSE x \in T : TRUE
                W == T \ {x}
    <3>1. x \in T /\ W \in (SUBSET T) \ {T} /\ W \in SUBSET S
      BY <2>2
    <3>2. sc[W] = c * s1[W]
      BY <3>1, <1>2
    <3>3. sc[T] = c + sc[W] /\ s1[T] = 1 + s1[W]
      <4>1. sc[T] = SumStep(gc, sc, T) /\ s1[T] = SumStep(g1, s1, T)
        BY <1>1 DEF Partial
      <4>. QED
        BY <4>1, <2>2, <3>1 DEF SumStep
    <3>4. sc[W] \in Int /\ s1[W] \in Int
      BY <1>1, <3>1
    <3>5. sc[T] = c * s1[T]
      BY <3>2, <3>3, <3>4
    <3>. QED
      BY <3>5 DEF G
  <2>. QED
    BY <2>1, <2>2
<1>. HIDE DEF G
<1>3. S \in G
  BY <1>2, SubsetInduction
<1>. QED
  BY <1>3, FunSumIsSumFn DEF G, sc, s1, gc, g1
(* A finite sum of integers is an integer.                                 *)
LEMMA FunSumInt ==
  ASSUME NEW S, IsFiniteSet(S), NEW g \in [S -> Int]
  PROVE  FunSum(g, S) \in Int
BY SumFnDef, FunSumIsSumFn

-----------------------------------------------------------------------------
(* The fund-store total of every proposal, the second term of TotalOLT.    *)
PropFunds == [p \in Proposals |-> CurrentFunds(p)]

(* In a well-typed state both terms of TotalOLT are integers.              *)
LEMMA TotalInt ==
  ASSUME TypeOK
  PROVE  /\ PropFunds \in [Proposals -> Int]
         /\ FunSum(olt, Addresses) \in Int
         /\ FunSum(PropFunds, Proposals) \in Int
         /\ TotalOLT = FunSum(olt, Addresses) + FunSum(PropFunds, Proposals)
<1>1. \A p \in Proposals : CurrentFunds(p) \in Int
  BY FiniteStores, FunSumInt DEF TypeOK, CurrentFunds
<1>2. PropFunds \in [Proposals -> Int]
  BY <1>1 DEF PropFunds
<1>3. FunSum(olt, Addresses) \in Int
  BY FiniteStores, FunSumInt DEF TypeOK
<1>. QED
  BY <1>2, <1>3, FiniteStores, FunSumInt DEF TotalOLT, PropFunds

(* A step that writes neither balances nor funds keeps the total.          *)
LEMMA UnchangedTotal ==
  UNCHANGED <<olt, funds>> => TotalOLT' = TotalOLT
BY DEF TotalOLT, CurrentFunds

(* The debit of step 8 takes amt from the total of the balances.           *)
LEMMA DebitTotal ==
  ASSUME TypeOK, NEW a \in Addresses, NEW amt \in Nat, olt[a] >= amt,
         olt' = [olt EXCEPT ![a] = @ - amt]
  PROVE  FunSum(olt', Addresses) = FunSum(olt, Addresses) - amt
<1>1. olt' \in [Addresses -> Int] /\ olt'[a] = olt[a] + (-amt)
      /\ \A x \in Addresses \ {a} : olt'[x] = olt[x]
  BY DEF TypeOK
<1>2. olt \in [Addresses -> Int] /\ -amt \in Int
  BY DEF TypeOK
<1>3. \A h \in [Addresses -> Int] :
        h[a] = olt[a] + (-amt) /\ (\A x \in Addresses \ {a} : h[x] = olt[x])
          => FunSum(h, Addresses) = FunSum(olt, Addresses) + (-amt)
  BY <1>2, FiniteStores, SumUpdate
<1>4. FunSum(olt', Addresses) = FunSum(olt, Addresses) + (-amt)
  BY <1>1, <1>3
<1>. QED
  BY <1>2, <1>4, FiniteStores, FunSumInt

(* AddFunds adds amt to the total of the fund store.                       *)
LEMMA AddFundsTotal ==
  ASSUME TypeOK, NEW p \in Proposals, NEW a \in Addresses, NEW amt \in Nat,
         AddFunds(p, a, amt)
  PROVE  FunSum(PropFunds', Proposals) = FunSum(PropFunds, Proposals) + amt
<1>1. funds' \in [Proposals -> [Addresses -> Nat]]
  BY DEF TypeOK, AddFunds
<1>2. CurrentFunds(p)' = CurrentFunds(p) + amt
  <2>1. /\ funds'[p] \in [Addresses -> Int] /\ funds[p] \in [Addresses -> Int]
        /\ funds'[p][a] = funds[p][a] + amt
        /\ \A x \in Addresses \ {a} : funds'[p][x] = funds[p][x]
    BY <1>1 DEF TypeOK, AddFunds
  <2>. QED
    BY <2>1, FiniteStores, SumUpdate DEF CurrentFunds
<1>3. \A q \in Proposals \ {p} : CurrentFunds(q)' = CurrentFunds(q)
  BY DEF AddFunds, CurrentFunds
<1>4. PropFunds' \in [Proposals -> Int]
  <2>1. \A q \in Proposals : CurrentFunds(q)' \in Int
    BY <1>1, FiniteStores, FunSumInt DEF CurrentFunds
  <2>. QED
    BY <2>1 DEF PropFunds
<1>5. PropFunds \in [Proposals -> Int]
  BY TotalInt
<1>6. PropFunds'[p] = PropFunds[p] + amt /\ \A q \in Proposals \ {p} : PropFunds'[q] = PropFunds[q]
  BY <1>2, <1>3 DEF PropFunds
<1>. QED
  BY <1>4, <1>5, <1>6, FiniteStores, SumUpdate

(* Step 8 of runFundProposal never raises the total, and keeps it when no  *)
(* store write fails: only a failed AddFunds whose re-credit fails too     *)
(* loses the debited amount.                                               *)
LEMMA TransferFundsTotal ==
  ASSUME TypeOK, NEW p \in Proposals, NEW a \in Addresses, NEW amt \in FundValues,
         TransferFunds(p, a, amt)
  PROVE  /\ TotalOLT' <= TotalOLT
         /\ ~StoreFaults => TotalOLT' = TotalOLT
<1>1. amt \in Nat
  BY GovernanceAssumption
<1>2. /\ FunSum(olt, Addresses) \in Int
      /\ FunSum(PropFunds, Proposals) \in Int
      /\ TotalOLT = FunSum(olt, Addresses) + FunSum(PropFunds, Proposals)
  BY TotalInt
<1>3. TotalOLT' = FunSum(olt', Addresses) + FunSum(PropFunds', Proposals)
  BY DEF TotalOLT, PropFunds
<1>4. CASE UNCHANGED <<olt, funds>>
  BY <1>2, <1>4, UnchangedTotal
<1>5. CASE olt[a] >= amt /\ olt' = [olt EXCEPT ![a] = @ - amt] /\ AddFunds(p, a, amt)
  <2>1. FunSum(olt', Addresses) = FunSum(olt, Addresses) - amt
    BY <1>1, <1>5, DebitTotal
  <2>2. FunSum(PropFunds', Proposals) = FunSum(PropFunds, Proposals) + amt
    BY <1>1, <1>5, AddFundsTotal
  <2>. QED
    BY <1>1, <1>2, <1>3, <2>1, <2>2
<1>6. CASE olt[a] >= amt /\ StoreFaults /\ olt' = [olt EXCEPT ![a] = @ - amt] /\ UNCHANGED funds
  <2>1. FunSum(PropFunds', Proposals) = FunSum(PropFunds, Proposals)
    BY <1>6 DEF PropFunds, CurrentFunds
  <2>2. FunSum(olt', Addresses) = FunSum(olt, Addresses) - amt
    BY <1>1, <1>6, DebitTotal
  <2>. QED
    BY <1>1, <1>2, <1>3, <1>6, <2>1, <2>2
<1>. QED
  BY <1>4, <1>5, <1>6 DEF TransferFunds

(* Every step of the specification keeps TotalOLT at most where it was,    *)
(* and equal to it when no store write fails.                              *)
LEMMA TotalStep ==
  ASSUME TypeOK, [Next]_vars
  PROVE  /\ TotalOLT' <= TotalOLT
         /\ ~StoreFaults => TotalOLT' = TotalOLT
<1>1. TotalOLT \in Int
  BY TotalInt
<1>2. CASE UNCHANGED <<olt, funds>>
  BY <1>1, <1>2, UnchangedTotal
<1>3. ASSUME NEW p \in Proposals, NEW a \in Addresses, NEW amt \in FundValues,
             FundProposal(p, a, amt)
      PROVE  /\ TotalOLT' <= TotalOLT
             /\ ~StoreFaults => TotalOLT' = TotalOLT
  <2>1. CASE FundBelowGoal(p, a, amt) \/ StartVoting(p, a, amt)
    BY <2>1, TransferFundsTotal DEF FundBelowGoal, StartVoting
  <2>2. CASE SetupFails(p, a, amt) \/ ProposalSetFails(p, a, amt)
    BY <1>1, <2>2, UnchangedTotal DEF SetupFails, ProposalSetFails
  <2>. QED
    BY <1>3, <2>1, <2>2 DEF FundProposal
<1>4. CASE \E p \in Proposals, v \in Validators, o \in Opinions, pw \in VotePowers :
             UpdateVote(p, v, o, pw)
  BY <1>2, <1>4 DEF UpdateVote
<1>5. CASE \E p \in Proposals : DeleteVotes(p)
  BY <1>2, <1>5 DEF DeleteVotes
<1>. QED
  BY <1>2, <1>3, <1>4, <1>5 DEF Next, BeginBlock, Stake, govVars, vars

(* In the initial state every address holds InitOLT and no proposal holds  *)
(* funds, so the total is InitOLT once per address.                        *)
LEMMA InitTotal ==
  Init => TotalOLT = InitOLT * FunSum([a \in Addresses |-> 1], Addresses)
<1>. SUFFICES ASSUME Init
              PROVE  TotalOLT = InitOLT * FunSum([a \in Addresses |-> 1], Addresses)
  OBVIOUS
<1>0. InitOLT \in Int /\ 0 \in Int
  BY GovernanceAssumption
<1>1. FunSum(olt, Addresses) = InitOLT * FunSum([a \in Addresses |-> 1], Addresses)
  <2>1. FunSum([a \in Addresses |-> InitOLT], Addresses)
          = InitOLT * FunSum([a \in Addresses |-> 1], Addresses)
    BY <1>0, FiniteStores, SumConst, Zenon
  <2>. QED
    BY <2>1 DEF Init
<1>2. FunSum([a \in Addresses |-> 0], Addresses) = 0
  <2>1. FunSum([a \in Addresses |-> 1], Addresses) \in Int
    BY FiniteStores, FunSumInt
  <2>2. FunSum([a \in Addresses |-> 0], Addresses)
          = 0 * FunSum([a \in Addresses |-> 1], Addresses)
    BY <1>0, FiniteStores, SumConst, Zenon
  <2>. QED
    BY <2>1, <2>2
<1>3. PropFunds = [p \in Proposals |-> 0]
  BY <1>2 DEF Init, PropFunds, CurrentFunds
<1>4. FunSum(PropFunds, Proposals) = 0
  <2>1. FunSum([p \in Proposals |-> 1], Proposals) \in Int
    BY FiniteStores, FunSumInt
  <2>2. FunSum([p \in Proposals |-> 0], Proposals)
          = 0 * FunSum([p \in Proposals |-> 1], Proposals)
    BY <1>0, FiniteStores, SumConst, Zenon
  <2>3. FunSum([p \in Proposals |-> 0], Proposals) = 0
    BY <2>1, <2>2
  <2>. QED
    BY <1>3, <2>3
<1>5. FunSum([a \in Addresses |-> 1], Addresses) \in Int
  BY FiniteStores, FunSumInt
<1>. QED
  BY <1>1, <1>4, <1>5, GovernanceAssumption DEF TotalOLT, PropFunds

-----------------------------------------------------------------------------
(* Whatever store writes fail, runFundProposal never creates OLT: the sum  *)
(* of all balances and all proposal funds never exceeds the genesis        *)
(* supply.  TypeOK is the only strengthening the induction needs.          *)
THEOREM NoMoneyCreatedHolds == Spec => []NoMoneyCreated
<1>1. Init => NoMoneyCreated
  <2>1. FunSum([a \in Addresses |-> 1], Addresses) \in Int
    BY FiniteStores, FunSumInt
  <2>. QED
    BY <2>1, InitTotal, GovernanceAssumption DEF NoMoneyCreated
<1>2. TypeOK /\ NoMoneyCreated /\ [Next]_vars => NoMoneyCreated'
  <2>. SUFFICES ASSUME TypeOK, NoMoneyCreated, [Next]_vars PROVE NoMoneyCreated'
    OBVIOUS
  <2>1. TotalOLT' <= TotalOLT /\ TotalOLT \in Int
    BY TotalStep, TotalInt
  <2>2. FunSum([a \in Addresses |-> 1], Addresses) \in Int
    BY FiniteStores, FunSumInt
  <2>3. TotalOLT' \in Int
    <3>1. TypeOK'
      BY TypeOKStep
    <3>2. \A q \in Proposals : CurrentFunds(q)' \in Int
      BY <3>1, FiniteStores, FunSumInt DEF TypeOK, CurrentFunds
    <3>3. PropFunds' \in [Proposals -> Int]
      BY <3>2 DEF PropFunds
    <3>4. FunSum(olt', Addresses) \in Int /\ FunSum(PropFunds', Proposals) \in Int
      BY <3>1, <3>3, FiniteStores, FunSumInt DEF TypeOK
    <3>. QED
      BY <3>4 DEF TotalOLT, PropFunds
  <2>. QED
    BY <2>1, <2>2, <2>3, GovernanceAssumption DEF NoMoneyCreated
<1>. QED
  BY <1>1, <1>2, TypeCorrect, PTL DEF Spec

(* When no store write fails (the configuration of run gov_safety),        *)
(* runFundProposal conserves OLT: what it debits from the funder is        *)
(* exactly what AddFunds records for the proposal (spec 8.2).              *)
THEOREM FundsConservedHolds == ~StoreFaults => (Spec => []FundsConserved)
<1>. SUFFICES ASSUME ~StoreFaults PROVE Spec => []FundsConserved
  OBVIOUS
<1>1. Init => FundsConserved
  BY InitTotal DEF FundsConserved
<1>2. TypeOK /\ FundsConserved /\ [Next]_vars => FundsConserved'
  BY TotalStep DEF FundsConserved
<1>. QED
  BY <1>1, <1>2, TypeCorrect, PTL DEF Spec

-----------------------------------------------------------------------------
(* Adding d to one entry of an integer function adds d to its sum.         *)
LEMMA SumExcept ==
  ASSUME NEW S, IsFiniteSet(S), NEW g \in [S -> Int], NEW x \in S, NEW d \in Int
  PROVE  FunSum([g EXCEPT ![x] = g[x] + d], S) = FunSum(g, S) + d
<1>. DEFINE h == [g EXCEPT ![x] = g[x] + d]
<1>1. h \in [S -> Int] /\ h[x] = g[x] + d /\ \A y \in S \ {x} : h[y] = g[y]
  OBVIOUS
<1>. HIDE DEF h
<1>2. \A hh \in [S -> Int] :
        hh[x] = g[x] + d /\ (\A y \in S \ {x} : hh[y] = g[y])
          => FunSum(hh, S) = FunSum(g, S) + d
  BY SumUpdate
<1>. QED
  BY <1>1, <1>2

(* In a well-typed state both terms of VTSupply are integers.              *)
LEMMA VTInt ==
  ASSUME TypeOK
  PROVE  FunSum(vt, Addresses) \in Int /\ FunSum(power, Validators) \in Int
BY FiniteStores, FunSumInt DEF TypeOK, StakingTypeOK

(* A delivered ApplyValidator takes amt from the balances and adds at most *)
(* amt to the validator table.                                             *)
LEMMA ApplyValidatorVT ==
  ASSUME TypeOK, NEW a \in Addresses, NEW v \in Validators, NEW amt \in StakeValues,
         NEW purge \in BOOLEAN, ApplyValidator(a, v, amt, purge)
  PROVE  VTSupply' <= VTSupply
<1>1. amt \in Nat /\ -amt \in Int /\ amt \in Int
      /\ vt \in [Addresses -> Int] /\ power \in [Validators -> Int]
  BY StakingAssumption DEF TypeOK, StakingTypeOK
<1>2. FunSum(vt', Addresses) = FunSum(vt, Addresses) + (-amt)
  <2>1. vt' = [vt EXCEPT ![a] = vt[a] + (-amt)]
    BY <1>1 DEF ApplyValidator
  <2>2. FunSum([vt EXCEPT ![a] = vt[a] + (-amt)], Addresses) = FunSum(vt, Addresses) + (-amt)
    BY <1>1, FiniteStores, SumExcept, Zenon
  <2>. QED
    BY <2>1, <2>2
<1>3. FunSum(power', Validators) <= FunSum(power, Validators) + amt
  <2>0. FunSum(power, Validators) \in Int
    BY <1>1, FiniteStores, FunSumInt
  <2>1. CASE ~purge
    <3>1. power' = [power EXCEPT ![v] = power[v] + amt]
      BY <2>1 DEF ApplyValidator, HandleStake
    <3>2. FunSum([power EXCEPT ![v] = power[v] + amt], Validators) = FunSum(power, Validators) + amt
      BY <1>1, FiniteStores, SumExcept, Zenon
    <3>. QED
      BY <2>0, <3>1, <3>2, <1>1
  <2>2. CASE purge /\ amt <= power[v]
    <3>1. power' = [power EXCEPT ![v] = power[v] + (-amt)]
      BY <2>2, <1>1 DEF ApplyValidator, HandleUnstake
    <3>2. FunSum([power EXCEPT ![v] = power[v] + (-amt)], Validators) = FunSum(power, Validators) + (-amt)
      BY <1>1, FiniteStores, SumExcept, Zenon
    <3>. QED
      BY <2>0, <3>1, <3>2, <1>1
  <2>3. CASE purge /\ ~(amt <= power[v])
    <3>1. power' = power
      BY <2>3 DEF ApplyValidator, HandleUnstake
    <3>. QED
      BY <2>0, <3>1, <1>1
  <2>. QED
    BY <2>1, <2>2, <2>3
<1>4. FunSum(vt, Addresses) \in Int /\ FunSum(power, Validators) \in Int
  BY VTInt
<1>5. FunSum(power', Validators) \in Int
  <2>1. power' \in [Validators -> Int]
    BY <1>1 DEF ApplyValidator, HandleStake, HandleUnstake
  <2>. QED
    BY <2>1, FiniteStores, FunSumInt
<1>. QED
  BY <1>1, <1>2, <1>3, <1>4, <1>5 DEF VTSupply

(* Every step keeps VTSupply at most where it was.                         *)
LEMMA VTStep ==
  ASSUME TypeOK, [Next]_vars
  PROVE  VTSupply' <= VTSupply
<1>1. VTSupply \in Int
  BY VTInt DEF VTSupply
<1>2. CASE UNCHANGED stakingVars
  BY <1>1, <1>2 DEF stakingVars, VTSupply
<1>3. CASE Stake
  BY <1>3, ApplyValidatorVT DEF Stake, StakingNext
<1>. QED
  BY <1>2, <1>3 DEF Next, BeginBlock, FundProposal, UpdateVote, DeleteVotes, vars

(* At genesis every address holds InitVT and the table is InitPower.       *)
LEMMA InitVTSupply ==
  Init => VTSupply = InitVT * FunSum([a \in Addresses |-> 1], Addresses)
                       + FunSum(InitPower, Validators)
<1>. SUFFICES ASSUME Init
              PROVE  VTSupply = InitVT * FunSum([a \in Addresses |-> 1], Addresses)
                                  + FunSum(InitPower, Validators)
  OBVIOUS
<1>1. FunSum([a \in Addresses |-> InitVT], Addresses)
        = InitVT * FunSum([a \in Addresses |-> 1], Addresses)
  <2>1. InitVT \in Int
    BY StakingAssumption
  <2>. QED
    BY <2>1, FiniteStores, SumConst, Zenon
<1>. QED
  BY <1>1 DEF Init, StakingInit, VTSupply

(* Whatever the order of stakes and unstakes, ApplyValidator never         *)
(* creates VT: the balances and the validator table together hold at most  *)
(* the genesis VT.  TypeOK is the only strengthening needed.               *)
THEOREM VTNotCreatedHolds == Spec => []VTNotCreated
<1>0. FunSum([a \in Addresses |-> 1], Addresses) \in Int /\ FunSum(InitPower, Validators) \in Int
  <2>1. InitPower \in [Validators -> Int]
    BY StakingAssumption
  <2>. QED
    BY <2>1, FiniteStores, FunSumInt
<1>1. Init => VTNotCreated
  BY <1>0, InitVTSupply, StakingAssumption DEF VTNotCreated
<1>2. TypeOK /\ VTNotCreated /\ [Next]_vars => VTNotCreated'
  <2>. SUFFICES ASSUME TypeOK, VTNotCreated, [Next]_vars PROVE VTNotCreated'
    OBVIOUS
  <2>1. VTSupply' <= VTSupply /\ VTSupply \in Int
    BY VTStep, VTInt DEF VTSupply
  <2>2. VTSupply' \in Int
    <3>1. TypeOK'
      BY TypeOKStep
    <3>2. FunSum(vt', Addresses) \in Int /\ FunSum(power', Validators) \in Int
      BY <3>1, FiniteStores, FunSumInt DEF TypeOK, StakingTypeOK
    <3>. QED
      BY <3>2 DEF VTSupply
  <2>. QED
    BY <1>0, <2>1, <2>2, StakingAssumption DEF VTNotCreated
<1>. QED
  BY <1>1, <1>2, TypeCorrect, PTL DEF Spec

=============================================================================
