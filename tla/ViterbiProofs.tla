---------------------------- MODULE ViterbiProofs ----------------------------
(***************************************************************************)
(* Why the metrics never saturate and what the decisions are worth, for    *)
(* every memory, period, code and sequence of symbols.                     *)
(*                                                                         *)
(* Two states that agree in all but their newest k bits have predecessors  *)
(* that agree in all but k - 1, by way of the same forgotten bit.  So the  *)
(* metrics of the two are, in every step, at most one branch further apart *)
(* than metrics of states that agreed in one bit more: metrics are never   *)
(* further apart than a branch for every bit of memory and the penalty of  *)
(* the start.  That bounds what a renormalization leaves, and every step   *)
(* until the next one adds at most one branch.                             *)
(*                                                                         *)
(* Without saturation an addition is exact.  A path into a state is a path *)
(* into one of its two predecessors and a branch, whose cost is what the   *)
(* butterfly gives because both polynomials tap the newest and the oldest  *)
(* bit.  So the cheapest path into a state goes on from a cheapest path    *)
(* into the predecessor that is selected, and metrics differ as the costs  *)
(* of the cheapest paths do.                                               *)
(***************************************************************************)
EXTENDS ViterbiPaths, FiniteSetTheorems, WellFoundedInduction, TLAPS

(* All but the newest bits of two states are the same.                     *)
Agree(newest, one, other) == \A bit \in newest + 1 .. Memory : one[bit] = other[bit]

(* How far the metrics of states that agree so may be apart.               *)
Apart(newest) == IF newest = 0 THEN 0 ELSE config.start_penalty + LargestBranch * newest

Near(costs) ==
  \A newest \in 0 .. Memory, one, other \in States :
    Agree(newest, one, other) => costs[one] <= costs[other] + Apart(newest)

Low(costs, steps) ==
  \A state \in States :
    costs[state] <= config.start_penalty + LargestBranch * (Memory + steps)

IInv == TypeOK /\ Near(metrics) /\ Low(metrics, steps_since_renormalize)

-----------------------------------------------------------------------------
LEMMA StateFacts ==
  /\ Zero \in States
  /\ \A state \in States, oldest \in Bits : Old(state, oldest) \in States
  /\ \A state \in States : state[1] \in Bits
  /\ \A state, same \in States : Agree(0, state, same) => state = same
<1>1. Memory \in Nat \ {0}
  BY ConstantsAssumption
<1>2. Zero \in States
  BY DEF Zero, States, Bits
<1>3. ASSUME NEW state \in States, NEW oldest \in Bits
      PROVE  Old(state, oldest) \in States
  BY <1>1 DEF Old, States
<1>4. ASSUME NEW state \in States
      PROVE  state[1] \in Bits
  BY <1>1 DEF States
<1>5. ASSUME NEW state \in States, NEW same \in States, Agree(0, state, same)
      PROVE  state = same
  BY <1>1, <1>5 DEF States, Agree
<1> QED
  BY <1>2, <1>3, <1>4, <1>5

(* A branch costs at most 63.                                              *)
LEMMA BranchFacts ==
  ASSUME NEW soft \in Symbols \X Symbols, NEW state \in States, NEW oldest \in Bits
  PROVE  Branch(state, oldest, soft) \in 0 .. LargestBranch
<1>1. \A polynomial, register : ExpectedBit(polynomial, register) \in {0, Certain}
  BY DEF ExpectedBit
<1>2. soft[1] \in 0 .. 255 /\ soft[2] \in 0 .. 255
  BY ConstantsAssumption DEF Certain
<1>3. \A polynomial, register :
        /\ Difference(ExpectedBit(polynomial, register), soft[1]) \in 0 .. 255
        /\ Difference(ExpectedBit(polynomial, register), soft[2]) \in 0 .. 255
  BY <1>2 DEF Difference, Certain
<1>4. \A first, second \in 0 .. 255 : (first + second + 1) \div 8 \in 0 .. 63
  OBVIOUS
<1>5. ButterflyMetric(state, soft) \in 0 .. 63
  BY <1>3, <1>4 DEF ButterflyMetric
<1> QED
  BY <1>5 DEF Branch, LargestBranch

LEMMA BranchIsNat ==
  \A soft \in Symbols \X Symbols, state \in States, oldest \in Bits :
    Branch(state, oldest, soft) \in Nat
BY BranchFacts DEF LargestBranch

(* The least of some numbers is one of them.                               *)
LEMMA MinFacts ==
  ASSUME NEW Values, Values \subseteq Nat, Values # {}
  PROVE  Min(Values) \in Values /\ \A value \in Values : Min(Values) <= value
<1>1. \E least \in Values : \A value \in Values : ~(<<value, least>> \in OpToRel(<, Nat))
  BY NatLessThanWellFounded, WFMin
<1>2. PICK least \in Values : \A value \in Values : ~(value < least)
  BY <1>1 DEF OpToRel
<1>3. \A value \in Values : least <= value
  BY <1>2
<1> QED
  BY <1>3 DEF Min

LEMMA LeastFacts ==
  ASSUME NEW costs \in [States -> Nat]
  PROVE  /\ \E state \in States : LeastOf(costs) = costs[state]
         /\ \A state \in States : LeastOf(costs) <= costs[state]
<1> DEFINE Values == {costs[state] : state \in States}
<1>1. Values \subseteq Nat /\ Values # {}
  BY StateFacts
<1> HIDE DEF Values
<1>2. Min(Values) \in Values /\ \A value \in Values : Min(Values) <= value
  BY <1>1, MinFacts
<1> QED
  BY <1>2 DEF LeastOf, Values

-----------------------------------------------------------------------------
(* Between two renormalizations no addition wraps.                         *)
LEMMA CandidateFacts ==
  ASSUME IInv, NEW soft \in Symbols \X Symbols, NEW state \in States, NEW oldest \in Bits
  PROVE  /\ Candidate(state, oldest, soft)
              = metrics[Old(state, oldest)] + Branch(state, oldest, soft)
         /\ Candidate(state, oldest, soft) \in 0 .. Modulus - 1
         /\ metrics[Old(state, oldest)] <= Candidate(state, oldest, soft)
         /\ Candidate(state, oldest, soft) <= metrics[Old(state, oldest)] + LargestBranch
<1>1. Old(state, oldest) \in States
  BY StateFacts
<1>2. Branch(state, oldest, soft) \in 0 .. 63
  BY BranchFacts DEF LargestBranch
<1>3. metrics[Old(state, oldest)] \in Nat
  BY <1>1 DEF IInv, TypeOK
<1>4. config.start_penalty \in Nat /\ config.start_penalty + 63 * (Memory + Period) < Modulus
  BY ConstantsAssumption, WidthAssumption DEF IInv, TypeOK, Configs, LargestBranch
<1>5. metrics[Old(state, oldest)] + 63 < Modulus
  <2>1. metrics[Old(state, oldest)]
          <= config.start_penalty + 63 * (Memory + steps_since_renormalize)
    BY <1>1 DEF IInv, Low, LargestBranch
  <2>2. steps_since_renormalize \in 0 .. Period - 1
    BY DEF IInv, TypeOK
  <2> QED
    BY <1>3, <1>4, <2>1, <2>2, ConstantsAssumption
<1>6. Candidate(state, oldest, soft) = metrics[Old(state, oldest)] + Branch(state, oldest, soft)
  <2>1. \A value \in Nat : value < Modulus => value % Modulus = value
    BY ConstantsAssumption
  <2> QED
    BY <1>2, <1>3, <1>5, <2>1, ConstantsAssumption DEF Candidate
<1> QED
  BY <1>2, <1>3, <1>5, <1>6, ConstantsAssumption DEF LargestBranch

LEMMA SelectedFacts ==
  ASSUME IInv, NEW soft \in Symbols \X Symbols
  PROVE  /\ Selected(soft) \in [States -> 0 .. Modulus - 1]
         /\ Near(Selected(soft))
         /\ Low(Selected(soft), steps_since_renormalize + 1)
<1> DEFINE Chosen(state) == IF FromHigh(state, soft) THEN 1 ELSE 0
<1>1. \A state \in States : Chosen(state) \in Bits
  BY DEF Bits
<1>2. \A state \in States : Selected(soft)[state] = Candidate(state, Chosen(state), soft)
  BY DEF Selected
<1> HIDE DEF Chosen
<1>3. Selected(soft) \in [States -> 0 .. Modulus - 1]
  <2>1. \A state \in States : Candidate(state, Chosen(state), soft) \in 0 .. Modulus - 1
    BY <1>1, CandidateFacts
  <2> QED
    BY <2>1 DEF Selected, Chosen
<1>4. ASSUME NEW state \in States, NEW oldest \in Bits
      PROVE  Selected(soft)[state] <= Candidate(state, oldest, soft)
  <2>1. Candidate(state, 0, soft) \in Nat /\ Candidate(state, 1, soft) \in Nat
    BY CandidateFacts DEF Bits
  <2>2. oldest = 0 \/ oldest = 1
    BY DEF Bits
  <2> QED
    BY <1>2, <2>1, <2>2 DEF Chosen, FromHigh
<1>5. Near(Selected(soft))
  <2> SUFFICES ASSUME NEW newest \in 0 .. Memory, NEW one \in States, NEW other \in States,
                      Agree(newest, one, other)
               PROVE  Selected(soft)[one] <= Selected(soft)[other] + Apart(newest)
    BY DEF Near
  <2> DEFINE bit == Chosen(other)
  <2>1. Selected(soft)[one] \in Nat /\ Selected(soft)[other] \in Nat
    BY <1>3, ConstantsAssumption
  <2>2. CASE newest = 0
    BY <2>1, <2>2, StateFacts DEF Apart
  <2>3. CASE newest # 0
    <3>1. bit \in Bits /\ Old(one, bit) \in States /\ Old(other, bit) \in States
      BY <1>1, StateFacts
    <3>2. Agree(newest - 1, Old(one, bit), Old(other, bit))
      BY <2>3, ConstantsAssumption DEF Agree, Old
    <3>3. metrics[Old(one, bit)] <= metrics[Old(other, bit)] + Apart(newest - 1)
      <4>1. newest - 1 \in 0 .. Memory
        BY <2>3, ConstantsAssumption
      <4> QED
        BY <3>1, <3>2, <4>1 DEF IInv, Near
    <3>4. Selected(soft)[one] <= metrics[Old(one, bit)] + 63
      <4>1. Candidate(one, bit, soft) <= metrics[Old(one, bit)] + 63
        BY <3>1, CandidateFacts DEF LargestBranch
      <4>2. Selected(soft)[one] <= Candidate(one, bit, soft)
        BY <1>4, <3>1
      <4>3. metrics[Old(one, bit)] \in Nat /\ Candidate(one, bit, soft) \in Nat
        BY <3>1, CandidateFacts, ConstantsAssumption DEF IInv, TypeOK
      <4> QED
        BY <2>1, <4>1, <4>2, <4>3
    <3>5. metrics[Old(other, bit)] <= Selected(soft)[other]
      BY <1>2, <3>1, CandidateFacts
    <3>6. Apart(newest - 1) + 63 <= Apart(newest) /\ Apart(newest - 1) \in Nat
      <4>1. config.start_penalty \in Nat
        BY ConstantsAssumption DEF IInv, TypeOK, Configs
      <4> QED
        BY <2>3, <4>1, ConstantsAssumption DEF Apart, LargestBranch
    <3>7. metrics[Old(one, bit)] \in Nat /\ metrics[Old(other, bit)] \in Nat
      BY <3>1 DEF IInv, TypeOK
    <3>8. Apart(newest) \in Nat
      <4>1. config.start_penalty \in Nat
        BY ConstantsAssumption DEF IInv, TypeOK, Configs
      <4> QED
        BY <4>1, ConstantsAssumption DEF Apart, LargestBranch
    <3> HIDE DEF bit
    <3> QED
      BY <2>1, <3>3, <3>4, <3>5, <3>6, <3>7, <3>8
  <2> QED
    BY <2>2, <2>3
<1>6. Low(Selected(soft), steps_since_renormalize + 1)
  <2> SUFFICES ASSUME NEW state \in States
               PROVE  Selected(soft)[state]
                        <= config.start_penalty + 63 * (Memory + (steps_since_renormalize + 1))
    BY DEF Low, LargestBranch
  <2>1. Old(state, 0) \in States /\ 0 \in Bits
    BY StateFacts DEF Bits
  <2>2. Candidate(state, 0, soft) <= metrics[Old(state, 0)] + 63
    BY <2>1, CandidateFacts DEF LargestBranch
  <2>3. metrics[Old(state, 0)] <= config.start_penalty + 63 * (Memory + steps_since_renormalize)
    BY <2>1 DEF IInv, Low, LargestBranch
  <2>4. Selected(soft)[state] <= Candidate(state, 0, soft)
    BY <1>4, <2>1
  <2>5. metrics[Old(state, 0)] \in Nat
    BY <2>1 DEF IInv, TypeOK
  <2>6. Candidate(state, 0, soft) \in Nat /\ Selected(soft)[state] \in Nat
    BY <1>3, <2>1, CandidateFacts, ConstantsAssumption
  <2>7. config.start_penalty \in Nat /\ Memory \in Nat
    BY ConstantsAssumption DEF IInv, TypeOK, Configs
  <2>8. steps_since_renormalize \in Nat
    BY ConstantsAssumption DEF IInv, TypeOK
  <2> QED
    BY <2>2, <2>3, <2>4, <2>5, <2>6, <2>7, <2>8
<1> QED
  BY <1>3, <1>5, <1>6

(* What renormalizing leaves is as close together and starts at 0.         *)
LEMMA RenormalizedFacts ==
  ASSUME IInv, NEW costs \in [States -> 0 .. Modulus - 1], Near(costs)
  PROVE  /\ \E by \in Nat : \A state \in States : Renormalized(costs)[state] = costs[state] - by
         /\ Renormalized(costs) \in [States -> 0 .. Modulus - 1]
         /\ Near(Renormalized(costs))
         /\ Low(Renormalized(costs), 0)
<1>1. /\ Modulus \in Nat /\ Memory \in Nat
      /\ config.start_penalty \in Nat
  BY ConstantsAssumption DEF IInv, TypeOK, Configs
<1>2. costs \in [States -> Nat]
  BY <1>1
<1>3. PICK least \in States : LeastOf(costs) = costs[least]
  BY <1>2, LeastFacts
<1>4. \A state \in States : Renormalized(costs)[state] = costs[state] - costs[least]
  <2> SUFFICES ASSUME NEW state \in States
               PROVE  (costs[state] - costs[least]) % Modulus = costs[state] - costs[least]
    BY <1>3 DEF Renormalized
  <2>1. costs[least] <= costs[state]
    BY <1>2, <1>3, LeastFacts
  <2>2. costs[state] \in 0 .. Modulus - 1 /\ costs[least] \in 0 .. Modulus - 1
    OBVIOUS
  <2>3. \A value \in 0 .. Modulus - 1 : value % Modulus = value
    BY <1>1
  <2>4. costs[state] - costs[least] \in 0 .. Modulus - 1
    BY <1>1, <2>1, <2>2
  <2> QED
    BY <2>3, <2>4
<1>5. Renormalized(costs) \in [States -> 0 .. Modulus - 1]
  <2>1. \A state \in States : costs[state] - costs[least] \in 0 .. Modulus - 1
    BY <1>1, <1>2, <1>3, LeastFacts
  <2> QED
    BY <1>4, <2>1 DEF Renormalized
<1>6. Near(Renormalized(costs))
  <2> SUFFICES ASSUME NEW newest \in 0 .. Memory, NEW one \in States, NEW other \in States,
                      Agree(newest, one, other)
               PROVE  Renormalized(costs)[one] <= Renormalized(costs)[other] + Apart(newest)
    BY DEF Near
  <2>1. costs[one] <= costs[other] + Apart(newest)
    BY DEF Near
  <2>2. Apart(newest) \in Nat
    BY <1>1 DEF Apart, LargestBranch
  <2>3. costs[one] \in Nat /\ costs[other] \in Nat /\ costs[least] \in Nat
    BY <1>2
  <2> QED
    BY <1>4, <2>1, <2>2, <2>3
<1>7. Low(Renormalized(costs), 0)
  <2> SUFFICES ASSUME NEW state \in States
               PROVE  Renormalized(costs)[state] <= config.start_penalty + 63 * (Memory + 0)
    BY DEF Low, LargestBranch
  <2>1. Agree(Memory, state, least) /\ Memory \in 0 .. Memory
    BY <1>1 DEF Agree
  <2>2. costs[state] <= costs[least] + Apart(Memory)
    BY <2>1 DEF Near
  <2>3. Apart(Memory) = config.start_penalty + 63 * Memory
    BY ConstantsAssumption DEF Apart, LargestBranch
  <2>4. costs[state] \in Nat /\ costs[least] \in Nat
    BY <1>2
  <2> QED
    BY <1>1, <1>4, <2>2, <2>3, <2>4
<1>8. costs[least] \in Nat
  BY <1>2
<1> QED
  BY <1>4, <1>5, <1>6, <1>7, <1>8

(* The metrics of a start are in their bounds.                             *)
LEMMA StartFacts ==
  ASSUME config \in Configs
  PROVE  /\ StartMetrics(config) \in [States -> 0 .. Modulus - 1]
         /\ Near(StartMetrics(config))
         /\ Low(StartMetrics(config), 0)
<1>1. /\ Memory \in Nat \ {0} /\ Period \in Nat \ {0} /\ Modulus \in Nat
      /\ config.start_penalty \in Nat
      /\ config.start_penalty + 63 * (Memory + Period) < Modulus
  BY ConstantsAssumption, WidthAssumption DEF Configs, LargestBranch
<1>2. \A state \in States : StartMetrics(config)[state] \in {0, config.start_penalty}
  BY DEF StartMetrics
<1>3. StartMetrics(config) \in [States -> 0 .. Modulus - 1]
  <2>1. 0 \in 0 .. Modulus - 1 /\ config.start_penalty \in 0 .. Modulus - 1
    BY <1>1
  <2> QED
    BY <2>1 DEF StartMetrics
<1>4. Near(StartMetrics(config))
  <2> SUFFICES ASSUME NEW newest \in 0 .. Memory, NEW one \in States, NEW other \in States,
                      Agree(newest, one, other)
               PROVE  StartMetrics(config)[one] <= StartMetrics(config)[other] + Apart(newest)
    BY DEF Near
  <2>1. CASE newest = 0
    <3>1. one = other
      BY <2>1, StateFacts
    <3> QED
      BY <1>1, <1>2, <2>1, <3>1 DEF Apart
  <2>2. CASE newest # 0
    <3>1. Apart(newest) = config.start_penalty + 63 * newest
      BY <2>2 DEF Apart, LargestBranch
    <3> QED
      BY <1>1, <1>2, <3>1
  <2> QED
    BY <2>1, <2>2
<1>5. Low(StartMetrics(config), 0)
  BY <1>1, <1>2 DEF Low, LargestBranch
<1> QED
  BY <1>3, <1>4, <1>5

-----------------------------------------------------------------------------
LEMMA Initially == Init => IInv
<1> SUFFICES ASSUME Init
             PROVE  IInv
  OBVIOUS
<1>1. TypeOK
  <2>1. metrics \in [States -> 0 .. Modulus - 1] /\ best_state \in States
    BY StartFacts, StateFacts DEF Init
  <2>2. steps_since_renormalize \in 0 .. Period - 1
    BY ConstantsAssumption DEF Init
  <2>3. /\ decisions \in Seq([States -> Bits]) /\ received \in Seq(Symbols \X Symbols)
        /\ Len(decisions) = Len(received)
    BY DEF Init
  <2> QED
    BY <2>1, <2>2, <2>3 DEF Init, TypeOK
<1>2. Near(metrics) /\ Low(metrics, steps_since_renormalize)
  BY StartFacts DEF Init
<1> QED
  BY <1>1, <1>2 DEF IInv

LEMMA Preserved == IInv /\ [Next]_vars => IInv'
<1> SUFFICES ASSUME IInv, [Next]_vars
             PROVE  IInv'
  OBVIOUS
<1> USE DEF IInv
<1>1. ASSUME NEW soft \in Symbols \X Symbols, Step(soft)
      PROVE  IInv'
  <2>1. /\ Selected(soft) \in [States -> 0 .. Modulus - 1]
        /\ Near(Selected(soft)) /\ Low(Selected(soft), steps_since_renormalize + 1)
    BY SelectedFacts
  <2>2. config' = config
    BY <1>1 DEF Step
  <2>3. /\ metrics' \in [States -> 0 .. Modulus - 1]
        /\ Near(metrics)' /\ Low(metrics, steps_since_renormalize)'
    <3>1. CASE Renormalizing
      <4>1. metrics' = Renormalized(Selected(soft)) /\ steps_since_renormalize' = 0
        BY <1>1, <3>1 DEF Step
      <4>2. /\ Renormalized(Selected(soft)) \in [States -> 0 .. Modulus - 1]
            /\ Near(Renormalized(Selected(soft))) /\ Low(Renormalized(Selected(soft)), 0)
        BY <2>1, RenormalizedFacts
      <4> QED
        BY <2>2, <4>1, <4>2 DEF Near, Low, Apart
    <3>2. CASE ~Renormalizing
      <4>1. metrics' = Selected(soft) /\ steps_since_renormalize' = steps_since_renormalize + 1
        BY <1>1, <3>2 DEF Step
      <4> QED
        BY <2>1, <2>2, <4>1 DEF Near, Low, Apart
    <3> QED
      BY <3>1, <3>2
  <2>4. steps_since_renormalize' \in 0 .. Period - 1
    BY <1>1, ConstantsAssumption DEF Step, TypeOK, Renormalizing
  <2>5. /\ decisions' \in Seq([States -> Bits]) /\ received' \in Seq(Symbols \X Symbols)
        /\ Len(decisions') = Len(received')
    <3>1. [state \in States |-> IF FromHigh(state, soft) THEN 1 ELSE 0] \in [States -> Bits]
      BY DEF Bits
    <3> QED
      BY <1>1, <3>1 DEF Step, TypeOK
  <2>6. config' \in Configs /\ busy' \in BOOLEAN /\ left' \in Nat /\ best_state' \in States
    BY <1>1 DEF Step, TypeOK
  <2> QED
    BY <2>3, <2>4, <2>5, <2>6 DEF TypeOK
<1>2. ASSUME UNCHANGED <<config, metrics, steps_since_renormalize>>
      PROVE  Near(metrics)' /\ Low(metrics, steps_since_renormalize)'
  BY <1>2 DEF Near, Low, Apart
<1>3. ASSUME NEW steps \in StepCounts, Execute(steps)
      PROVE  IInv'
  <2>1. TypeOK'
    BY <1>3, ConstantsAssumption DEF Execute, TypeOK
  <2> QED
    BY <1>2, <1>3, <2>1 DEF Execute
<1>4. ASSUME Return
      PROVE  IInv'
  <2>1. TypeOK'
    BY <1>4 DEF Return, TypeOK
  <2> QED
    BY <1>2, <1>4, <2>1 DEF Return
<1>5. ASSUME Reset
      PROVE  IInv'
  <2>1. /\ StartMetrics(config) \in [States -> 0 .. Modulus - 1]
        /\ Near(StartMetrics(config)) /\ Low(StartMetrics(config), 0)
    BY StartFacts DEF TypeOK
  <2>2. TypeOK'
    BY <1>5, <2>1, ConstantsAssumption DEF Reset, TypeOK
  <2>3. Near(metrics)' /\ Low(metrics, steps_since_renormalize)'
    BY <1>5, <2>1 DEF Reset, Near, Low, Apart
  <2> QED
    BY <2>2, <2>3
<1>6. ASSUME UNCHANGED vars
      PROVE  IInv'
  <2>1. TypeOK'
    BY <1>6 DEF vars, TypeOK
  <2> QED
    BY <1>2, <1>6, <2>1 DEF vars
<1> QED
  BY <1>1, <1>3, <1>4, <1>5, <1>6 DEF Next

LEMMA BoundsImplyRoom == IInv => NeverSaturates
<1> SUFFICES ASSUME IInv, NEW state \in States
             PROVE  metrics[state] + 63 < Modulus
  BY DEF NeverSaturates, LargestBranch
<1>1. metrics[state] <= config.start_penalty + 63 * (Memory + steps_since_renormalize)
  BY DEF IInv, Low, LargestBranch
<1>2. config.start_penalty \in Nat /\ config.start_penalty + 63 * (Memory + Period) < Modulus
  BY ConstantsAssumption, WidthAssumption DEF IInv, TypeOK, Configs, LargestBranch
<1>3. metrics[state] \in Nat /\ steps_since_renormalize \in 0 .. Period - 1
  BY DEF IInv, TypeOK
<1> QED
  BY <1>1, <1>2, <1>3, ConstantsAssumption

(* The decoder's variables have their types.                               *)
THEOREM TypeCorrect == Spec => []TypeOK
<1>1. IInv => TypeOK
  BY DEF IInv
<1> QED
  BY <1>1, Initially, Preserved, PTL DEF Spec

(* Renormalizing every Period steps is enough: no metric of any state ever *)
(* comes within a branch of the end of its range.                          *)
THEOREM NoSaturation == Spec => []NeverSaturates
<1> QED
  BY Initially, Preserved, BoundsImplyRoom, PTL DEF Spec

-----------------------------------------------------------------------------
(* Induction and recursion over the steps.                                 *)

(* A set that holds 0 and every successor holds all numbers.               *)
LEMMA Induction ==
  ASSUME NEW S, 0 \in S, \A n \in Nat : n \in S => n + 1 \in S
  PROVE  \A n \in Nat : n \in S
<1> DEFINE T == {n \in Nat : n \notin S}
<1>1. SUFFICES ASSUME T # {} PROVE FALSE
  OBVIOUS
<1> HIDE DEF T
<1>2. T \subseteq Nat
  BY DEF T
<1>3. PICK x \in T : \A y \in T : ~ (<<y, x>> \in OpToRel(<,Nat))
  BY <1>1, <1>2, WFMin, NatLessThanWellFounded
<1>4. x \in Nat /\ x # 0
  BY <1>3 DEF T
<1>5. x - 1 \in Nat /\ (x - 1) + 1 = x
  BY <1>4
<1>6. x - 1 \notin S
  <2>1. x \notin S
    BY <1>3 DEF T
  <2>2. x - 1 \in S => (x - 1) + 1 \in S
    BY <1>5
  <2>3. QED
    BY <2>1, <2>2, <1>5
<1>7. x - 1 \in T
  BY <1>5, <1>6 DEF T
<1>8. <<x - 1, x>> \in OpToRel(<, Nat)
  BY <1>4, <1>5 DEF OpToRel
<1>9. QED
  BY <1>3, <1>7, <1>8

(* Values that follow from each other, starting from the first, exist.     *)
Follow(Values, first, N, next, f) ==
  /\ f \in [0 .. N -> Values]
  /\ f[0] = first /\ \A i \in 1 .. N : f[i] = next[i][f[i - 1]]

LEMMA Recursion ==
  ASSUME NEW Values, NEW first \in Values, NEW N \in Nat,
         NEW next \in [1 .. N -> [Values -> Values]]
  PROVE  \E f : Follow(Values, first, N, next, f)
<1> DEFINE Upto(n, f) == /\ f \in [0 .. n -> Values] /\ f[0] = first
                         /\ \A i \in 1 .. n : f[i] = next[i][f[i - 1]]
           S == {n \in Nat : n <= N => \E f : Upto(n, f)}
<1>1. 0 \in S
  <2> DEFINE f == [i \in 0 .. 0 |-> first]
  <2>1. f \in [0 .. 0 -> Values] /\ f[0] = first
    OBVIOUS
  <2> HIDE DEF f
  <2>2. Upto(0, f)
    BY <2>1
  <2> QED
    BY <2>2
<1>2. ASSUME NEW n \in Nat, n \in S
      PROVE  n + 1 \in S
  <2>1. SUFFICES ASSUME n + 1 <= N
                 PROVE  \E f : Upto(n + 1, f)
    OBVIOUS
  <2>2. PICK f : Upto(n, f)
    BY <1>2, <2>1
  <2> DEFINE g == [i \in 0 .. n + 1 |-> IF i <= n THEN f[i] ELSE next[n + 1][f[n]]]
  <2>3. next[n + 1][f[n]] \in Values
    BY <2>1, <2>2
  <2>4. g \in [0 .. n + 1 -> Values]
    BY <2>2, <2>3
  <2>5. g[0] = first
    BY <2>2
  <2>6. ASSUME NEW i \in 1 .. n + 1
        PROVE  g[i] = next[i][g[i - 1]]
    <3>1. g[i - 1] = f[i - 1]
      OBVIOUS
    <3>2. CASE i <= n
      BY <3>1, <3>2, <2>2
    <3>3. CASE i = n + 1
      BY <3>1, <3>3, <2>2
    <3> QED
      BY <3>2, <3>3
  <2> HIDE DEF g
  <2>7. Upto(n + 1, g)
    BY <2>4, <2>5, <2>6
  <2> QED
    BY <2>7
<1>3. N \in S
  <2> HIDE DEF S
  <2> QED
    BY <1>1, <1>2, Induction
<1> QED
  BY <1>3 DEF Follow

(* Two functions that start alike and go on alike are alike.               *)
GoOnAlike(N, f, g) ==
  f[0] = g[0] /\ \A i \in 1 .. N : f[i - 1] = g[i - 1] => f[i] = g[i]

LEMMA SameRecursion ==
  ASSUME NEW N \in Nat, NEW f, NEW g, GoOnAlike(N, f, g)
  PROVE  \A i \in 0 .. N : f[i] = g[i]
<1> DEFINE S == {n \in Nat : n <= N => f[n] = g[n]}
<1>1. 0 \in S
  BY DEF GoOnAlike
<1>2. ASSUME NEW n \in Nat, n \in S
      PROVE  n + 1 \in S
  <2>1. SUFFICES ASSUME n + 1 <= N
                 PROVE  f[n + 1] = g[n + 1]
    OBVIOUS
  <2>2. f[n] = g[n]
    BY <1>2, <2>1
  <2>3. n + 1 \in 1 .. N /\ (n + 1) - 1 = n
    BY <2>1
  <2> QED
    BY <2>2, <2>3 DEF GoOnAlike
<1>3. \A n \in Nat : n \in S
  <2> HIDE DEF S
  <2> QED
    BY <1>1, <1>2, Induction
<1> QED
  BY <1>3

-----------------------------------------------------------------------------
(* Costs of paths for any configuration and symbols, those of a next state *)
(* included.                                                               *)

Heard == Seq(Symbols \X Symbols)
PathsOf(heard) == [1 .. Memory + Len(heard) -> Bits]

DistanceOf(chosen, heard, path, step) ==
  LET register == Register(StateAfter(path, step - 1), path[Memory + step])
  IN  Difference(ExpectedBit(chosen.polynomial_a, register), heard[step][1])
        + Difference(ExpectedBit(chosen.polynomial_b, register), heard[step][2])

CostOf(chosen, heard, path, step) ==
  (DistanceOf(chosen, heard, path, step)
     + (IF path[step] = path[Memory + step] THEN 1 ELSE 0)) \div 8

TotalOf(chosen, heard, path) ==
  LET total[step \in 0 .. Len(heard)] ==
        IF step = 0 THEN StartMetrics(chosen)[StateAfter(path, 0)]
        ELSE total[step - 1] + CostOf(chosen, heard, path, step)
  IN  total[Len(heard)]

Into(heard, state) == {path \in PathsOf(heard) : StateAfter(path, Len(heard)) = state}

LeastOver(chosen, heard) ==
  [state \in States |-> Min({TotalOf(chosen, heard, path) : path \in Into(heard, state)})]

Adds(chosen, heard, path, total) ==
  /\ total \in [0 .. Len(heard) -> Nat]
  /\ total[0] = StartMetrics(chosen)[StateAfter(path, 0)]
  /\ \A step \in 1 .. Len(heard) :
       total[step] = total[step - 1] + CostOf(chosen, heard, path, step)

LEMMA TotalOfState == \A path : Total(path) = TotalOf(config, received, path)
BY DEF Total, TotalOf, Cost, CostOf, Distance, DistanceOf, Steps

LEMMA LeastOfState == Least = LeastOver(config, received)
<1>1. Paths = PathsOf(received)
  BY DEF Paths, PathsOf, Steps
<1>2. ASSUME NEW state
      PROVE  {[any \in Paths |-> Total(any)][path] :
                  path \in {p \in Paths : StateAfter(p, Steps) = state}}
               = {TotalOf(config, received, path) : path \in Into(received, state)}
  BY <1>1, TotalOfState DEF Into, Steps
<1> QED
  BY <1>2 DEF Least, LeastOver

LEMMA PathFacts ==
  ASSUME NEW heard \in Heard, NEW path \in PathsOf(heard)
  PROVE  /\ Len(heard) \in Nat
         /\ \A step \in 0 .. Len(heard) : StateAfter(path, step) \in States
<1>1. Memory \in Nat \ {0} /\ Len(heard) \in Nat
  BY ConstantsAssumption DEF Heard
<1>2. ASSUME NEW step \in 0 .. Len(heard), NEW bit \in 1 .. Memory
      PROVE  path[Memory + step + 1 - bit] \in Bits
  BY <1>1 DEF PathsOf
<1> QED
  BY <1>1, <1>2 DEF StateAfter, States

LEMMA CostIsNat ==
  ASSUME NEW chosen, NEW heard \in Heard, NEW path, NEW step \in 1 .. Len(heard)
  PROVE  CostOf(chosen, heard, path, step) \in Nat
<1>1. heard[step][1] \in 0 .. 255 /\ heard[step][2] \in 0 .. 255
  <2>1. heard[step] \in Symbols \X Symbols
    BY DEF Heard
  <2>2. Symbols \subseteq 0 .. 255
    BY ConstantsAssumption DEF Certain
  <2> QED
    BY <2>1, <2>2
<1>2. \A expected, symbol : symbol \in 0 .. 255 => Difference(expected, symbol) \in 0 .. 255
  BY DEF Difference, Certain
<1>3. DistanceOf(chosen, heard, path, step) \in 0 .. 510
  <2>1. \A one, other \in 0 .. 255 : one + other \in 0 .. 510
    OBVIOUS
  <2> QED
    BY <1>1, <1>2, <2>1 DEF DistanceOf
<1>4. \A distance \in 0 .. 510 : distance \div 8 \in Nat /\ (distance + 1) \div 8 \in Nat
                                 /\ distance + 0 = distance
  OBVIOUS
<1> QED
  BY <1>3, <1>4 DEF CostOf

(* The total of a path is the last of sums that start with the metric of   *)
(* its start and grow by its costs.                                        *)
LEMMA TotalFacts ==
  ASSUME NEW chosen \in Configs, NEW heard \in Heard, NEW path \in PathsOf(heard)
  PROVE  \E total : /\ Adds(chosen, heard, path, total)
                    /\ TotalOf(chosen, heard, path) = total[Len(heard)]
<1> DEFINE start == StartMetrics(chosen)[StateAfter(path, 0)]
           next == [step \in 1 .. Len(heard) |->
                      [sum \in Nat |-> sum + CostOf(chosen, heard, path, step)]]
           Is(total) == total = [step \in 0 .. Len(heard) |->
                                   IF step = 0 THEN start
                                   ELSE total[step - 1] + CostOf(chosen, heard, path, step)]
<1>1. Len(heard) \in Nat
  BY PathFacts
<1>2. start \in Nat
  <2>1. StateAfter(path, 0) \in States
    BY PathFacts
  <2> QED
    BY <2>1, ConstantsAssumption DEF StartMetrics, Configs
<1>3. next \in [1 .. Len(heard) -> [Nat -> Nat]]
  BY CostIsNat
<1>4. \A step \in 1 .. Len(heard), sum \in Nat :
        next[step][sum] = sum + CostOf(chosen, heard, path, step)
  OBVIOUS
<1> HIDE DEF start, next
<1>5. PICK total : Follow(Nat, start, Len(heard), next, total)
  BY <1>1, <1>2, <1>3, Recursion
<1>6. \A step \in 1 .. Len(heard) :
        total[step] = total[step - 1] + CostOf(chosen, heard, path, step)
  <2> SUFFICES ASSUME NEW step \in 1 .. Len(heard)
               PROVE  total[step] = total[step - 1] + CostOf(chosen, heard, path, step)
    OBVIOUS
  <2>1. step - 1 \in 0 .. Len(heard)
    BY <1>1
  <2>2. total[step - 1] \in Nat
    BY <1>5, <2>1 DEF Follow
  <2> QED
    BY <1>4, <1>5, <2>2 DEF Follow
<1>7. Is(total)
  <2> DEFINE values == [step \in 0 .. Len(heard) |->
                          IF step = 0 THEN start
                          ELSE total[step - 1] + CostOf(chosen, heard, path, step)]
  <2>1. ASSUME NEW step \in 0 .. Len(heard)
        PROVE  total[step] = values[step]
    BY <1>1, <1>5, <1>6 DEF Follow
  <2> HIDE DEF values
  <2>2. DOMAIN values = 0 .. Len(heard)
    BY DEF values
  <2>3. values = [step \in 0 .. Len(heard) |-> values[step]]
    BY DEF values
  <2>4. total = [step \in 0 .. Len(heard) |-> total[step]]
    BY <1>5 DEF Follow
  <2>5. total = values
    BY <2>1, <2>3, <2>4
  <2> QED
    BY <2>5 DEF values
<1> DEFINE that == CHOOSE f : Is(f)
<1>8. Is(that)
  BY <1>7
<1>9. TotalOf(chosen, heard, path) = that[Len(heard)]
  BY DEF TotalOf, start
<1> HIDE DEF that
<1>10. that[0] = start /\ \A step \in 1 .. Len(heard) :
         that[step] = that[step - 1] + CostOf(chosen, heard, path, step)
  BY <1>1, <1>8
<1> HIDE DEF Is
<1>11. \A step \in 0 .. Len(heard) : that[step] = total[step]
  <2>1. GoOnAlike(Len(heard), that, total)
    BY <1>5, <1>6, <1>10 DEF Follow, GoOnAlike
  <2> QED
    BY <1>1, <2>1, SameRecursion
<1>12. Adds(chosen, heard, path, total)
  BY <1>5, <1>6 DEF Follow, Adds, start
<1> QED
  BY <1>1, <1>9, <1>11, <1>12

-----------------------------------------------------------------------------
(* One more step.                                                          *)

Shorter(heard, path) == [bit \in 1 .. Memory + Len(heard) |-> path[bit]]

LEMMA AppendFacts ==
  ASSUME NEW heard \in Heard, NEW soft \in Symbols \X Symbols
  PROVE  /\ Append(heard, soft) \in Heard
         /\ Len(heard) \in Nat /\ Len(Append(heard, soft)) = Len(heard) + 1
         /\ \A step \in 1 .. Len(heard) : Append(heard, soft)[step] = heard[step]
         /\ Append(heard, soft)[Len(heard) + 1] = soft
BY DEF Heard

(* The costs of a path up to a step do not depend on what follows.         *)
LEMMA ShorterFacts ==
  ASSUME NEW chosen \in Configs, NEW heard \in Heard, NEW soft \in Symbols \X Symbols,
         NEW path \in PathsOf(Append(heard, soft))
  PROVE  /\ Shorter(heard, path) \in PathsOf(heard)
         /\ \A step \in 0 .. Len(heard) :
              StateAfter(Shorter(heard, path), step) = StateAfter(path, step)
         /\ TotalOf(chosen, Append(heard, soft), path)
              = TotalOf(chosen, heard, Shorter(heard, path))
                  + CostOf(chosen, Append(heard, soft), path, Len(heard) + 1)
         /\ TotalOf(chosen, heard, Shorter(heard, path)) \in Nat
<1> DEFINE longer == Append(heard, soft)
           short == Shorter(heard, path)
<1>1. /\ longer \in Heard /\ Len(heard) \in Nat /\ Len(longer) = Len(heard) + 1
      /\ \A step \in 1 .. Len(heard) : longer[step] = heard[step]
  BY AppendFacts
<1>2. path \in PathsOf(longer)
  OBVIOUS
<1> HIDE DEF longer
<1>3. Memory \in Nat \ {0}
  BY ConstantsAssumption
<1>4. short \in PathsOf(heard) /\ \A bit \in 1 .. Memory + Len(heard) : short[bit] = path[bit]
  BY <1>1, <1>2, <1>3 DEF Shorter, PathsOf
<1> HIDE DEF short
<1>5. ASSUME NEW step \in 0 .. Len(heard)
      PROVE  StateAfter(short, step) = StateAfter(path, step)
  <2>1. \A bit \in 1 .. Memory : short[Memory + step + 1 - bit] = path[Memory + step + 1 - bit]
    BY <1>1, <1>3, <1>4
  <2> QED
    BY <2>1 DEF StateAfter
<1>6. ASSUME NEW step \in 1 .. Len(heard)
      PROVE  CostOf(chosen, longer, path, step) = CostOf(chosen, heard, short, step)
  <2>1. StateAfter(short, step - 1) = StateAfter(path, step - 1)
    BY <1>1, <1>5
  <2>2. short[step] = path[step] /\ short[Memory + step] = path[Memory + step]
    BY <1>1, <1>3, <1>4
  <2> QED
    BY <1>1, <2>1, <2>2 DEF CostOf, DistanceOf
<1>7. PICK total : /\ Adds(chosen, longer, path, total)
                   /\ TotalOf(chosen, longer, path) = total[Len(longer)]
  BY <1>1, <1>2, TotalFacts
<1>8. PICK part : /\ Adds(chosen, heard, short, part)
                  /\ TotalOf(chosen, heard, short) = part[Len(heard)]
  BY <1>4, TotalFacts
<1>9. total[Len(heard)] = part[Len(heard)]
  <2>1. GoOnAlike(Len(heard), total, part)
    <3>1. total[0] = part[0]
      BY <1>1, <1>5, <1>7, <1>8 DEF Adds
    <3>2. \A step \in 1 .. Len(heard) :
            /\ total[step] = total[step - 1] + CostOf(chosen, longer, path, step)
            /\ part[step] = part[step - 1] + CostOf(chosen, heard, short, step)
      BY <1>1, <1>7, <1>8 DEF Adds
    <3> QED
      BY <1>6, <3>1, <3>2 DEF GoOnAlike
  <2> QED
    BY <1>1, <2>1, SameRecursion
<1>10. total[Len(heard) + 1]
         = total[Len(heard)] + CostOf(chosen, longer, path, Len(heard) + 1)
  <2>1. Len(heard) + 1 \in 1 .. Len(longer) /\ (Len(heard) + 1) - 1 = Len(heard)
    BY <1>1
  <2> QED
    BY <1>7, <2>1 DEF Adds
<1>11. part[Len(heard)] \in Nat
  BY <1>1, <1>8 DEF Adds
<1>12. /\ TotalOf(chosen, longer, path)
            = TotalOf(chosen, heard, short) + CostOf(chosen, longer, path, Len(heard) + 1)
       /\ TotalOf(chosen, heard, short) \in Nat
  BY <1>1, <1>7, <1>8, <1>9, <1>10, <1>11
<1> QED
  BY <1>4, <1>5, <1>12 DEF longer, short

(* A tap more or less that sees a 1 turns the code bit around.             *)
LEMMA FlippedBit ==
  ASSUME NEW polynomial, IsFiniteSet(polynomial), NEW tap \in polynomial,
         NEW low, NEW high, low[tap] = 0, high[tap] = 1,
         \A other \in polynomial : other # tap => low[other] = high[other]
  PROVE  ExpectedBit(polynomial, high) = Certain - ExpectedBit(polynomial, low)
<1> DEFINE Ones(register) == {t \in polynomial : register[t] = 1}
<1>1. Ones(high) = Ones(low) \cup {tap} /\ tap \notin Ones(low)
  OBVIOUS
<1>2. IsFiniteSet(Ones(low))
  BY FS_Subset
<1>3. ExpectedBit(polynomial, high) = (IF Cardinality(Ones(high)) % 2 = 1 THEN 255 ELSE 0)
  BY DEF ExpectedBit, Certain
<1>4. ExpectedBit(polynomial, low) = (IF Cardinality(Ones(low)) % 2 = 1 THEN 255 ELSE 0)
  BY DEF ExpectedBit, Certain
<1> HIDE DEF Ones
<1>5. Cardinality(Ones(high)) = Cardinality(Ones(low)) + 1
  BY <1>1, <1>2, FS_AddElement
<1>6. Cardinality(Ones(low)) \in Nat
  BY <1>2, FS_CardinalityType
<1>7. \A n \in Nat : (n + 1) % 2 = 1 <=> ~(n % 2 = 1)
  OBVIOUS
<1> QED
  BY <1>3, <1>4, <1>5, <1>6, <1>7 DEF Certain

(* The other branches of a butterfly expect the same code bits as the      *)
(* first one, or the complementary ones.                                   *)
LEMMA ButterflyBits ==
  ASSUME NEW polynomial \in Polynomials, NEW state \in States,
         NEW oldest \in Bits, NEW new \in Bits
  PROVE  LET first == ExpectedBit(polynomial, Register(Old(state, 0), 0))
         IN  /\ first \in {0, 255}
             /\ ExpectedBit(polynomial, Register(Old(state, oldest), new))
                  = IF oldest = new THEN first ELSE 255 - first
<1> DEFINE R(w, o) == Register(Old(state, o), w)
           E(w, o) == ExpectedBit(polynomial, R(w, o))
<1>1. Memory \in Nat \ {0} /\ polynomial \subseteq 1 .. Memory + 1
  BY ConstantsAssumption
<1>2. 1 \in polynomial /\ Memory + 1 \in polynomial
  BY TapsAssumption
<1>3. IsFiniteSet(polynomial)
  <2>1. IsFiniteSet(1 .. Memory + 1)
    BY <1>1, FS_Interval
  <2> QED
    BY <1>1, <2>1, FS_Subset
<1>4. \A w, o : R(w, o)[1] = w /\ R(w, o)[Memory + 1] = o
  BY <1>1 DEF Register, Old
<1>5. \A w, o, w2, o2 : \A tap \in polynomial :
        tap # 1 /\ tap # Memory + 1 => R(w, o)[tap] = R(w2, o2)[tap]
  <2> SUFFICES ASSUME NEW tap \in 1 .. Memory + 1, tap # 1, tap # Memory + 1
               PROVE  \A w, o : R(w, o)[tap] = state[tap]
    BY <1>1
  <2>1. tap - 1 \in 1 .. Memory /\ tap - 1 # Memory /\ (tap - 1) + 1 = tap
    BY <1>1
  <2> QED
    BY <2>1 DEF Register, Old
<1>6. \A w, o : E(w, o) \in {0, 255}
  BY DEF ExpectedBit, Certain
<1> HIDE DEF R
<1>7. \A w : E(w, 1) = 255 - E(w, 0)
  <2> SUFFICES ASSUME NEW w
               PROVE  E(w, 1) = Certain - E(w, 0)
    BY DEF Certain
  <2>1. R(w, 0)[Memory + 1] = 0 /\ R(w, 1)[Memory + 1] = 1
    BY <1>4
  <2>2. \A other \in polynomial : other # Memory + 1 => R(w, 0)[other] = R(w, 1)[other]
    BY <1>4, <1>5
  <2> QED
    BY <1>2, <1>3, <2>1, <2>2, FlippedBit
<1>8. \A o : E(1, o) = 255 - E(0, o)
  <2> SUFFICES ASSUME NEW o
               PROVE  E(1, o) = Certain - E(0, o)
    BY DEF Certain
  <2>1. R(0, o)[1] = 0 /\ R(1, o)[1] = 1
    BY <1>4
  <2>2. \A other \in polynomial : other # 1 => R(0, o)[other] = R(1, o)[other]
    BY <1>4, <1>5
  <2> QED
    BY <1>2, <1>3, <2>1, <2>2, FlippedBit
<1>9. E(0, 0) \in {0, 255}
  BY <1>6
<1> HIDE DEF E
<1>10. E(new, oldest) = IF oldest = new THEN E(0, 0) ELSE 255 - E(0, 0)
  BY <1>7, <1>8, <1>9 DEF Bits
<1> QED
  BY <1>9, <1>10 DEF E, R

(* What a step adds to a path is the branch the decoder counts.            *)
LEMMA CostIsBranch ==
  ASSUME config \in Configs, NEW heard \in Heard, NEW soft \in Symbols \X Symbols,
         NEW path \in PathsOf(Append(heard, soft)), NEW state \in States,
         StateAfter(path, Len(heard) + 1) = state
  PROVE  /\ path[Len(heard) + 1] \in Bits
         /\ Old(state, path[Len(heard) + 1]) = StateAfter(path, Len(heard))
         /\ CostOf(config, Append(heard, soft), path, Len(heard) + 1)
              = Branch(state, path[Len(heard) + 1], soft)
<1> DEFINE n == Len(heard)
           oldest == path[n + 1]
           new == path[Memory + (n + 1)]
<1>1. /\ n \in Nat /\ Append(heard, soft) \in Heard /\ Len(Append(heard, soft)) = n + 1
      /\ Append(heard, soft)[n + 1] = soft
  BY AppendFacts
<1>2. Memory \in Nat \ {0}
  BY ConstantsAssumption
<1>3. \A bit \in 1 .. Memory + (n + 1) : path[bit] \in Bits
  BY <1>1 DEF PathsOf
<1>4. oldest \in Bits /\ new \in Bits
  BY <1>1, <1>2, <1>3
<1>5. state[1] = new
  BY <1>1, <1>2 DEF StateAfter
<1>6. Old(state, oldest) = StateAfter(path, n)
  <2>1. ASSUME NEW bit \in 1 .. Memory
        PROVE  (IF bit = Memory THEN oldest ELSE state[bit + 1]) = path[Memory + n + 1 - bit]
    <3>1. CASE bit = Memory
      <4>1. Memory + n + 1 - bit = n + 1
        BY <1>1, <1>2, <3>1
      <4> QED
        BY <3>1, <4>1
    <3>2. CASE bit # Memory
      <4>1. bit + 1 \in 1 .. Memory
        BY <1>2, <3>2
      <4>2. state[bit + 1] = path[Memory + (n + 1) + 1 - (bit + 1)]
        BY <4>1 DEF StateAfter
      <4>3. Memory + (n + 1) + 1 - (bit + 1) = Memory + n + 1 - bit
        BY <1>1, <1>2
      <4> QED
        BY <3>2, <4>2, <4>3
    <3> QED
      BY <3>1, <3>2
  <2> QED
    BY <2>1 DEF Old, StateAfter
<1>7. /\ config.polynomial_a \in Polynomials /\ config.polynomial_b \in Polynomials
  BY DEF Configs
<1>8. PICK sa \in 0 .. 255, sb \in 0 .. 255 : soft[1] = sa /\ soft[2] = sb
  BY ConstantsAssumption DEF Certain
<1>9. PICK ea \in {0, 255}, eb \in {0, 255} :
        /\ ea = ExpectedBit(config.polynomial_a, Register(Old(state, 0), 0))
        /\ eb = ExpectedBit(config.polynomial_b, Register(Old(state, 0), 0))
        /\ ExpectedBit(config.polynomial_a, Register(Old(state, oldest), new))
             = IF oldest = new THEN ea ELSE 255 - ea
        /\ ExpectedBit(config.polynomial_b, Register(Old(state, oldest), new))
             = IF oldest = new THEN eb ELSE 255 - eb
  BY <1>4, <1>7, ButterflyBits
<1>10. PICK a \in 0 .. 255, b \in 0 .. 255 :
         /\ a = Difference(ea, sa) /\ Difference(255 - ea, sa) = 255 - a
         /\ b = Difference(eb, sb) /\ Difference(255 - eb, sb) = 255 - b
  <2>1. ASSUME NEW e \in {0, 255}, NEW s \in 0 .. 255
        PROVE  Difference(e, s) \in 0 .. 255 /\ Difference(255 - e, s) = 255 - Difference(e, s)
    <3>1. s \in 0 .. 255 /\ 255 - s \in 0 .. 255 /\ 255 - (255 - s) = s
      OBVIOUS
    <3>2. Difference(0, s) = s /\ Difference(255, s) = 255 - s
      BY DEF Difference, Certain
    <3>3. CASE e = 0
      <4>1. 255 - e = 255
        BY <3>3
      <4>2. Difference(e, s) = s /\ Difference(255 - e, s) = 255 - s
        BY <3>2, <3>3, <4>1, Zenon
      <4>3. Difference(e, s) \in 0 .. 255
        BY <3>1, <4>2, Zenon
      <4>4. 255 - Difference(e, s) = 255 - s
        BY <4>2, Zenon
      <4> QED
        BY <4>2, <4>3, <4>4
    <3>4. CASE e = 255
      <4>1. 255 - e = 0
        BY <3>4
      <4>2. Difference(e, s) = 255 - s /\ Difference(255 - e, s) = s
        BY <3>2, <3>4, <4>1, Zenon
      <4>3. 255 - Difference(e, s) = s
        BY <3>1, <4>2, Zenon
      <4> QED
        BY <3>1, <4>2, <4>3, Zenon
    <3> QED
      BY <3>3, <3>4
  <2> DEFINE Extremes == {0, 255}
             Bytes == 0 .. 255
  <2>2. /\ \A e \in Extremes, s \in Bytes :
             Difference(e, s) \in Bytes /\ Difference(255 - e, s) = 255 - Difference(e, s)
        /\ ea \in Extremes /\ eb \in Extremes /\ sa \in Bytes /\ sb \in Bytes
    BY <2>1
  <2> HIDE DEF Extremes, Bytes
  <2>3. /\ Difference(ea, sa) \in Bytes /\ Difference(255 - ea, sa) = 255 - Difference(ea, sa)
        /\ Difference(eb, sb) \in Bytes /\ Difference(255 - eb, sb) = 255 - Difference(eb, sb)
    BY <2>2
  <2>4. \E a \in Bytes, b \in Bytes :
          /\ a = Difference(ea, sa) /\ Difference(255 - ea, sa) = 255 - a
          /\ b = Difference(eb, sb) /\ Difference(255 - eb, sb) = 255 - b
    <3> USE <2>3
    <3> WITNESS Difference(ea, sa) \in Bytes, Difference(eb, sb) \in Bytes
    <3> QED
      BY Zenon
  <2> QED
    BY <2>4, Zenon DEF Bytes
<1>11. a + b \in 0 .. 510
  OBVIOUS
<1>12. DistanceOf(config, Append(heard, soft), path, n + 1)
         = IF oldest = new THEN a + b ELSE (255 - a) + (255 - b)
  <2>1. (n + 1) - 1 = n
    BY <1>1
  <2>2. DistanceOf(config, Append(heard, soft), path, n + 1)
          = Difference(ExpectedBit(config.polynomial_a, Register(Old(state, oldest), new)), soft[1])
              + Difference(ExpectedBit(config.polynomial_b, Register(Old(state, oldest), new)), soft[2])
    BY <1>1, <1>6, <2>1 DEF DistanceOf
  <2> HIDE DEF oldest, new
  <2> QED
    BY <1>8, <1>9, <1>10, <2>2
<1>13. ButterflyMetric(state, soft) = (a + b + 1) \div 8
  BY <1>8, <1>9, <1>10 DEF ButterflyMetric
<1>14. (510 - (a + b)) \div 8 = 63 - ((a + b + 1) \div 8)
  <2>1. \A d \in 0 .. 510 : (510 - d) \div 8 = 63 - ((d + 1) \div 8)
    OBVIOUS
  <2> QED
    BY <1>11, <2>1
<1>15. CostOf(config, Append(heard, soft), path, n + 1) = Branch(state, oldest, soft)
  <2>1. CostOf(config, Append(heard, soft), path, n + 1)
          = (DistanceOf(config, Append(heard, soft), path, n + 1)
               + (IF oldest = new THEN 1 ELSE 0)) \div 8
    BY DEF CostOf
  <2> HIDE DEF oldest, new
  <2>2. CASE oldest = new
    BY <1>5, <1>12, <1>13, <2>1, <2>2 DEF Branch
  <2>3. CASE oldest # new
    <3>1. (255 - a) + (255 - b) + 0 = 510 - (a + b)
      BY <1>11
    <3> QED
      BY <1>5, <1>12, <1>13, <1>14, <2>1, <2>3, <3>1 DEF Branch, LargestBranch
  <2> QED
    BY <2>2, <2>3
<1> QED
  BY <1>4, <1>6, <1>15

-----------------------------------------------------------------------------
(* The cheapest paths.                                                     *)

(* Every state can be the end of a path.                                   *)
LEMMA SomePath ==
  ASSUME NEW heard \in Heard, NEW state \in States
  PROVE  Into(heard, state) # {}
<1> DEFINE n == Len(heard)
           path == [bit \in 1 .. Memory + n |-> IF bit <= n THEN 0 ELSE state[Memory + n + 1 - bit]]
<1>1. n \in Nat /\ Memory \in Nat \ {0}
  BY ConstantsAssumption DEF Heard
<1>2. \A bit \in 1 .. Memory : state[bit] \in Bits
  BY DEF States
<1>3. path \in PathsOf(heard)
  <2>1. ASSUME NEW bit \in 1 .. Memory + n, ~(bit <= n)
        PROVE  state[Memory + n + 1 - bit] \in Bits
    BY <1>1, <1>2, <2>1
  <2> QED
    BY <2>1 DEF PathsOf, Bits
<1>4. StateAfter(path, n) = state
  <2>1. ASSUME NEW bit \in 1 .. Memory
        PROVE  path[Memory + n + 1 - bit] = state[bit]
    <3>1. /\ Memory + n + 1 - bit \in 1 .. Memory + n /\ ~(Memory + n + 1 - bit <= n)
          /\ Memory + n + 1 - (Memory + n + 1 - bit) = bit
      BY <1>1
    <3> QED
      BY <3>1
  <2> HIDE DEF path
  <2>2. state = [bit \in 1 .. Memory |-> state[bit]]
    BY DEF States
  <2>3. StateAfter(path, n) = [bit \in 1 .. Memory |-> path[Memory + n + 1 - bit]]
    BY DEF StateAfter
  <2> QED
    BY <2>1, <2>2, <2>3
<1> HIDE DEF path
<1>5. path \in Into(heard, state)
  BY <1>3, <1>4 DEF Into
<1> QED
  BY <1>5

LEMMA TotalIsNat ==
  ASSUME NEW chosen \in Configs, NEW heard \in Heard, NEW path \in PathsOf(heard)
  PROVE  TotalOf(chosen, heard, path) \in Nat
<1>1. PICK total : Adds(chosen, heard, path, total) /\ TotalOf(chosen, heard, path) = total[Len(heard)]
  BY TotalFacts
<1>2. Len(heard) \in 0 .. Len(heard)
  BY PathFacts
<1> QED
  BY <1>1, <1>2 DEF Adds

LEMMA LeastOverFacts ==
  ASSUME NEW chosen \in Configs, NEW heard \in Heard, NEW state \in States
  PROVE  /\ LeastOver(chosen, heard)[state] \in Nat
         /\ \E path \in Into(heard, state) :
              TotalOf(chosen, heard, path) = LeastOver(chosen, heard)[state]
         /\ \A path \in Into(heard, state) :
              LeastOver(chosen, heard)[state] <= TotalOf(chosen, heard, path)
<1> DEFINE Totals == {TotalOf(chosen, heard, path) : path \in Into(heard, state)}
<1>1. Totals \subseteq Nat
  BY TotalIsNat DEF Into
<1>2. Totals # {}
  BY SomePath
<1>3. LeastOver(chosen, heard)[state] = Min(Totals)
  BY DEF LeastOver
<1>4. \A path \in Into(heard, state) : TotalOf(chosen, heard, path) \in Totals
  OBVIOUS
<1>5. \A total \in Totals : \E path \in Into(heard, state) : TotalOf(chosen, heard, path) = total
  OBVIOUS
<1> HIDE DEF Totals
<1>6. Min(Totals) \in Totals /\ \A total \in Totals : Min(Totals) <= total
  BY <1>1, <1>2, MinFacts
<1> QED
  BY <1>1, <1>3, <1>4, <1>5, <1>6

(* A path goes on into a state from the states that may precede it.        *)
Longer(heard, path, new) ==
  [bit \in 1 .. Memory + (Len(heard) + 1) |-> IF bit <= Memory + Len(heard) THEN path[bit] ELSE new]

LEMMA LongerFacts ==
  ASSUME NEW heard \in Heard, NEW soft \in Symbols \X Symbols, NEW state \in States,
         NEW oldest \in Bits, NEW path \in Into(heard, Old(state, oldest))
  PROVE  /\ Longer(heard, path, state[1]) \in Into(Append(heard, soft), state)
         /\ Shorter(heard, Longer(heard, path, state[1])) = path
         /\ Longer(heard, path, state[1])[Len(heard) + 1] = oldest
<1> DEFINE n == Len(heard)
           long == Longer(heard, path, state[1])
<1>1. n \in Nat /\ Len(Append(heard, soft)) = n + 1 /\ Memory \in Nat \ {0}
  BY AppendFacts, ConstantsAssumption
<1>2. \A bit \in 1 .. Memory : state[bit] \in Bits
  BY DEF States
<1>3. /\ path \in [1 .. Memory + n -> Bits]
      /\ StateAfter(path, n) = Old(state, oldest)
  BY DEF Into, PathsOf
<1>4. /\ \A bit \in 1 .. Memory + n : long[bit] = path[bit]
      /\ long[Memory + (n + 1)] = state[1]
      /\ DOMAIN long = 1 .. Memory + (n + 1)
      /\ long = [bit \in 1 .. Memory + (n + 1) |-> long[bit]]
  BY <1>1 DEF Longer
<1> HIDE DEF long
<1>5. long \in [1 .. Memory + (n + 1) -> Bits]
  <2>1. ASSUME NEW bit \in 1 .. Memory + (n + 1)
        PROVE  long[bit] \in Bits
    <3>1. CASE bit \in 1 .. Memory + n
      BY <1>3, <1>4, <3>1
    <3>2. CASE bit = Memory + (n + 1)
      BY <1>1, <1>2, <1>4, <3>2
    <3> QED
      BY <1>1, <3>1, <3>2
  <2> QED
    BY <1>4, <2>1
<1>6. \A bit \in 1 .. Memory :
        path[Memory + n + 1 - bit] = IF bit = Memory THEN oldest ELSE state[bit + 1]
  BY <1>3 DEF StateAfter, Old
<1>7. long[n + 1] = oldest
  <2>1. n + 1 \in 1 .. Memory + n /\ Memory + n + 1 - Memory = n + 1 /\ Memory \in 1 .. Memory
    BY <1>1
  <2> QED
    BY <1>4, <1>6, <2>1
<1>8. StateAfter(long, n + 1) = state
  <2>1. ASSUME NEW bit \in 1 .. Memory
        PROVE  long[Memory + (n + 1) + 1 - bit] = state[bit]
    <3>1. CASE bit = 1
      <4>1. Memory + (n + 1) + 1 - bit = Memory + (n + 1)
        BY <1>1, <3>1
      <4> QED
        BY <1>4, <3>1, <4>1
    <3>2. CASE bit # 1
      <4>1. /\ Memory + (n + 1) + 1 - bit = Memory + n + 1 - (bit - 1)
            /\ Memory + n + 1 - (bit - 1) \in 1 .. Memory + n
            /\ bit - 1 \in 1 .. Memory /\ bit - 1 # Memory /\ (bit - 1) + 1 = bit
        BY <1>1, <3>2
      <4>2. path[Memory + n + 1 - (bit - 1)] = state[bit]
        BY <1>6, <4>1
      <4> QED
        BY <1>4, <4>1, <4>2
    <3> QED
      BY <3>1, <3>2
  <2>2. state = [bit \in 1 .. Memory |-> state[bit]]
    BY DEF States
  <2> QED
    BY <2>1, <2>2 DEF StateAfter
<1>9. Shorter(heard, long) = path
  BY <1>3, <1>4 DEF Shorter
<1>10. long \in Into(Append(heard, soft), state)
  BY <1>1, <1>5, <1>8 DEF Into, PathsOf
<1> QED
  BY <1>7, <1>9, <1>10 DEF long

(* The cheapest path into a state goes on from the cheapest one into one   *)
(* of its predecessors.                                                    *)
LEMMA LeastStep ==
  ASSUME config \in Configs, NEW heard \in Heard, NEW soft \in Symbols \X Symbols,
         NEW state \in States
  PROVE  /\ \A oldest \in Bits :
              LeastOver(config, Append(heard, soft))[state]
                <= LeastOver(config, heard)[Old(state, oldest)] + Branch(state, oldest, soft)
         /\ \E oldest \in Bits :
              LeastOver(config, Append(heard, soft))[state]
                = LeastOver(config, heard)[Old(state, oldest)] + Branch(state, oldest, soft)
<1> DEFINE longer == Append(heard, soft)
<1>1. longer \in Heard /\ Len(heard) \in Nat /\ Len(longer) = Len(heard) + 1
  BY AppendFacts
<1>2. LeastOver(config, longer)[state] \in Nat
  BY <1>1, LeastOverFacts
<1>3. \A oldest \in Bits : Old(state, oldest) \in States
  BY StateFacts
<1>4. \A oldest \in Bits : LeastOver(config, heard)[Old(state, oldest)] \in Nat
  BY <1>3, LeastOverFacts
<1>5. \A oldest \in Bits : Branch(state, oldest, soft) \in Nat
  BY BranchFacts DEF LargestBranch
<1>6. ASSUME NEW path \in Into(longer, state)
      PROVE  /\ path[Len(heard) + 1] \in Bits
             /\ Shorter(heard, path) \in Into(heard, Old(state, path[Len(heard) + 1]))
             /\ TotalOf(config, longer, path) = TotalOf(config, heard, Shorter(heard, path))
                                                  + Branch(state, path[Len(heard) + 1], soft)
             /\ TotalOf(config, heard, Shorter(heard, path)) \in Nat
  <2>1. path \in PathsOf(Append(heard, soft)) /\ StateAfter(path, Len(heard) + 1) = state
    BY <1>1 DEF Into
  <2>2. /\ path[Len(heard) + 1] \in Bits
        /\ Old(state, path[Len(heard) + 1]) = StateAfter(path, Len(heard))
        /\ CostOf(config, Append(heard, soft), path, Len(heard) + 1)
             = Branch(state, path[Len(heard) + 1], soft)
    BY <2>1, CostIsBranch
  <2>3. /\ Shorter(heard, path) \in PathsOf(heard)
        /\ StateAfter(Shorter(heard, path), Len(heard)) = StateAfter(path, Len(heard))
        /\ TotalOf(config, Append(heard, soft), path)
             = TotalOf(config, heard, Shorter(heard, path))
                 + CostOf(config, Append(heard, soft), path, Len(heard) + 1)
        /\ TotalOf(config, heard, Shorter(heard, path)) \in Nat
    <3>1. Len(heard) \in 0 .. Len(heard)
      BY <1>1
    <3> QED
      BY <2>1, <3>1, ShorterFacts
  <2> QED
    BY <2>2, <2>3 DEF Into
<1>7. ASSUME NEW oldest \in Bits
      PROVE  LeastOver(config, longer)[state]
               <= LeastOver(config, heard)[Old(state, oldest)] + Branch(state, oldest, soft)
  <2>1. PICK path \in Into(heard, Old(state, oldest)) :
          TotalOf(config, heard, path) = LeastOver(config, heard)[Old(state, oldest)]
    BY <1>3, LeastOverFacts
  <2> DEFINE long == Longer(heard, path, state[1])
  <2>2. /\ long \in Into(longer, state) /\ Shorter(heard, long) = path
        /\ long[Len(heard) + 1] = oldest
    BY LongerFacts
  <2> HIDE DEF long, longer
  <2>3. TotalOf(config, longer, long)
          = LeastOver(config, heard)[Old(state, oldest)] + Branch(state, oldest, soft)
    BY <1>6, <2>1, <2>2
  <2>4. LeastOver(config, longer)[state] <= TotalOf(config, longer, long)
    BY <1>1, <2>2, LeastOverFacts
  <2> QED
    BY <2>3, <2>4
<1>8. \E oldest \in Bits :
        LeastOver(config, longer)[state]
          = LeastOver(config, heard)[Old(state, oldest)] + Branch(state, oldest, soft)
  <2>1. PICK path \in Into(longer, state) :
          TotalOf(config, longer, path) = LeastOver(config, longer)[state]
    BY <1>1, LeastOverFacts
  <2> DEFINE oldest == path[Len(heard) + 1]
             total == TotalOf(config, heard, Shorter(heard, path))
  <2>2. /\ oldest \in Bits /\ Shorter(heard, path) \in Into(heard, Old(state, oldest))
        /\ LeastOver(config, longer)[state] = total + Branch(state, oldest, soft)
        /\ total \in Nat
    BY <1>6, <2>1
  <2>3. LeastOver(config, heard)[Old(state, oldest)] <= total
    BY <1>3, <2>2, LeastOverFacts
  <2> HIDE DEF oldest, total, longer
  <2>4. LeastOver(config, longer)[state]
          = LeastOver(config, heard)[Old(state, oldest)] + Branch(state, oldest, soft)
    BY <1>2, <1>4, <1>5, <1>7, <2>2, <2>3
  <2> QED
    BY <2>2, <2>4
<1> QED
  BY <1>7, <1>8

(* A path of no steps is the state that it starts in.                      *)
LEMMA LeastStart ==
  ASSUME NEW chosen \in Configs, NEW state \in States
  PROVE  LeastOver(chosen, <<>>)[state] = StartMetrics(chosen)[state]
<1>1. <<>> \in Heard /\ Len(<<>>) = 0
  BY DEF Heard
<1>2. PICK path \in Into(<<>>, state) :
        TotalOf(chosen, <<>>, path) = LeastOver(chosen, <<>>)[state]
  BY <1>1, LeastOverFacts
<1>3. path \in PathsOf(<<>>) /\ StateAfter(path, 0) = state
  BY <1>1 DEF Into
<1>4. PICK total : /\ Adds(chosen, <<>>, path, total)
                   /\ TotalOf(chosen, <<>>, path) = total[Len(<<>>)]
  BY <1>1, <1>3, TotalFacts
<1> QED
  BY <1>1, <1>2, <1>3, <1>4 DEF Adds

-----------------------------------------------------------------------------
(* The metrics are the costs of the cheapest paths, all by the same too    *)
(* much or too little.                                                     *)

SameGaps(costs, least) ==
  \A one, other \in States : costs[one] - costs[other] = least[one] - least[other]

(* What is selected is the cheaper of the two candidates.                  *)
LEMMA CheaperFacts ==
  ASSUME IInv, NEW soft \in Symbols \X Symbols, NEW state \in States
  PROVE  LET chosen == IF FromHigh(state, soft) THEN 1 ELSE 0
         IN  /\ chosen \in Bits
             /\ Selected(soft)[state]
                  = metrics[Old(state, chosen)] + Branch(state, chosen, soft)
             /\ \A oldest \in Bits :
                  Selected(soft)[state]
                    <= metrics[Old(state, oldest)] + Branch(state, oldest, soft)
<1> DEFINE chosen == IF FromHigh(state, soft) THEN 1 ELSE 0
<1>1. chosen \in Bits
  BY DEF Bits
<1>2. Selected(soft)[state] = Candidate(state, chosen, soft)
  BY DEF Selected
<1>3. Candidate(state, 0, soft) \in Nat /\ Candidate(state, 1, soft) \in Nat
  BY CandidateFacts DEF Bits
<1>4. \A oldest \in Bits : Candidate(state, chosen, soft) <= Candidate(state, oldest, soft)
  BY <1>3 DEF FromHigh, Bits
<1>5. \A oldest \in Bits : Candidate(state, oldest, soft)
                             = metrics[Old(state, oldest)] + Branch(state, oldest, soft)
  BY CandidateFacts
<1> HIDE DEF chosen
<1>6. Selected(soft)[state] = metrics[Old(state, chosen)] + Branch(state, chosen, soft)
  BY <1>1, <1>2, <1>5
<1>7. ASSUME NEW oldest \in Bits
      PROVE  Selected(soft)[state] <= metrics[Old(state, oldest)] + Branch(state, oldest, soft)
  BY <1>2, <1>4, <1>5
<1> QED
  BY <1>1, <1>6, <1>7 DEF chosen

(* One step selects for the metrics what it selects for the paths.         *)
LEMMA GapsStep ==
  ASSUME IInv, NEW heard \in Heard, NEW soft \in Symbols \X Symbols,
         SameGaps(metrics, LeastOver(config, heard))
  PROVE  SameGaps(Selected(soft), LeastOver(config, Append(heard, soft)))
<1> DEFINE least == LeastOver(config, heard)
           next == LeastOver(config, Append(heard, soft))
           by == metrics[Zero] - least[Zero]
<1>1. config \in Configs /\ metrics \in [States -> Nat]
  BY ConstantsAssumption DEF IInv, TypeOK
<1>2. \A state \in States : least[state] \in Nat /\ next[state] \in Nat
  BY <1>1, AppendFacts, LeastOverFacts
<1>3. ASSUME NEW state \in States
      PROVE  metrics[state] = least[state] + by
  <2>1. metrics[state] - metrics[Zero] = least[state] - least[Zero]
    BY StateFacts DEF SameGaps
  <2>2. /\ metrics[state] \in Nat /\ metrics[Zero] \in Nat
        /\ least[state] \in Nat /\ least[Zero] \in Nat
    BY <1>1, <1>2, StateFacts
  <2> HIDE DEF least
  <2> QED
    BY <2>1, <2>2
<1>4. by \in Int
  BY <1>1, <1>2, StateFacts
<1>5. ASSUME NEW state \in States
      PROVE  Selected(soft)[state] = next[state] + by
  <2> DEFINE chosen == IF FromHigh(state, soft) THEN 1 ELSE 0
             dear(oldest) == Branch(state, oldest, soft)
  <2>1. /\ chosen \in Bits
        /\ Selected(soft)[state] = metrics[Old(state, chosen)] + dear(chosen)
        /\ \A oldest \in Bits : Selected(soft)[state] <= metrics[Old(state, oldest)] + dear(oldest)
    BY CheaperFacts
  <2>2. /\ \A oldest \in Bits : next[state] <= least[Old(state, oldest)] + dear(oldest)
        /\ \E oldest \in Bits : next[state] = least[Old(state, oldest)] + dear(oldest)
    BY <1>1, LeastStep
  <2>3. \A oldest \in Bits : Old(state, oldest) \in States
    BY StateFacts
  <2>4. \A oldest \in Bits : dear(oldest) \in Nat
    BY BranchFacts DEF LargestBranch
  <2> HIDE DEF chosen, dear, least, next, by
  <2>5. PICK oldest \in Bits : next[state] = least[Old(state, oldest)] + dear(oldest)
    BY <2>2
  <2>6. Selected(soft)[state] <= metrics[Old(state, oldest)] + dear(oldest)
    BY <2>1
  <2>7. next[state] <= least[Old(state, chosen)] + dear(chosen)
    BY <2>1, <2>2
  <2>8. /\ metrics[Old(state, oldest)] = least[Old(state, oldest)] + by
        /\ metrics[Old(state, chosen)] = least[Old(state, chosen)] + by
        /\ least[Old(state, oldest)] \in Nat /\ least[Old(state, chosen)] \in Nat
        /\ dear(oldest) \in Nat /\ dear(chosen) \in Nat
    BY <1>2, <1>3, <2>1, <2>3, <2>4
  <2> QED
    BY <1>2, <1>4, <2>1, <2>5, <2>6, <2>7, <2>8
<1> HIDE DEF least, next, by
<1>6. \A one, other \in States :
        Selected(soft)[one] - Selected(soft)[other] = next[one] - next[other]
  BY <1>2, <1>4, <1>5
<1> QED
  BY <1>6 DEF SameGaps, next

(* Renormalizing takes the same from every metric.                         *)
LEMMA GapsRenormalized ==
  ASSUME IInv, NEW costs \in [States -> 0 .. Modulus - 1], Near(costs),
         NEW least, \A state \in States : least[state] \in Nat, SameGaps(costs, least)
  PROVE  SameGaps(Renormalized(costs), least)
<1>1. PICK by \in Nat : \A state \in States : Renormalized(costs)[state] = costs[state] - by
  BY RenormalizedFacts
<1>2. costs \in [States -> Nat]
  BY ConstantsAssumption
<1>3. ASSUME NEW one \in States, NEW other \in States
      PROVE  Renormalized(costs)[one] - Renormalized(costs)[other] = least[one] - least[other]
  <2>1. /\ Renormalized(costs)[one] = costs[one] - by
        /\ Renormalized(costs)[other] = costs[other] - by
        /\ costs[one] \in Nat /\ costs[other] \in Nat
    BY <1>1, <1>2
  <2>2. costs[one] - costs[other] = least[one] - least[other]
    BY DEF SameGaps
  <2> QED
    BY <2>1, <2>2
<1> QED
  BY <1>3 DEF SameGaps

Exact == SameGaps(metrics, LeastOver(config, received))

LEMMA ExactInitially == Init => Exact
<1> SUFFICES ASSUME Init
             PROVE  Exact
  OBVIOUS
<1>1. \A state \in States : LeastOver(config, received)[state] = metrics[state]
  BY LeastStart DEF Init
<1> QED
  BY <1>1 DEF Exact, SameGaps

LEMMA ExactPreserved == IInv /\ Exact /\ [Next]_vars => Exact'
<1> SUFFICES ASSUME IInv, Exact, [Next]_vars
             PROVE  Exact'
  OBVIOUS
<1>1. received \in Heard /\ config \in Configs
  BY DEF IInv, TypeOK, Heard
<1>2. ASSUME NEW soft \in Symbols \X Symbols, Step(soft)
      PROVE  Exact'
  <2> DEFINE next == LeastOver(config, Append(received, soft))
  <2>1. SameGaps(Selected(soft), next)
    BY <1>1, GapsStep DEF Exact
  <2>2. \A state \in States : next[state] \in Nat
    BY <1>1, AppendFacts, LeastOverFacts
  <2>3. Selected(soft) \in [States -> 0 .. Modulus - 1] /\ Near(Selected(soft))
    BY SelectedFacts
  <2>4. config' = config /\ received' = Append(received, soft)
    BY <1>2 DEF Step
  <2> HIDE DEF next
  <2>5. SameGaps(Renormalized(Selected(soft)), next)
    BY <2>1, <2>2, <2>3, GapsRenormalized
  <2>6. metrics' = Selected(soft) \/ metrics' = Renormalized(Selected(soft))
    BY <1>2 DEF Step
  <2>7. SameGaps(metrics', next)
    BY <2>1, <2>5, <2>6
  <2> QED
    BY <2>4, <2>7 DEF Exact, next
<1>3. ASSUME UNCHANGED <<config, metrics, received>>
      PROVE  Exact'
  BY <1>3 DEF Exact
<1>4. ASSUME Reset
      PROVE  Exact'
  <2>1. config' = config /\ metrics' = StartMetrics(config) /\ received' = <<>>
    BY <1>4 DEF Reset
  <2>2. \A state \in States : LeastOver(config, <<>>)[state] = StartMetrics(config)[state]
    BY <1>1, LeastStart
  <2>3. SameGaps(StartMetrics(config), LeastOver(config, <<>>))
    BY <2>2 DEF SameGaps
  <2> QED
    BY <2>1, <2>3 DEF Exact
<1> QED
  BY <1>2, <1>3, <1>4 DEF Next, Execute, Return, vars

LEMMA ExactImplies == IInv /\ Exact => CostsAreExact
<1> SUFFICES ASSUME IInv, Exact, NEW state \in States
             PROVE  metrics[state] - LeastOf(metrics) = Least[state] - LeastOf(Least)
  BY DEF CostsAreExact
<1>1. received \in Heard /\ config \in Configs /\ metrics \in [States -> Nat]
  BY ConstantsAssumption DEF IInv, TypeOK, Heard
<1>2. Least \in [States -> Nat]
  <2>1. \A one \in States : LeastOver(config, received)[one] \in Nat
    BY <1>1, LeastOverFacts
  <2>2. LeastOver(config, received) = [one \in States |-> LeastOver(config, received)[one]]
    BY DEF LeastOver
  <2> QED
    BY <2>1, <2>2, LeastOfState
<1>3. \A one, other \in States : metrics[one] - metrics[other] = Least[one] - Least[other]
  BY LeastOfState DEF Exact, SameGaps
<1>4. PICK one \in States : LeastOf(metrics) = metrics[one]
  BY <1>1, LeastFacts
<1>5. PICK other \in States : LeastOf(Least) = Least[other]
  BY <1>2, LeastFacts
<1>6. metrics[one] <= metrics[other] /\ Least[other] <= Least[one]
  BY <1>1, <1>2, <1>4, <1>5, LeastFacts
<1>7. /\ metrics[one] \in Nat /\ metrics[other] \in Nat /\ metrics[state] \in Nat
      /\ Least[one] \in Nat /\ Least[other] \in Nat /\ Least[state] \in Nat
  BY <1>1, <1>2
<1>8. /\ metrics[one] - metrics[other] = Least[one] - Least[other]
      /\ metrics[state] - metrics[other] = Least[state] - Least[other]
  BY <1>3
<1> QED
  BY <1>4, <1>5, <1>6, <1>7, <1>8

(* However the steps are cut into blocks and whenever metrics have been    *)
(* renormalized, they tell the costs of the cheapest paths apart as if     *)
(* every path had been tried.                                              *)
THEOREM CostsExact == Spec => []CostsAreExact
<1>1. IInv /\ Exact /\ [Next]_vars => (IInv /\ Exact)'
  BY Preserved, ExactPreserved
<1> QED
  BY <1>1, Initially, ExactInitially, ExactImplies, PTL DEF Spec

-----------------------------------------------------------------------------
(* Tracing back.                                                           *)

Made == Seq([States -> Bits])

LeadsBack(steps, made, state) ==
  \A step \in 0 .. steps - 1 :
    state[step] = Old(state[step + 1], made[step + 1][state[step + 1]])

Traces(made, end, state) ==
  /\ state \in [0 .. Len(made) -> States] /\ state[Len(made)] = end
  /\ LeadsBack(Len(made), made, state)

PathVia(steps, state) ==
  [bit \in 1 .. Memory + steps |->
     IF bit <= Memory THEN state[0][Memory + 1 - bit] ELSE state[bit - Memory][1]]

SurvivorOf(made, end) ==
  LET state[step \in 0 .. Len(made)] ==
        IF step = Len(made) THEN end
        ELSE Old(state[step + 1], made[step + 1][state[step + 1]])
  IN  PathVia(Len(made), state)

LEMMA SurvivorOfState ==
  ASSUME Len(decisions) = Steps, NEW end
  PROVE  Survivor(end) = SurvivorOf(decisions, end)
BY DEF Survivor, SurvivorOf, PathVia

(* Decisions lead back from a state in one way only.                       *)
LEMMA TraceIsUnique ==
  ASSUME NEW steps \in Nat, NEW made, NEW end, NEW one, NEW other,
         one[steps] = end, other[steps] = end,
         LeadsBack(steps, made, one), LeadsBack(steps, made, other)
  PROVE  \A step \in 0 .. steps : one[step] = other[step]
<1> DEFINE f == [i \in 0 .. steps |-> one[steps - i]]
           g == [i \in 0 .. steps |-> other[steps - i]]
<1>1. f[0] = g[0]
  OBVIOUS
<1>2. ASSUME NEW i \in 1 .. steps, f[i - 1] = g[i - 1]
      PROVE  f[i] = g[i]
  <2>1. steps - i \in 0 .. steps - 1 /\ (steps - i) + 1 = steps - (i - 1) /\ i - 1 \in 0 .. steps
    OBVIOUS
  <2>2. one[(steps - i) + 1] = other[(steps - i) + 1]
    BY <1>2, <2>1
  <2>3. one[steps - i] = other[steps - i]
    BY <2>1, <2>2 DEF LeadsBack
  <2> QED
    BY <2>3
<1>3. ASSUME NEW step \in 0 .. steps
      PROVE  one[step] = other[step]
  <2> HIDE DEF f, g
  <2>1. \A i \in 0 .. steps : f[i] = g[i]
    <3>1. GoOnAlike(steps, f, g)
      BY <1>1, <1>2 DEF GoOnAlike
    <3> QED
      BY <3>1, SameRecursion
  <2>2. steps - step \in 0 .. steps /\ steps - (steps - step) = step
    OBVIOUS
  <2>3. f[steps - step] = one[step] /\ g[steps - step] = other[step]
    BY <2>2 DEF f, g
  <2> QED
    BY <2>1, <2>2, <2>3
<1> QED
  BY <1>3

LEMMA TraceFacts ==
  ASSUME NEW made \in Made, NEW end \in States
  PROVE  \E state : Traces(made, end, state) /\ SurvivorOf(made, end) = PathVia(Len(made), state)
<1> DEFINE n == Len(made)
           next == [i \in 1 .. n |->
                      [after \in States |-> Old(after, made[(n - i) + 1][after])]]
           Is(state) == state = [step \in 0 .. n |->
                                   IF step = n THEN end
                                   ELSE Old(state[step + 1], made[step + 1][state[step + 1]])]
<1>1. n \in Nat
  BY DEF Made
<1>2. \A i \in 1 .. n, after \in States :
        /\ made[(n - i) + 1][after] \in Bits
        /\ Old(after, made[(n - i) + 1][after]) \in States
  <2> SUFFICES ASSUME NEW i \in 1 .. n, NEW after \in States
               PROVE  /\ made[(n - i) + 1][after] \in Bits
                      /\ Old(after, made[(n - i) + 1][after]) \in States
    OBVIOUS
  <2>1. (n - i) + 1 \in 1 .. n
    BY <1>1
  <2>2. made[(n - i) + 1] \in [States -> Bits]
    BY <2>1 DEF Made
  <2> QED
    BY <2>2, StateFacts
<1>3. next \in [1 .. n -> [States -> States]]
  BY <1>2
<1>4. \A i \in 1 .. n, after \in States :
        next[i][after] = Old(after, made[(n - i) + 1][after])
  OBVIOUS
<1> HIDE DEF next
<1>5. PICK back : Follow(States, end, n, next, back)
  BY <1>1, <1>3, Recursion
<1> DEFINE state == [step \in 0 .. n |-> back[n - step]]
<1>6. /\ state \in [0 .. n -> States] /\ state[n] = end
      /\ DOMAIN state = 0 .. n /\ state = [step \in 0 .. n |-> state[step]]
  BY <1>1, <1>5 DEF Follow
<1>7. ASSUME NEW step \in 0 .. n - 1
      PROVE  state[step] = Old(state[step + 1], made[step + 1][state[step + 1]])
  <2>1. /\ n - step \in 1 .. n /\ (n - step) - 1 = n - (step + 1)
        /\ (n - (n - step)) + 1 = step + 1
        /\ step \in 0 .. n /\ step + 1 \in 0 .. n /\ n - (step + 1) \in 0 .. n
    BY <1>1
  <2>2. state[step] = back[n - step] /\ state[step + 1] = back[n - (step + 1)]
    BY <2>1
  <2>3. back[n - (step + 1)] \in States
    BY <1>5, <2>1 DEF Follow
  <2>4. back[n - step] = next[n - step][back[n - (step + 1)]]
    BY <1>5, <2>1 DEF Follow
  <2> HIDE DEF state
  <2>5. next[n - step][back[n - (step + 1)]]
          = Old(back[n - (step + 1)], made[step + 1][back[n - (step + 1)]])
    BY <1>4, <2>1, <2>3
  <2> QED
    BY <2>2, <2>4, <2>5
<1> HIDE DEF state
<1>8. Is(state)
  <2> DEFINE values == [step \in 0 .. n |->
                          IF step = n THEN end
                          ELSE Old(state[step + 1], made[step + 1][state[step + 1]])]
  <2>1. ASSUME NEW step \in 0 .. n
        PROVE  state[step] = values[step]
    <3>1. CASE step = n
      BY <1>6, <3>1
    <3>2. CASE step # n
      <4>1. step \in 0 .. n - 1
        BY <1>1, <3>2
      <4>2. state[step] = Old(state[step + 1], made[step + 1][state[step + 1]])
        BY <1>7, <4>1
      <4> QED
        BY <3>2, <4>2
    <3> QED
      BY <3>1, <3>2
  <2> HIDE DEF values
  <2>2. values = [step \in 0 .. n |-> values[step]]
    BY DEF values
  <2>3. state = values
    BY <1>6, <2>1, <2>2
  <2> QED
    BY <2>3 DEF values
<1> DEFINE that == CHOOSE f : Is(f)
<1>9. Is(that)
  BY <1>8
<1>10. SurvivorOf(made, end) = PathVia(n, that)
  BY DEF SurvivorOf
<1> HIDE DEF that
<1>11. /\ that[n] = end /\ DOMAIN that = 0 .. n
       /\ that = [step \in 0 .. n |-> that[step]]
       /\ \A step \in 0 .. n - 1 :
            that[step] = Old(that[step + 1], made[step + 1][that[step + 1]])
  BY <1>1, <1>9
<1> HIDE DEF Is
<1>12. \A step \in 0 .. n : that[step] = state[step]
  <2>1. LeadsBack(n, made, that) /\ LeadsBack(n, made, state)
    BY <1>7, <1>11 DEF LeadsBack
  <2> HIDE DEF n
  <2> QED
    BY <1>1, <1>6, <1>11, <2>1, TraceIsUnique
<1>13. that = state
  BY <1>6, <1>11, <1>12
<1>14. Traces(made, end, state)
  BY <1>6, <1>7 DEF Traces, LeadsBack
<1> QED
  BY <1>10, <1>13, <1>14

(* What the decisions of one more step trace back from a state goes on     *)
(* from what they traced back before, from the state that was decided on.  *)
LEMMA SurvivorStep ==
  ASSUME NEW heard \in Heard, NEW made \in Made, Len(made) = Len(heard),
         NEW choice \in [States -> Bits], NEW end \in States
  PROVE  SurvivorOf(Append(made, choice), end)
           = Longer(heard, SurvivorOf(made, Old(end, choice[end])), end[1])
<1> DEFINE n == Len(made)
           more == Append(made, choice)
           before == Old(end, choice[end])
<1>1. /\ n \in Nat /\ more \in Made /\ Len(more) = n + 1
      /\ \A step \in 1 .. n : more[step] = made[step]
      /\ more[n + 1] = choice
  BY DEF Made
<1>2. before \in States
  BY StateFacts
<1>3. PICK one : Traces(more, end, one) /\ SurvivorOf(more, end) = PathVia(n + 1, one)
  BY <1>1, TraceFacts
<1>4. PICK other : Traces(made, before, other) /\ SurvivorOf(made, before) = PathVia(n, other)
  BY <1>2, TraceFacts
<1> HIDE DEF more, before
<1>5. one[n + 1] = end
  BY <1>1, <1>3 DEF Traces
<1>6. one[n] = before
  <2>1. n \in 0 .. (n + 1) - 1
    BY <1>1
  <2>2. one[n] = Old(one[n + 1], more[n + 1][one[n + 1]])
    BY <1>1, <1>3, <2>1 DEF Traces, LeadsBack
  <2> QED
    BY <1>1, <1>5, <2>2 DEF before
<1>7. \A step \in 0 .. n - 1 :
        /\ one[step] = Old(one[step + 1], made[step + 1][one[step + 1]])
        /\ other[step] = Old(other[step + 1], made[step + 1][other[step + 1]])
  <2> SUFFICES ASSUME NEW step \in 0 .. n - 1
               PROVE  /\ one[step] = Old(one[step + 1], made[step + 1][one[step + 1]])
                      /\ other[step] = Old(other[step + 1], made[step + 1][other[step + 1]])
    OBVIOUS
  <2>1. step \in 0 .. (n + 1) - 1 /\ step + 1 \in 1 .. n
    BY <1>1
  <2>2. one[step] = Old(one[step + 1], more[step + 1][one[step + 1]])
    BY <1>1, <1>3, <2>1 DEF Traces, LeadsBack
  <2>3. other[step] = Old(other[step + 1], made[step + 1][other[step + 1]])
    BY <1>4 DEF Traces, LeadsBack
  <2> QED
    BY <1>1, <2>1, <2>2, <2>3
<1>8. \A step \in 0 .. n : one[step] = other[step]
  <2>1. other[n] = before /\ LeadsBack(n, made, other)
    BY <1>4 DEF Traces
  <2>2. LeadsBack(n, made, one)
    BY <1>7 DEF LeadsBack
  <2> HIDE DEF n
  <2> QED
    BY <1>1, <1>6, <2>1, <2>2, TraceIsUnique
<1>9. Memory \in Nat \ {0}
  BY ConstantsAssumption
<1>10. PathVia(n + 1, one)
         = [bit \in 1 .. Memory + (n + 1) |->
              IF bit <= Memory + n THEN PathVia(n, other)[bit] ELSE end[1]]
  <2> DEFINE value(bit) == IF bit <= Memory + n THEN PathVia(n, other)[bit] ELSE end[1]
             via(bit) == IF bit <= Memory THEN one[0][Memory + 1 - bit] ELSE one[bit - Memory][1]
  <2>1. ASSUME NEW bit \in 1 .. Memory + (n + 1)
        PROVE  via(bit) = value(bit)
    <3>1. CASE bit <= Memory
      <4>1. /\ bit <= Memory + n /\ bit \in 1 .. Memory + n
        BY <1>1, <1>9, <3>1
      <4>2. one[0] = other[0]
        BY <1>1, <1>8
      <4>3. PathVia(n, other)[bit] = other[0][Memory + 1 - bit]
        BY <3>1, <4>1 DEF PathVia
      <4> QED
        BY <3>1, <4>1, <4>2, <4>3
    <3>2. CASE ~(bit <= Memory) /\ bit <= Memory + n
      <4>1. bit - Memory \in 0 .. n /\ bit \in 1 .. Memory + n
        BY <1>1, <1>9, <3>2
      <4>2. one[bit - Memory] = other[bit - Memory]
        BY <1>8, <4>1
      <4>3. PathVia(n, other)[bit] = other[bit - Memory][1]
        BY <3>2, <4>1 DEF PathVia
      <4> QED
        BY <3>2, <4>2, <4>3
    <3>3. CASE ~(bit <= Memory + n)
      <4>1. bit - Memory = n + 1 /\ ~(bit <= Memory)
        BY <1>1, <1>9, <3>3
      <4> QED
        BY <1>5, <3>3, <4>1
    <3> QED
      BY <3>1, <3>2, <3>3
  <2>2. PathVia(n + 1, one) = [bit \in 1 .. Memory + (n + 1) |-> via(bit)]
    BY DEF PathVia
  <2> HIDE DEF value, via
  <2>3. PathVia(n + 1, one) = [bit \in 1 .. Memory + (n + 1) |-> value(bit)]
    BY <2>1, <2>2
  <2> QED
    BY <2>3 DEF value
<1> QED
  BY <1>3, <1>4, <1>10 DEF Longer, more, before

-----------------------------------------------------------------------------
(* The survivors are cheapest paths.                                       *)

Cheapest(made, heard) ==
  \A end \in States :
    /\ SurvivorOf(made, end) \in Into(heard, end)
    /\ TotalOf(config, heard, SurvivorOf(made, end)) = LeastOver(config, heard)[end]

AsLong(made, heard) == Len(made) = Len(heard)

LEMMA CheapestStart ==
  ASSUME config \in Configs
  PROVE  Cheapest(<<>>, <<>>)
<1> SUFFICES ASSUME NEW end \in States
             PROVE  /\ SurvivorOf(<<>>, end) \in Into(<<>>, end)
                    /\ TotalOf(config, <<>>, SurvivorOf(<<>>, end)) = LeastOver(config, <<>>)[end]
  BY DEF Cheapest
<1> DEFINE path == SurvivorOf(<<>>, end)
<1>1. <<>> \in Heard /\ <<>> \in Made /\ Len(<<>>) = 0 /\ Memory \in Nat \ {0}
  BY ConstantsAssumption DEF Heard, Made
<1>2. PICK state : Traces(<<>>, end, state) /\ path = PathVia(0, state)
  BY <1>1, TraceFacts
<1>3. state[0] = end
  BY <1>1, <1>2 DEF Traces
<1>4. path = [bit \in 1 .. Memory |-> end[Memory + 1 - bit]]
  BY <1>1, <1>2, <1>3 DEF PathVia
<1> HIDE DEF path
<1>5. \A bit \in 1 .. Memory :
        Memory + 1 - bit \in 1 .. Memory /\ Memory + 1 - (Memory + 1 - bit) = bit
  BY <1>1
<1>6. path \in PathsOf(<<>>)
  BY <1>1, <1>4, <1>5 DEF PathsOf, States
<1>7. StateAfter(path, 0) = end
  <2>1. \A bit \in 1 .. Memory : path[Memory + 0 + 1 - bit] = end[bit]
    BY <1>1, <1>4, <1>5
  <2>2. end = [bit \in 1 .. Memory |-> end[bit]]
    BY DEF States
  <2> QED
    BY <2>1, <2>2 DEF StateAfter
<1>8. path \in Into(<<>>, end)
  BY <1>1, <1>6, <1>7 DEF Into
<1>9. TotalOf(config, <<>>, path) = StartMetrics(config)[end]
  <2>1. PICK total : /\ Adds(config, <<>>, path, total)
                     /\ TotalOf(config, <<>>, path) = total[Len(<<>>)]
    BY <1>1, <1>6, TotalFacts
  <2> QED
    BY <1>1, <1>7, <2>1 DEF Adds
<1> QED
  BY <1>8, <1>9, LeastStart DEF path

LEMMA CheapestStep ==
  ASSUME IInv, NEW heard \in Heard, NEW made \in Made, AsLong(made, heard),
         NEW soft \in Symbols \X Symbols,
         SameGaps(metrics, LeastOver(config, heard)), Cheapest(made, heard)
  PROVE  Cheapest(Append(made, [state \in States |-> IF FromHigh(state, soft) THEN 1 ELSE 0]),
                  Append(heard, soft))
<1> DEFINE choice == [state \in States |-> IF FromHigh(state, soft) THEN 1 ELSE 0]
           longer == Append(heard, soft)
           least == LeastOver(config, heard)
<1> SUFFICES ASSUME NEW end \in States
             PROVE  /\ SurvivorOf(Append(made, choice), end) \in Into(longer, end)
                    /\ TotalOf(config, longer, SurvivorOf(Append(made, choice), end))
                         = LeastOver(config, longer)[end]
  BY DEF Cheapest
<1> DEFINE chosen == IF FromHigh(end, soft) THEN 1 ELSE 0
           path == SurvivorOf(made, Old(end, chosen))
           long == SurvivorOf(Append(made, choice), end)
<1>1. config \in Configs /\ metrics \in [States -> Nat]
  BY ConstantsAssumption DEF IInv, TypeOK
<1>2. choice \in [States -> Bits] /\ choice[end] = chosen /\ chosen \in Bits
  BY DEF Bits
<1> HIDE DEF choice
<1>3. /\ Selected(soft)[end] = metrics[Old(end, chosen)] + Branch(end, chosen, soft)
      /\ \A oldest \in Bits :
           Selected(soft)[end] <= metrics[Old(end, oldest)] + Branch(end, oldest, soft)
  BY CheaperFacts
<1> HIDE DEF chosen
<1>4. \A oldest \in Bits : Old(end, oldest) \in States
  BY StateFacts
<1>5. \A oldest \in Bits : Branch(end, oldest, soft) \in Nat
  BY BranchIsNat
<1>6. \A oldest \in Bits : least[Old(end, oldest)] \in Nat /\ metrics[Old(end, oldest)] \in Nat
  BY <1>1, <1>4, LeastOverFacts
<1>7. path \in Into(heard, Old(end, chosen)) /\ TotalOf(config, heard, path) = least[Old(end, chosen)]
  BY <1>2, <1>4 DEF Cheapest
<1>8. long = Longer(heard, path, end[1])
  BY <1>2, SurvivorStep DEF AsLong
<1>9. /\ long \in Into(longer, end) /\ Shorter(heard, long) = path
      /\ long[Len(heard) + 1] = chosen
  BY <1>2, <1>7, <1>8, LongerFacts
<1> HIDE DEF path, long
<1>10. TotalOf(config, longer, long) = least[Old(end, chosen)] + Branch(end, chosen, soft)
  <2>1. /\ Len(longer) = Len(heard) + 1 /\ long \in PathsOf(Append(heard, soft))
        /\ StateAfter(long, Len(heard) + 1) = end
    BY <1>9, AppendFacts DEF Into
  <2>2. CostOf(config, Append(heard, soft), long, Len(heard) + 1) = Branch(end, chosen, soft)
    BY <1>1, <1>9, <2>1, CostIsBranch
  <2>3. TotalOf(config, Append(heard, soft), long)
          = TotalOf(config, heard, Shorter(heard, long))
              + CostOf(config, Append(heard, soft), long, Len(heard) + 1)
    BY <1>1, <2>1, ShorterFacts
  <2> QED
    BY <1>7, <1>9, <2>2, <2>3
<1>11. LeastOver(config, longer)[end] = least[Old(end, chosen)] + Branch(end, chosen, soft)
  <2> DEFINE next == LeastOver(config, longer)[end]
             dear(oldest) == Branch(end, oldest, soft)
  <2>1. /\ \A oldest \in Bits : next <= least[Old(end, oldest)] + dear(oldest)
        /\ \E oldest \in Bits : next = least[Old(end, oldest)] + dear(oldest)
    BY <1>1, LeastStep
  <2>2. \A one, other \in States : metrics[one] - metrics[other] = least[one] - least[other]
    BY DEF SameGaps
  <2> HIDE DEF next, least
  <2>3. PICK oldest \in Bits : next = least[Old(end, oldest)] + dear(oldest)
    BY <2>1
  <2>4. next <= least[Old(end, chosen)] + dear(chosen)
    BY <1>2, <2>1
  <2>5. metrics[Old(end, chosen)] + dear(chosen) <= metrics[Old(end, oldest)] + dear(oldest)
    BY <1>3
  <2>6. metrics[Old(end, chosen)] - metrics[Old(end, oldest)]
          = least[Old(end, chosen)] - least[Old(end, oldest)]
    BY <1>2, <1>4, <2>2
  <2>7. /\ least[Old(end, oldest)] \in Nat /\ least[Old(end, chosen)] \in Nat
        /\ metrics[Old(end, oldest)] \in Nat /\ metrics[Old(end, chosen)] \in Nat
        /\ dear(oldest) \in Nat /\ dear(chosen) \in Nat
    BY <1>2, <1>5, <1>6
  <2> HIDE DEF dear
  <2>8. next = least[Old(end, chosen)] + dear(chosen)
    BY <2>3, <2>4, <2>5, <2>6, <2>7
  <2> QED
    BY <2>8 DEF next, dear
<1> QED
  BY <1>9, <1>10, <1>11 DEF long

(* After a block, no metric is less than that of the best state.           *)
BestIsLeast ==
  ~busy /\ Len(received) > 0 => \A state \in States : metrics[best_state] <= metrics[state]

Traceable == Cheapest(decisions, received) /\ BestIsLeast

LEMMA TraceableInitially == Init => Traceable
<1> SUFFICES ASSUME Init
             PROVE  Traceable
  OBVIOUS
<1>1. Cheapest(decisions, received)
  BY CheapestStart DEF Init
<1>2. BestIsLeast
  BY DEF Init, BestIsLeast
<1> QED
  BY <1>1, <1>2 DEF Traceable

LEMMA TraceablePreserved == IInv /\ Exact /\ Traceable /\ [Next]_vars => Traceable'
<1> SUFFICES ASSUME IInv, Exact, Traceable, [Next]_vars
             PROVE  Traceable'
  OBVIOUS
<1>1. /\ received \in Heard /\ decisions \in Made /\ Len(decisions) = Len(received)
      /\ config \in Configs /\ metrics \in [States -> Nat]
  BY ConstantsAssumption DEF IInv, TypeOK, Heard, Made
<1>2. ASSUME NEW soft \in Symbols \X Symbols, Step(soft)
      PROVE  Traceable'
  <2>1. Cheapest(Append(decisions, [state \in States |-> IF FromHigh(state, soft) THEN 1 ELSE 0]),
                 Append(received, soft))
    BY <1>1, CheapestStep DEF Exact, Traceable, AsLong
  <2>2. Cheapest(decisions, received)'
    BY <1>2, <2>1 DEF Step, Cheapest
  <2>3. busy'
    BY <1>2 DEF Step
  <2> QED
    BY <2>2, <2>3 DEF Traceable, BestIsLeast
<1>3. ASSUME UNCHANGED <<config, decisions, received>>
      PROVE  Cheapest(decisions, received)'
  BY <1>3 DEF Traceable, Cheapest
<1>4. ASSUME NEW steps \in StepCounts, Execute(steps)
      PROVE  Traceable'
  BY <1>3, <1>4 DEF Execute, Traceable, BestIsLeast
<1>5. ASSUME Return
      PROVE  Traceable'
  <2>1. PICK best \in States : IsBest(best) /\ best_state' = best
    BY <1>5 DEF Return
  <2>2. \A state \in States : metrics[best] <= metrics[state]
    BY <1>1, <2>1 DEF IsBest
  <2>3. metrics' = metrics
    BY <1>5 DEF Return
  <2>4. BestIsLeast'
    BY <2>1, <2>2, <2>3 DEF BestIsLeast
  <2> QED
    BY <1>3, <1>5, <2>4 DEF Return, Traceable
<1>6. ASSUME Reset
      PROVE  Traceable'
  <2>1. Cheapest(<<>>, <<>>)
    BY <1>1, CheapestStart
  <2>2. Cheapest(decisions, received)'
    BY <1>6, <2>1 DEF Reset, Cheapest
  <2>3. Len(received') = 0
    BY <1>6 DEF Reset
  <2> QED
    BY <2>2, <2>3 DEF Traceable, BestIsLeast
<1>7. ASSUME UNCHANGED vars
      PROVE  Traceable'
  BY <1>3, <1>7 DEF vars, Traceable, BestIsLeast
<1> QED
  BY <1>2, <1>4, <1>5, <1>6, <1>7 DEF Next

LEMMA TraceableImplies == IInv /\ Exact /\ Traceable => SurvivorsAreBest
<1> SUFFICES ASSUME IInv, Exact, Traceable
             PROVE  SurvivorsAreBest
  OBVIOUS
<1>1. received \in Heard /\ config \in Configs /\ Len(decisions) = Steps
  BY DEF IInv, TypeOK, Heard, Steps
<1>2. ASSUME NEW state \in States
      PROVE  StateAfter(Survivor(state), Steps) = state /\ Total(Survivor(state)) = Least[state]
  <2>1. Survivor(state) = SurvivorOf(decisions, state)
    BY <1>1, SurvivorOfState
  <2>2. /\ SurvivorOf(decisions, state) \in Into(received, state)
        /\ TotalOf(config, received, SurvivorOf(decisions, state))
             = LeastOver(config, received)[state]
    BY DEF Traceable, Cheapest
  <2> QED
    BY <2>1, <2>2, TotalOfState, LeastOfState DEF Into, Steps
<1>3. ASSUME ~busy, Steps > 0
      PROVE  Least[best_state] = LeastOf(Least)
  <2>1. best_state \in States /\ metrics \in [States -> Nat]
    BY ConstantsAssumption DEF IInv, TypeOK
  <2>2. \A state \in States : metrics[best_state] <= metrics[state]
    BY <1>3 DEF Traceable, BestIsLeast, Steps
  <2>3. Least \in [States -> Nat]
    <3>1. \A one \in States : LeastOver(config, received)[one] \in Nat
      BY <1>1, LeastOverFacts
    <3>2. LeastOver(config, received) = [one \in States |-> LeastOver(config, received)[one]]
      BY DEF LeastOver
    <3> QED
      BY <3>1, <3>2, LeastOfState
  <2>4. PICK one \in States : LeastOf(Least) = Least[one]
    BY <2>3, LeastFacts
  <2>5. Least[one] <= Least[best_state]
    BY <2>1, <2>3, <2>4, LeastFacts
  <2>6. metrics[one] - metrics[best_state] = Least[one] - Least[best_state]
    BY <2>1, LeastOfState DEF Exact, SameGaps
  <2>7. metrics[best_state] <= metrics[one]
    BY <2>2
  <2>8. /\ metrics[one] \in Nat /\ metrics[best_state] \in Nat
        /\ Least[one] \in Nat /\ Least[best_state] \in Nat
    BY <2>1, <2>3
  <2> QED
    BY <2>4, <2>5, <2>6, <2>7, <2>8
<1> QED
  BY <1>2, <1>3 DEF SurvivorsAreBest

(* The decisions trace back, from every state, a cheapest path into it,    *)
(* and from the best state after a block a cheapest path of all.           *)
THEOREM DecisionsTraceCheapest == Spec => []SurvivorsAreBest
<1>1. IInv /\ Exact /\ Traceable /\ [Next]_vars => (IInv /\ Exact /\ Traceable)'
  BY Preserved, ExactPreserved, TraceablePreserved
<1> QED
  BY <1>1, Initially, ExactInitially, TraceableInitially, TraceableImplies, PTL DEF Spec
=============================================================================
