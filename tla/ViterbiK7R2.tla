----------------------------- MODULE ViterbiK7R2 -----------------------------
(***************************************************************************)
(* The add-compare-select kernel of the Viterbi decoder.                   *)
(*                                                                         *)
(* A state is what the encoder remembers, its last Memory input bits, the  *)
(* newest first; a register is a state with the next input bit in front.   *)
(* Both backends compute the same with the same integers, so one module    *)
(* stands for both.  The memory of 6 bits, the 16-bit metrics and the 128  *)
(* steps between two renormalizations are constants here.                  *)
(*                                                                         *)
(* A definition whose comment starts with Fault is no part of the model:   *)
(* it is the definition that follows it with a plausible mistake, which a  *)
(* property must notice.                                                   *)
(***************************************************************************)
EXTENDS Integers, Sequences, FiniteSets, FiniteSetsExt

CONSTANTS
  Memory,                      \* input bits the encoder remembers: 6
  Modulus,                     \* of the unsigned metrics: 2^16
  Period,                      \* steps between two renormalizations: 128
  Polynomials,                 \* sets of taps, 1 is the newest bit
  Penalties,                   \* at most 1024
  Symbols,                     \* soft symbols that are received
  StepCounts, MaxSteps         \* of a block, of all blocks after a reset

LargestBranch == 63
Certain == 255

ASSUME ConstantsAssumption ==
  /\ Memory \in Nat \ {0} /\ Period \in Nat \ {0} /\ Modulus \in Nat
  /\ Polynomials \subseteq (SUBSET (1 .. Memory + 1)) \ {{}}
  /\ Penalties \subseteq Nat /\ Symbols \subseteq 0 .. Certain
  /\ StepCounts \subseteq Nat /\ MaxSteps \in Nat

(* 1024 + 63 * (6 + 128) is far below 2^16.                                *)
ASSUME WidthAssumption ==
  \A penalty \in Penalties : penalty + LargestBranch * (Memory + Period) < Modulus

VARIABLES
  config, metrics, steps_since_renormalize,
  busy, left,                  \* a block is decoded, with so many steps to go
  decisions, best_state,       \* outputs; decisions of all blocks after a reset
  received                     \* symbols of all these steps, only for the properties

vars == <<config, metrics, steps_since_renormalize, busy, left, decisions, best_state, received>>

-----------------------------------------------------------------------------
Bits == {0, 1}
States == [1 .. Memory -> Bits]
Zero == [bit \in 1 .. Memory |-> 0]

(* Where a state comes from: its older bits and one that is forgotten.     *)
Old(state, oldest) == [bit \in 1 .. Memory |-> IF bit = Memory THEN oldest ELSE state[bit + 1]]

Register(old, new) == [bit \in 1 .. Memory + 1 |-> IF bit = 1 THEN new ELSE old[bit - 1]]

(* The code bit of a polynomial, as the soft symbol that is certain of it. *)
ExpectedBit(polynomial, register) ==
  IF Cardinality({tap \in polynomial : register[tap] = 1}) % 2 = 1 THEN Certain ELSE 0

(* expected ^ symbol                                                       *)
Difference(expected, symbol) == IF expected = 0 THEN symbol ELSE Certain - symbol

(* Two states that differ in their newest bit only share a butterfly; its  *)
(* metric is that of the branch from the low state with a new 0 bit.       *)
ButterflyMetric(state, soft) ==
  LET register == Register(Old(state, 0), 0)
  IN  (Difference(ExpectedBit(config.polynomial_a, register), soft[1])
         + Difference(ExpectedBit(config.polynomial_b, register), soft[2]) + 1) \div 8

(* Fault: the branches of the odd state are not crossed.                   *)
UncrossedBranch(state, oldest, soft) ==
  IF oldest = 0 THEN ButterflyMetric(state, soft)
  ELSE LargestBranch - ButterflyMetric(state, soft)

Branch(state, oldest, soft) ==
  IF state[1] = oldest THEN ButterflyMetric(state, soft)
  ELSE LargestBranch - ButterflyMetric(state, soft)

Candidate(state, oldest, soft) ==
  (metrics[Old(state, oldest)] + Branch(state, oldest, soft)) % Modulus

(* Fault: the dearer path survives.                                        *)
DearerFromHigh(state, soft) == Candidate(state, 1, soft) >= Candidate(state, 0, soft)

FromHigh(state, soft) == Candidate(state, 1, soft) <= Candidate(state, 0, soft)

Selected(soft) ==
  [state \in States |-> Candidate(state, IF FromHigh(state, soft) THEN 1 ELSE 0, soft)]

LeastOf(costs) == Min({costs[state] : state \in States})

(* Fault: the metric of state 0 is taken for the least one.                *)
RenormalizedByStart(costs) ==
  [state \in States |-> (costs[state] - costs[Zero]) % Modulus]

(* ViterbiRenormalize                                                      *)
Renormalized(costs) == [state \in States |-> (costs[state] - LeastOf(costs)) % Modulus]

(* The place of a state among the metrics.                                 *)
Number(state) == MapThenSumSet(LAMBDA bit : state[bit] * 2 ^ (bit - 1), 1 .. Memory)

IsBest(best) ==
  \A state \in States :
    \/ metrics[best] < metrics[state]
    \/ metrics[best] = metrics[state] /\ Number(best) <= Number(state)

-----------------------------------------------------------------------------
Configs == [polynomial_a : Polynomials, polynomial_b : Polynomials,
            known_start_state : BOOLEAN, start_penalty : Penalties]

StartMetrics(chosen) ==
  [state \in States |->
     IF chosen.known_start_state /\ state = Zero THEN 0 ELSE chosen.start_penalty]

(* ViterbiK7R2Initialize                                                   *)
Init ==
  /\ config \in Configs
  /\ metrics = StartMetrics(config) /\ steps_since_renormalize = 0
  /\ busy = FALSE /\ left = 0
  /\ decisions = <<>> /\ best_state = Zero /\ received = <<>>

(* ViterbiK7R2Execute                                                      *)
Execute(steps) ==
  /\ ~busy /\ Len(received) + steps <= MaxSteps
  /\ busy' = TRUE /\ left' = steps
  /\ UNCHANGED <<config, metrics, steps_since_renormalize, decisions, best_state, received>>

(* Fault: renormalizing waits for the end of the block.                    *)
RenormalizingLate == steps_since_renormalize + 1 >= Period /\ left = 1

Renormalizing == steps_since_renormalize + 1 = Period

Step(soft) ==
  /\ busy /\ left > 0 /\ left' = left - 1
  /\ metrics' = IF Renormalizing THEN Renormalized(Selected(soft)) ELSE Selected(soft)
  /\ steps_since_renormalize' = IF Renormalizing THEN 0 ELSE steps_since_renormalize + 1
  /\ decisions' = Append(decisions, [state \in States |-> IF FromHigh(state, soft) THEN 1 ELSE 0])
  /\ received' = Append(received, soft)
  /\ UNCHANGED <<config, busy, best_state>>

Return ==
  /\ busy /\ left = 0 /\ busy' = FALSE
  /\ \E best \in States : IsBest(best) /\ best_state' = best
  /\ UNCHANGED <<config, metrics, steps_since_renormalize, left, decisions, received>>

(* ViterbiK7R2Reset                                                        *)
Reset ==
  /\ ~busy
  /\ metrics' = StartMetrics(config) /\ steps_since_renormalize' = 0
  /\ decisions' = <<>> /\ received' = <<>>
  /\ UNCHANGED <<config, busy, left, best_state>>

Next ==
  \/ \E steps \in StepCounts : Execute(steps)
  \/ \E soft \in Symbols \X Symbols : Step(soft)
  \/ Return \/ Reset

Spec == Init /\ [][Next]_vars

-----------------------------------------------------------------------------
(* The kernel's variables have their types, and the steps since the last   *)
(* renormalization stay below the period.                                  *)
TypeOK ==
  /\ config \in Configs
  /\ metrics \in [States -> 0 .. Modulus - 1]
  /\ steps_since_renormalize \in 0 .. Period - 1
  /\ busy \in BOOLEAN /\ left \in Nat
  /\ decisions \in Seq([States -> Bits]) /\ best_state \in States
  /\ received \in Seq(Symbols \X Symbols)
  /\ Len(decisions) = Len(received)

(* "Path metrics are 16-bit and renormalised periodically, so they never   *)
(* saturate": a metric always leaves room for one more branch.             *)
NeverSaturates == \A state \in States : metrics[state] + LargestBranch < Modulus
=============================================================================
