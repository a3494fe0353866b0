---------------------------- MODULE ViterbiPaths -----------------------------
(***************************************************************************)
(* What the decisions of the Viterbi decoder promise.                      *)
(*                                                                         *)
(* A path is all that an encoder may have been given: the Memory bits it   *)
(* remembered at the start, the oldest first, and a bit for every step.    *)
(* The decoder's metrics and decisions are compared with the costs of all  *)
(* paths.                                                                  *)
(***************************************************************************)
EXTENDS ViterbiK7R2

(* "The code polynomials tap the newest and oldest bit."                   *)
ASSUME TapsAssumption == \A polynomial \in Polynomials : {1, Memory + 1} \subseteq polynomial

Steps == Len(received)
Paths == [1 .. Memory + Steps -> Bits]

StateAfter(path, step) == [bit \in 1 .. Memory |-> path[Memory + step + 1 - bit]]

(* How far the symbols of a step are from what the encoder sends.          *)
Distance(path, step) ==
  LET register == Register(StateAfter(path, step - 1), path[Memory + step])
  IN  Difference(ExpectedBit(config.polynomial_a, register), received[step][1])
        + Difference(ExpectedBit(config.polynomial_b, register), received[step][2])

(* uni_simd_typedefs.h gives (d + 1) / 8, rounded down, for any branch.    *)
(* The branches with complementary bits cost 63 minus that of the others,  *)
(* which is d / 8, rounded down.                                           *)
Cost(path, step) ==
  (Distance(path, step) + (IF path[step] = path[Memory + step] THEN 1 ELSE 0)) \div 8

Total(path) ==
  LET total[step \in 0 .. Steps] ==
        IF step = 0 THEN StartMetrics(config)[StateAfter(path, 0)]
        ELSE total[step - 1] + Cost(path, step)
  IN  total[Steps]

(* What the cheapest path into each state costs.                           *)
Least ==
  LET total == [path \in Paths |-> Total(path)]
  IN  [state \in States |-> Min({total[path] : path \in {p \in Paths : StateAfter(p, Steps) = state}})]

(* However the steps are cut into blocks and whenever metrics have been    *)
(* renormalized, they show by how much the cheapest path into a state is   *)
(* dearer than the cheapest of all.                                        *)
CostsAreExact ==
  LET least == Least
  IN  \A state \in States : metrics[state] - LeastOf(metrics) = least[state] - LeastOf(least)

(* The path that the decisions trace back from a state.                    *)
Survivor(end) ==
  LET state[step \in 0 .. Steps] ==
        IF step = Steps THEN end
        ELSE Old(state[step + 1], decisions[step + 1][state[step + 1]])
  IN  [bit \in 1 .. Memory + Steps |->
         IF bit <= Memory THEN state[0][Memory + 1 - bit] ELSE state[bit - Memory][1]]

(* Tracing back from a state finds a cheapest path into it, and from the   *)
(* best state, after a block, a cheapest path of all.                      *)
SurvivorsAreBest ==
  LET least == Least
  IN  /\ \A state \in States : /\ StateAfter(Survivor(state), Steps) = state
                                /\ Total(Survivor(state)) = least[state]
      /\ ~busy /\ Steps > 0 => least[best_state] = LeastOf(least)
=============================================================================
