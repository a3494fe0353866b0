---------------------------- MODULE MCCostasLoop -----------------------------
(***************************************************************************)
(* Detector errors for checking CostasLoop, and a loop whose state can be  *)
(* taken over.                                                             *)
(***************************************************************************)
EXTENDS CostasLoop

TwoErrors == {-2, 1}

(* A loop that started like this one and has seen three samples, with the  *)
(* errors 1, -1 and 1 in every lane.                                       *)
AfterThreeSamples ==
  {[phase |-> [lane \in Lanes |-> 4], phasor |-> [lane \in Lanes |-> 0],
    frequency |-> [lane \in Lanes |-> 2], last_error |-> [lane \in Lanes |-> 1],
    pending |-> [lane \in Lanes |-> [slot \in 0 .. 1 |-> Step(3 * slot)]],
    samples_since_normalization |-> 1]}
=============================================================================
