-------------------------- MODULE MCCarrierAnalyzer ---------------------------
EXTENDS CarrierAnalyzer

(* Lengths below, at and above a batch of each backend.                    *)
Lengths == {0, 1, 4, 9, 17}

(* One sample is too weak, or two neighbours, or all but at most one.      *)
SomeBlocks ==
  UNION {{[n \in 1 .. length |-> n \notin {k, k + 1}] : k \in 0 .. length}
           \cup {[n \in 1 .. length |-> n # k] : k \in 0 .. length}
           \cup {[n \in 1 .. length |-> n = k] : k \in 0 .. length} : length \in Lengths}
=============================================================================
