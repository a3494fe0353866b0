------------------------------ MODULE SimdLanes -------------------------------
(***************************************************************************)
(* What the vector instructions of the stateless kernels do to the lanes   *)
(* of a register.  A register is a function on its lanes 0, 1, ..., which  *)
(* says of each lane what it holds, for instance the number of an input.   *)
(***************************************************************************)
EXTENDS Integers, Sequences, FiniteSets

(* Consecutive inputs from the first one on.                               *)
Loaded(first, lanes) == [lane \in 0 .. lanes - 1 |-> first + lane]

(* Lane n of the result is the lane of the n-th index.                     *)
Permuted(register, indices) == [lane \in 0 .. Len(indices) - 1 |-> register[indices[lane + 1]]]

(* The same permutation of every block of Len(indices) lanes.              *)
PermutedBlocks(register, indices) ==
  [lane \in DOMAIN register |->
     LET place == lane % Len(indices) IN register[lane - place + indices[place + 1]]]

(* Halves of two registers, interleaved in pieces of some lanes.           *)
Interleaved(left, right, first, piece) ==
  [lane \in DOMAIN left |->
     LET n == lane \div piece
         from == first + (n \div 2) * piece + (lane % piece)
     IN  IF n % 2 = 0 THEN left[from] ELSE right[from]]

(* The whole of one register followed by the whole of another.             *)
Joined(low, high) ==
  LET length == Cardinality(DOMAIN low)
  IN  [lane \in 0 .. (2 * length) - 1 |-> IF lane < length THEN low[lane] ELSE high[lane - length]]

(* Of four lanes each of two registers, the even ones or the odd ones.     *)
Halved(left, right, odd) ==
  [lane \in 0 .. 3 |->
     IF lane < 2 THEN left[2 * lane + odd] ELSE right[2 * (lane - 2) + odd]]

(* Sums of neighbours, of both registers by turns of two lanes.            *)
NeighbourSums(left, right) ==
  [lane \in 0 .. 7 |->
     LET pair == 2 * (lane % 2) + (4 * (lane \div 4))
         from == IF lane % 4 < 2 THEN left ELSE right
     IN  {from[pair], from[pair + 1]}]
=============================================================================
