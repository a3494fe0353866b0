--------------------------- MODULE CarrierAnalyzer ----------------------------
(***************************************************************************)
(* The QPSK carrier analyzer: sums over a block of samples, and of each    *)
(* sample with the one before it, which may be the last of an older block. *)
(*                                                                         *)
(* The vector loops take whole batches of samples and leave the rest to    *)
(* the scalar loop; the sample to compare with is handed on through the    *)
(* analyzer, from lane to lane, batch to batch, loop to loop and call to   *)
(* call.  A sample is represented by its number in the current block, the  *)
(* sums by what they have been given.                                      *)
(*                                                                         *)
(* A definition whose comment starts with Fault is no part of the model:   *)
(* it is the definition that follows it with a plausible mistake, which a  *)
(* property below must notice.                                             *)
(***************************************************************************)
EXTENDS Integers, Sequences, FiniteSets

CONSTANTS
  Backends,    \* implementations that are explored
  Blocks,      \* blocks that callers pass: whether a sample's power exceeds epsilon
  None,        \* previous_fourth_valid is false
  Busy

(* Samples per iteration of a vector loop; the generic code has none.      *)
Lanes == [generic |-> 0, neon |-> 4, avx2_fma |-> 8, avx512 |-> 16]

ASSUME ConstantsAssumption ==
  /\ Backends \subseteq DOMAIN Lanes
  /\ Blocks \subseteq Seq(BOOLEAN)
  /\ None \notin Int
  /\ Busy \notin [all : Seq(Nat), valid : Seq(Nat), count : Nat, pairs : SUBSET (Int \X Int),
                  pair_count : Nat]

VARIABLES
  backend,
  previous,    \* the sample the next one is compared with, or None
  result,      \* what the caller sees, while a call works on it its sums so far
  stage,       \* the loop a call is in, or "idle"
  block,       \* input of the last call that was accepted
  index,       \* samples the loops are past
  lane,        \* lanes of the current batch that commit_adjacency is past
  vectors,     \* sums kept in vector registers
  entered      \* history variable: whether previous was valid when the call started

call == <<stage, block, index, lane, vectors>>
vars == <<backend, previous, result, call, entered>>

-----------------------------------------------------------------------------
Nothing(b) == [n \in DOMAIN b |-> 0]

Cleared(b) ==
  [all |-> Nothing(b), valid |-> Nothing(b), count |-> 0, pairs |-> {}, pair_count |-> 0]

NoVectors(b) == [all |-> Nothing(b), valid |-> Nothing(b)]

Width == Lanes[backend]
Batch == index + 1 .. index + Width
BatchLeft == backend # "generic" /\ index + Width <= Len(block)
Valid(samples) == {n \in samples : block[n]}

(* Each of the samples is added once more.                                 *)
Added(times, samples) ==
  [n \in DOMAIN times |-> IF n \in samples THEN times[n] + 1 ELSE times[n]]

Sum(left, right) == [n \in DOMAIN left |-> left[n] + right[n]]

(* The sums over all samples, over the valid ones, and their number.       *)
Accumulated(sums, samples) ==
  [all        |-> Added(sums.all, samples),
   valid      |-> Added(sums.valid, Valid(samples)),
   count      |-> sums.count + Cardinality(Valid(samples)),
   pairs      |-> sums.pairs,
   pair_count |-> sums.pair_count]

(* Fault: a sample that is too weak is only left out.                      *)
AdjacencySkipsWeak(sums, n) ==
  /\ previous' = IF block[n] THEN n ELSE previous
  /\ result' = IF block[n] /\ previous # None
               THEN [sums EXCEPT !.pairs = @ \cup {<<previous, n>>}, !.pair_count = @ + 1]
               ELSE sums

(* Compare sample n with the previous one and put it in its place.         *)
Adjacency(sums, n) ==
  /\ previous' = IF block[n] THEN n ELSE None
  /\ result' = IF block[n] /\ previous # None
               THEN [sums EXCEPT !.pairs = @ \cup {<<previous, n>>}, !.pair_count = @ + 1]
               ELSE sums

-----------------------------------------------------------------------------
Init ==
  /\ backend \in Backends
  /\ previous = None /\ entered = FALSE
  /\ stage = "idle" /\ block = << >> /\ index = 0 /\ lane = 0
  /\ vectors = NoVectors(<< >>) /\ result = Cleared(<< >>)

(* A call on a bad descriptor is refused.  Whether the memory of the       *)
(* samples is usable (there, aligned, of possible size, and apart from the *)
(* result) only matters if there are samples.                              *)
Accepts(b, usable, descriptor) == descriptor /\ (b # << >> => usable)

Refuse(b, usable, descriptor) ==
  /\ stage = "idle" /\ ~Accepts(b, usable, descriptor)
  /\ UNCHANGED vars

(* QpskCarrierAnalyzerExecute clears the result; the loops only see blocks *)
(* that have samples.                                                      *)
Execute(b, usable, descriptor) ==
  /\ stage = "idle" /\ Accepts(b, usable, descriptor)
  /\ block' = b /\ index' = 0 /\ lane' = 0 /\ vectors' = NoVectors(b)
  /\ result' = Cleared(b)
  /\ stage' = IF b = << >> THEN "return" ELSE "vector"
  /\ entered' = (previous # None)
  /\ UNCHANGED <<backend, previous>>

(* One iteration of a vector loop.  The AVX loops keep sums in registers   *)
(* and count valid lanes at once, the NEON loop adds lane by lane.         *)
VectorBatch ==
  /\ stage = "vector" /\ BatchLeft
  /\ IF backend = "neon"
     THEN result' = Accumulated(result, Batch) /\ UNCHANGED vectors
     ELSE /\ vectors' = [all   |-> Added(vectors.all, Batch),
                         valid |-> Added(vectors.valid, Valid(Batch))]
          /\ result' = [result EXCEPT !.count = @ + Cardinality(Valid(Batch))]
  /\ stage' = "adjacency" /\ lane' = 0
  /\ UNCHANGED <<backend, previous, block, index, entered>>

(* Fault: the lanes are counted up to their number.                        *)
CommitLaneOneMore ==
  /\ stage = "adjacency"
  /\ Adjacency(result, index + lane + 1)
  /\ IF lane + 1 <= Width
     THEN lane' = lane + 1 /\ UNCHANGED <<stage, index>>
     ELSE lane' = 0 /\ stage' = "vector" /\ index' = index + Width
  /\ UNCHANGED <<backend, block, vectors, entered>>

(* commit_adjacency, one lane at a time.                                   *)
CommitLane ==
  /\ stage = "adjacency"
  /\ Adjacency(result, index + lane + 1)
  /\ IF lane + 1 < Width
     THEN lane' = lane + 1 /\ UNCHANGED <<stage, index>>
     ELSE lane' = 0 /\ stage' = "vector" /\ index' = index + Width
  /\ UNCHANGED <<backend, block, vectors, entered>>

(* The vector loop is over: its registers are added to the result.         *)
EndVectors ==
  /\ stage = "vector" /\ ~BatchLeft
  /\ result' = [result EXCEPT !.all = Sum(@, vectors.all), !.valid = Sum(@, vectors.valid)]
  /\ stage' = "scalar"
  /\ UNCHANGED <<backend, previous, block, index, lane, vectors, entered>>

(* One iteration of QpskCarrierAnalyzer_scalar_accumulate.                 *)
ScalarSample ==
  /\ stage = "scalar" /\ index < Len(block)
  /\ Adjacency(Accumulated(result, {index + 1}), index + 1)
  /\ index' = index + 1
  /\ UNCHANGED <<backend, stage, block, lane, vectors, entered>>

(* The call returns.  Samples of the next block are numbered from 1 again. *)
Return ==
  /\ stage = "return" \/ (stage = "scalar" /\ index = Len(block))
  /\ previous' = IF previous = None THEN None ELSE previous - Len(block)
  /\ stage' = "idle" /\ index' = 0 /\ vectors' = NoVectors(<< >>)
  /\ UNCHANGED <<backend, result, block, lane, entered>>

(* QpskCarrierAnalyzerReset                                                *)
Reset ==
  /\ stage = "idle" /\ previous' = None
  /\ UNCHANGED <<backend, result, call, entered>>

Next ==
  \/ VectorBatch \/ CommitLane \/ EndVectors \/ ScalarSample \/ Return \/ Reset
  \/ \E b \in Blocks, usable, descriptor \in BOOLEAN :
       Refuse(b, usable, descriptor) \/ Execute(b, usable, descriptor)

Spec == Init /\ [][Next]_vars

-----------------------------------------------------------------------------
Times(b) == [DOMAIN b -> Nat]

(* Positions stay inside the block, and a lane inside its batch.           *)
TypeOK ==
  /\ backend \in Backends
  /\ previous \in Int \cup {None} /\ entered \in BOOLEAN
  /\ stage \in {"idle", "vector", "adjacency", "scalar", "return"}
  /\ block \in Seq(BOOLEAN)
  /\ index \in 0 .. Len(block) /\ lane \in Nat
  /\ stage = "adjacency" => lane < Width /\ index + Width <= Len(block)
  /\ stage \in {"vector", "adjacency", "scalar"} =>
       vectors \in [all : Times(block), valid : Times(block)]
  /\ result \in [all : Times(block), valid : Times(block), count : Nat,
                 pairs : SUBSET (Int \X Int), pair_count : Nat]

(* Whatever backend runs and wherever its batches, its scalar rest and the *)
(* caller's blocks end, each call reports what CarrierStatistics says: no  *)
(* sample is left out or added twice, and pairs are formed over all of     *)
(* these borders, but never across a sample that is too weak or a reset.   *)
Promise == INSTANCE CarrierStatistics WITH
  strong <- IF stage = "idle" THEN previous = 0 ELSE entered,
  report <- IF stage = "idle" THEN result ELSE Busy
AreStatistics == Promise!Spec
=============================================================================
