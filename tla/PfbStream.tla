------------------------------ MODULE PfbStream ------------------------------
(***************************************************************************)
(* What a polyphase filter bank channelizer promises.                      *)
(*                                                                         *)
(* The stream is an endless sequence of complex samples, numbered from 0.  *)
(* Hop h ends on sample h * Decimation and is a function of the newest     *)
(* FilterSpan samples at that point (samples before the stream are zero)   *)
(* and of the post phase h % PhasePeriod.  A channelizer is a position in  *)
(* that stream: processing a block delivers the hops that end inside it,   *)
(* whatever block size the caller chose and whatever kernel runs.          *)
(***************************************************************************)
EXTENDS Integers, Sequences

CONSTANTS
  FilterSpan,   \* taps rounded up to whole polyphase rows
  Decimation,   \* samples between two hops
  PhasePeriod,  \* hops after which the output phase rotation repeats
  Outputs,      \* number of selected bins; with none nothing is delivered
  BlockSizes,   \* sizes of the blocks callers pass
  MaxPosition   \* bound on the length of the stream that is explored

VARIABLES
  position,     \* samples consumed since construction or reset
  delivered     \* hops delivered by the last completed operation

vars == <<position, delivered>>

-----------------------------------------------------------------------------
Silence == -1   \* the zero sample that precedes every stream

Sample(n) == IF n < 0 THEN Silence ELSE n

(* The samples the taps of a hop that ends on sample n see, newest first.  *)
Window(n) == [tap \in 0 .. FilterSpan - 1 |-> Sample(n - tap)]

(* Hops that end before sample n: those on samples 0, Decimation, ...      *)
HopsBefore(n) == (n + Decimation - 1) \div Decimation

Hop(h) == [at     |-> h * Decimation,
           phase  |-> h % PhasePeriod,
           window |-> Window(h * Decimation)]

HopsBetween(from, to) ==
  IF Outputs = 0 THEN << >>
  ELSE [j \in 1 .. HopsBefore(to) - HopsBefore(from) |-> Hop(HopsBefore(from) + j - 1)]

-----------------------------------------------------------------------------
Init == position = 0 /\ delivered = << >>

(* Consume a block and deliver every hop that ends inside it.              *)
Process(count) ==
  /\ position + count <= MaxPosition
  /\ position' = position + count
  /\ delivered' = HopsBetween(position, position + count)

(* Consume a block as processing it would, without the outputs.            *)
Advance(count) ==
  /\ position + count <= MaxPosition
  /\ position' = position + count
  /\ delivered' = << >>

Reset == position' = 0 /\ delivered' = << >>

Next == Reset \/ \E count \in BlockSizes : Process(count) \/ Advance(count)

Spec == Init /\ [][Next]_vars
=============================================================================
