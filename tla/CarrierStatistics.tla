-------------------------- MODULE CarrierStatistics ---------------------------
(***************************************************************************)
(* What the QPSK carrier analyzer promises: every call reports on exactly  *)
(* the samples of its block, and compares each sample that is strong       *)
(* enough with the one before it in the stream, if that was strong enough  *)
(* too.  The stream goes on over calls and ends at a reset.                *)
(*                                                                         *)
(* A block is a sequence that says of each sample whether it is strong     *)
(* enough.  The samples of a block are numbered from 1; sample 0 is the    *)
(* last one of the block before.                                           *)
(***************************************************************************)
EXTENDS Integers, Sequences, FiniteSets

CONSTANTS
  Blocks,      \* blocks that callers pass
  Busy         \* the report while a call works on it

VARIABLES
  strong,      \* whether the last sample of the stream was strong enough
  block,       \* the block of the last call
  report       \* the report of the last call

vars == <<strong, block, report>>

-----------------------------------------------------------------------------
StrongSamples(b) == {n \in DOMAIN b : b[n]}

(* Samples of a block that are compared with the one before.               *)
Follows(b, before) == {n \in StrongSamples(b) : IF n = 1 THEN before ELSE b[n - 1]}

(* The sums: how often each sample is part of the sum of powers, of the    *)
(* sum over strong samples, and which pairs are in the differential sum.   *)
Statistics(b, before) ==
  [all        |-> [n \in DOMAIN b |-> 1],
   valid      |-> [n \in DOMAIN b |-> IF b[n] THEN 1 ELSE 0],
   count      |-> Cardinality(StrongSamples(b)),
   pairs      |-> {<<n - 1, n>> : n \in Follows(b, before)},
   pair_count |-> Cardinality(Follows(b, before))]

LastOf(b, before) == IF b = << >> THEN before ELSE b[Len(b)]

Init == strong = FALSE /\ block = << >> /\ report = Statistics(<< >>, FALSE)

Start == report # Busy /\ block' \in Blocks /\ report' = Busy /\ UNCHANGED strong

Finish ==
  /\ report = Busy
  /\ report' = Statistics(block, strong)
  /\ strong' = LastOf(block, strong)
  /\ UNCHANGED block

Reset == report # Busy /\ strong' = FALSE /\ UNCHANGED <<block, report>>

Next == Start \/ Finish \/ Reset

Spec == Init /\ [][Next]_vars
=============================================================================
