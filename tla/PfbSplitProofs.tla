---------------------------- MODULE PfbSplitProofs ----------------------------
(***************************************************************************)
(* Proof that two channelizers that share the work on a block are one, for *)
(* every layout, both implementations and every way to cut the stream.     *)
(*                                                                         *)
(* Each channelizer by itself keeps the invariant SInv of PfbRingProofs,   *)
(* whose lemmas are used for both: One and Two are that module with the    *)
(* constants of the first and of the second channelizer.  What a           *)
(* channelizer keeps between calls (Rests) satisfies the invariant of the  *)
(* other one as well once their rings have the same size, which is what    *)
(* copy_state_from compares.  The rest of the argument is where in the     *)
(* block each of them can be, and that hops of adjacent parts join.        *)
(***************************************************************************)
EXTENDS PfbSplit, TLAPS

One == INSTANCE PfbRingProofs
Two == INSTANCE PfbRingProofs WITH Backend <- OtherBackend, RunsAvailable <- FALSE

-----------------------------------------------------------------------------
(* The two instances stand for the channelizers of the specification.      *)

LEMMA OneAssumed ==
  One!LayoutAssumption /\ One!PeriodAssumption /\ One!HistoryAssumption
BY FirstAssumption
   DEF First!LayoutAssumption, One!LayoutAssumption, First!PeriodAssumption,
       One!PeriodAssumption, First!HistoryAssumption, One!HistoryAssumption,
       First!StagedLayout, One!StagedLayout, First!PowersOfTwo, One!PowersOfTwo,
       First!HistoryNeeded, One!HistoryNeeded, First!FilterSpan, One!FilterSpan,
       First!Staging, One!Staging, First!RunsD4x4, One!RunsD4x4, First!StagedD4x4,
       One!StagedD4x4, First!Larger, One!Larger, First!WriteLookahead, One!WriteLookahead,
       First!RunsSpan, One!RunsSpan

LEMMA TwoAssumed ==
  Two!LayoutAssumption /\ Two!PeriodAssumption /\ Two!HistoryAssumption
BY SecondAssumption
   DEF Second!LayoutAssumption, Two!LayoutAssumption, Second!PeriodAssumption,
       Two!PeriodAssumption, Second!HistoryAssumption, Two!HistoryAssumption,
       Second!StagedLayout, Two!StagedLayout, Second!PowersOfTwo, Two!PowersOfTwo,
       Second!HistoryNeeded, Two!HistoryNeeded, Second!FilterSpan, Two!FilterSpan,
       Second!Staging, Two!Staging, Second!RunsD4x4, Two!RunsD4x4, Second!StagedD4x4,
       Two!StagedD4x4, Second!Larger, Two!Larger, Second!WriteLookahead, Two!WriteLookahead,
       Second!RunsSpan, Two!RunsSpan

(* All that these steps are made of has the same definition in both.       *)
LEMMA OneIsFirst ==
  /\ First!FilterSpan = One!FilterSpan /\ First!HistorySize = One!HistorySize
  /\ First!Init <=> One!Init
  /\ First!Loop <=> One!Loop
  /\ First!Reset <=> One!Reset
  /\ \A count : First!Process(count) <=> One!Process(count)
<1>1. /\ First!FilterSpan = One!FilterSpan /\ First!HistorySize = One!HistorySize
      /\ First!StagedLayout = One!StagedLayout /\ First!ExactD4x4 = One!ExactD4x4
      /\ First!RunsD4x4 = One!RunsD4x4 /\ First!UsesD4x4Loop = One!UsesD4x4Loop
  BY DEF First!FilterSpan, One!FilterSpan, First!HistorySize, One!HistorySize, First!StagedLayout,
       One!StagedLayout, First!ExactD4x4, One!ExactD4x4, First!RunsD4x4, One!RunsD4x4,
       First!UsesD4x4Loop, One!UsesD4x4Loop, First!BatchLimit, One!BatchLimit,
       First!HistoryNeeded, One!HistoryNeeded, First!NextPowerOfTwo, One!NextPowerOfTwo,
       First!StagedD4x4, One!StagedD4x4, First!Smaller, One!Smaller, First!Staging, One!Staging,
       First!PowersOfTwo, One!PowersOfTwo, First!Larger, One!Larger, First!RunsSpan, One!RunsSpan,
       First!WriteLookahead, One!WriteLookahead
<1>2. First!BatchLimit = One!BatchLimit
  BY <1>1 DEF First!BatchLimit, One!BatchLimit, First!Smaller, One!Smaller
<1>3. First!Init <=> One!Init
  BY <1>1, <1>2 DEF First!Init, One!Init, First!Silence, One!Silence, First!Stream!Silence,
       One!Stream!Silence
<1>4. First!WriteBetweenHops <=> One!WriteBetweenHops
  BY <1>1, <1>2 DEF First!WriteBetweenHops, One!WriteBetweenHops, First!Counted, One!Counted,
       First!Remaining, One!Remaining, First!WriteSamples, One!WriteSamples, First!Now, One!Now,
       First!Wrap, One!Wrap, First!Written, One!Written
<1>5. First!StreamHop <=> One!StreamHop
  BY <1>1, <1>2 DEF First!StreamHop, One!StreamHop, First!Counted, One!Counted, First!Filtered,
       One!Filtered, First!Remaining, One!Remaining, First!ThisHop, One!ThisHop,
       First!WriteSamples, One!WriteSamples, First!BatchWindow, One!BatchWindow, First!Now,
       One!Now, First!Wrap, One!Wrap, First!Written, One!Written, First!SharesLoads,
       One!SharesLoads
<1>6. First!RunSpan <=> One!RunSpan
  BY <1>1, <1>2 DEF First!RunSpan, One!RunSpan, First!NextHops, One!NextHops, First!RunFiltered,
       One!RunFiltered, First!RunsApply, One!RunsApply, First!RunsSpan, One!RunsSpan,
       First!StageSpan, One!StageSpan, First!Now, One!Now, First!PhaseAfter, One!PhaseAfter,
       First!Wrap, One!Wrap, First!RunOrigin, One!RunOrigin, First!Remaining, One!Remaining,
       First!WriteSamples, One!WriteSamples, First!Written, One!Written
<1>7. First!StagedSpan <=> One!StagedSpan
  BY <1>1, <1>2 DEF First!StagedSpan, One!StagedSpan, First!Filtered, One!Filtered,
       First!NextHops, One!NextHops, First!PhaseAfter, One!PhaseAfter, First!RunsApply,
       One!RunsApply, First!StageSpan, One!StageSpan, First!WriteLookahead, One!WriteLookahead,
       First!BatchWindow, One!BatchWindow, First!Now, One!Now, First!Wrap, One!Wrap,
       First!Remaining, One!Remaining, First!RunsSpan, One!RunsSpan, First!WriteSamples,
       One!WriteSamples, First!SharesLoads, One!SharesLoads, First!Written, One!Written
<1>8. First!GroupStep <=> One!GroupStep
  BY <1>1, <1>2 DEF First!GroupStep, One!GroupStep, First!Filtered, One!Filtered,
       First!GroupSamples, One!GroupSamples, First!NextHops, One!NextHops, First!Now, One!Now,
       First!PhaseAfter, One!PhaseAfter, First!Remaining, One!Remaining, First!Wrap, One!Wrap,
       First!WriteLookahead, One!WriteLookahead, First!Written, One!Written, First!BatchWindow,
       One!BatchWindow, First!SharesLoads, One!SharesLoads
<1>9. First!TailHop <=> One!TailHop
  BY <1>1, <1>2 DEF First!TailHop, One!TailHop, First!Counted, One!Counted, First!GroupSamples,
       One!GroupSamples, First!Remaining, One!Remaining, First!ThisHop, One!ThisHop,
       First!WriteSamples, One!WriteSamples, First!Now, One!Now, First!Wrap, One!Wrap,
       First!Written, One!Written
<1>10. First!Return <=> One!Return
  BY <1>1, <1>2 DEF First!Return, One!Return, First!Filtered, One!Filtered, First!Now, One!Now,
       First!Remaining, One!Remaining, First!BatchWindow, One!BatchWindow, First!SharesLoads,
       One!SharesLoads
<1>11. First!Loop <=> One!Loop
  BY <1>4, <1>5, <1>6, <1>7, <1>8, <1>9, <1>10, Zenon DEF First!Loop, One!Loop
<1>12. First!Reset <=> One!Reset
  BY <1>1, <1>2 DEF First!Reset, One!Reset, First!Silence, One!Silence, First!call, One!call,
       First!locals, One!locals, First!Stream!Silence, One!Stream!Silence
<1>13. ASSUME NEW count PROVE First!Process(count) <=> One!Process(count)
  BY <1>1, <1>2 DEF First!Process, One!Process, First!Begin, One!Begin, First!ProcessNoOutputs,
       One!ProcessNoOutputs, First!state, One!state, First!OutputCount, One!OutputCount,
       First!Wrap, One!Wrap, First!call, One!call, First!locals, One!locals
<1> QED
  BY <1>1, <1>3, <1>11, <1>12, <1>13, Zenon

LEMMA TwoIsSecond ==
  /\ Second!FilterSpan = Two!FilterSpan /\ Second!HistorySize = Two!HistorySize
  /\ Second!Loop <=> Two!Loop
  /\ \A count : Second!Process(count) <=> Two!Process(count)
  /\ \A count : Second!Advance(count) <=> Two!Advance(count)
<1>1. /\ Second!FilterSpan = Two!FilterSpan /\ Second!HistorySize = Two!HistorySize
      /\ Second!StagedLayout = Two!StagedLayout /\ Second!ExactD4x4 = Two!ExactD4x4
      /\ Second!RunsD4x4 = Two!RunsD4x4 /\ Second!UsesD4x4Loop = Two!UsesD4x4Loop
  BY DEF Second!FilterSpan, Two!FilterSpan, Second!HistorySize, Two!HistorySize,
       Second!StagedLayout, Two!StagedLayout, Second!ExactD4x4, Two!ExactD4x4, Second!RunsD4x4,
       Two!RunsD4x4, Second!UsesD4x4Loop, Two!UsesD4x4Loop, Second!BatchLimit, Two!BatchLimit,
       Second!HistoryNeeded, Two!HistoryNeeded, Second!NextPowerOfTwo, Two!NextPowerOfTwo,
       Second!StagedD4x4, Two!StagedD4x4, Second!Smaller, Two!Smaller, Second!Staging,
       Two!Staging, Second!PowersOfTwo, Two!PowersOfTwo, Second!Larger, Two!Larger,
       Second!RunsSpan, Two!RunsSpan, Second!WriteLookahead, Two!WriteLookahead
<1>2. Second!BatchLimit = Two!BatchLimit
  BY <1>1 DEF Second!BatchLimit, Two!BatchLimit, Second!Smaller, Two!Smaller
<1>3. Second!WriteBetweenHops <=> Two!WriteBetweenHops
  BY <1>1, <1>2 DEF Second!WriteBetweenHops, Two!WriteBetweenHops, Second!Counted, Two!Counted,
       Second!Remaining, Two!Remaining, Second!WriteSamples, Two!WriteSamples, Second!Now,
       Two!Now, Second!Wrap, Two!Wrap, Second!Written, Two!Written
<1>4. Second!StreamHop <=> Two!StreamHop
  BY <1>1, <1>2 DEF Second!StreamHop, Two!StreamHop, Second!Counted, Two!Counted, Second!Filtered,
       Two!Filtered, Second!Remaining, Two!Remaining, Second!ThisHop, Two!ThisHop,
       Second!WriteSamples, Two!WriteSamples, Second!BatchWindow, Two!BatchWindow, Second!Now,
       Two!Now, Second!Wrap, Two!Wrap, Second!Written, Two!Written, Second!SharesLoads,
       Two!SharesLoads
<1>5. Second!RunSpan <=> Two!RunSpan
  BY <1>1, <1>2 DEF Second!RunSpan, Two!RunSpan, Second!NextHops, Two!NextHops,
       Second!RunFiltered, Two!RunFiltered, Second!RunsApply, Two!RunsApply, Second!RunsSpan,
       Two!RunsSpan, Second!StageSpan, Two!StageSpan, Second!Now, Two!Now, Second!PhaseAfter,
       Two!PhaseAfter, Second!Wrap, Two!Wrap, Second!RunOrigin, Two!RunOrigin, Second!Remaining,
       Two!Remaining, Second!WriteSamples, Two!WriteSamples, Second!Written, Two!Written
<1>6. Second!StagedSpan <=> Two!StagedSpan
  BY <1>1, <1>2 DEF Second!StagedSpan, Two!StagedSpan, Second!Filtered, Two!Filtered,
       Second!NextHops, Two!NextHops, Second!PhaseAfter, Two!PhaseAfter, Second!RunsApply,
       Two!RunsApply, Second!StageSpan, Two!StageSpan, Second!WriteLookahead, Two!WriteLookahead,
       Second!BatchWindow, Two!BatchWindow, Second!Now, Two!Now, Second!Wrap, Two!Wrap,
       Second!Remaining, Two!Remaining, Second!RunsSpan, Two!RunsSpan, Second!WriteSamples,
       Two!WriteSamples, Second!SharesLoads, Two!SharesLoads, Second!Written, Two!Written
<1>7. Second!GroupStep <=> Two!GroupStep
  BY <1>1, <1>2 DEF Second!GroupStep, Two!GroupStep, Second!Filtered, Two!Filtered,
       Second!GroupSamples, Two!GroupSamples, Second!NextHops, Two!NextHops, Second!Now, Two!Now,
       Second!PhaseAfter, Two!PhaseAfter, Second!Remaining, Two!Remaining, Second!Wrap, Two!Wrap,
       Second!WriteLookahead, Two!WriteLookahead, Second!Written, Two!Written, Second!BatchWindow,
       Two!BatchWindow, Second!SharesLoads, Two!SharesLoads
<1>8. Second!TailHop <=> Two!TailHop
  BY <1>1, <1>2 DEF Second!TailHop, Two!TailHop, Second!Counted, Two!Counted, Second!GroupSamples,
       Two!GroupSamples, Second!Remaining, Two!Remaining, Second!ThisHop, Two!ThisHop,
       Second!WriteSamples, Two!WriteSamples, Second!Now, Two!Now, Second!Wrap, Two!Wrap,
       Second!Written, Two!Written
<1>9. Second!Return <=> Two!Return
  BY <1>1, <1>2 DEF Second!Return, Two!Return, Second!Filtered, Two!Filtered, Second!Now, Two!Now,
       Second!Remaining, Two!Remaining, Second!BatchWindow, Two!BatchWindow, Second!SharesLoads,
       Two!SharesLoads
<1>10. Second!Loop <=> Two!Loop
  BY <1>3, <1>4, <1>5, <1>6, <1>7, <1>8, <1>9, Zenon DEF Second!Loop, Two!Loop
<1>11. ASSUME NEW count PROVE Second!Process(count) <=> Two!Process(count)
  BY <1>1, <1>2 DEF Second!Process, Two!Process, Second!Begin, Two!Begin, Second!ProcessNoOutputs,
       Two!ProcessNoOutputs, Second!state, Two!state, Second!OutputCount, Two!OutputCount,
       Second!Wrap, Two!Wrap, Second!call, Two!call, Second!locals, Two!locals
<1>12. ASSUME NEW count PROVE Second!Advance(count) <=> Two!Advance(count)
  BY <1>1, <1>2 DEF Second!Advance, Two!Advance, Second!OutputCount, Two!OutputCount, Second!Wrap,
       Two!Wrap, Second!Written, Two!Written, Second!call, Two!call, Second!locals, Two!locals
<1> QED
  BY <1>1, <1>10, <1>11, <1>12, Zenon

LEMMA Constants ==
  /\ BlockSizes \subseteq Nat /\ MaxPosition \in Nat
  /\ Decimation \in Nat \ {0} /\ PhasePeriod \in Nat \ {0}
BY OneAssumed DEF One!LayoutAssumption

-----------------------------------------------------------------------------
(* What a channelizer keeps between calls.                                 *)

Rests(kept) ==
  /\ kept.history \in [0 .. 2 * One!HistorySize - 1 -> One!Samples]
  /\ kept.cursor \in One!Slots
  /\ kept.decimation_phase \in 0 .. Decimation - 1 /\ kept.post_phase \in 0 .. PhasePeriod - 1
  /\ kept.position \in Nat /\ kept.position <= MaxPosition
  /\ Outputs # 0 => One!Holds(kept.history, kept.cursor, kept.position)
  /\ One!Aligned(kept.decimation_phase, kept.post_phase, kept.position)
  /\ One!Intact(kept.delivered)

(* The locals of a call while there is none.                               *)
NoCall ==
  /\ input_count = 0 /\ input_index = 0 /\ queued = << >> /\ One!Intact(output)
  /\ run_cursor \in One!Slots
  /\ run_decimation_phase \in 0 .. Decimation - 1 /\ run_post_phase \in 0 .. PhasePeriod - 1

SameRing == One!HistorySize = Two!HistorySize

(* What the two modules say of the same ring and hops is the same.         *)
LEMMA SameWords ==
  /\ One!Samples = Two!Samples /\ One!Hops = Two!Hops
  /\ \A hops : One!Intact(hops) <=> Two!Intact(hops)
  /\ \A phase, post, n : One!Aligned(phase, post, n) <=> Two!Aligned(phase, post, n)
  /\ SameRing => /\ One!Slots = Two!Slots
                 /\ \A cells, slot, n : One!Holds(cells, slot, n) <=> Two!Holds(cells, slot, n)
<1>1. One!FilterSpan = Two!FilterSpan
  BY DEF One!FilterSpan, Two!FilterSpan
<1>2. One!Samples = Two!Samples
  BY DEF One!Samples, Two!Samples, One!Silence, Two!Silence, One!Stream!Silence, Two!Stream!Silence
<1>3. One!Hops = Two!Hops
  BY <1>1, <1>2 DEF One!Hops, Two!Hops
<1>4. \A n : One!Stream!Window(n) = Two!Stream!Window(n)
  BY DEF One!Stream!Window, Two!Stream!Window, One!Stream!Sample, Two!Stream!Sample,
         One!FilterSpan, Two!FilterSpan, One!Stream!Silence, Two!Stream!Silence
<1>5. \A hops : One!Intact(hops) <=> Two!Intact(hops)
  BY <1>3, <1>4 DEF One!Intact, Two!Intact
<1>6. \A phase, post, n : One!Aligned(phase, post, n) <=> Two!Aligned(phase, post, n)
  BY DEF One!Aligned, Two!Aligned, One!H, Two!H, One!Stream!HopsBefore, Two!Stream!HopsBefore
<1>7. ASSUME SameRing
      PROVE  /\ One!Slots = Two!Slots
             /\ \A cells, slot, n : One!Holds(cells, slot, n) <=> Two!Holds(cells, slot, n)
  <2>1. One!Slots = Two!Slots
    BY <1>7 DEF SameRing, One!Slots, Two!Slots
  <2>2. ASSUME NEW cells, NEW slot, NEW n
        PROVE  One!Holds(cells, slot, n) <=> Two!Holds(cells, slot, n)
    BY <1>7, <2>1 DEF SameRing, One!Holds, Two!Holds, One!Stream!Sample, Two!Stream!Sample,
                      One!Stream!Silence, Two!Stream!Silence
  <2> QED
    BY <2>1, <2>2
<1> QED
  BY <1>2, <1>3, <1>5, <1>6, <1>7

LEMMA OneRests == One!SInv /\ stage = "idle" => Rests(Kept) /\ NoCall
<1> SUFFICES ASSUME One!SInv, stage = "idle"
             PROVE  Rests(Kept) /\ NoCall
  OBVIOUS
<1>1. /\ One!TypeOK /\ One!RingIsStream /\ One!WindowsIntact /\ One!CallOK
      /\ One!Aligned(decimation_phase, post_phase, position)
  BY DEF One!SInv, One!IInv
<1>2. /\ input_count = 0 /\ input_index = 0 /\ queued = << >>
  BY <1>1 DEF One!CallOK
<1>3. One!Intact(output) /\ One!Intact(delivered)
  BY <1>1 DEF One!TypeOK, One!WindowsIntact, One!Intact
<1>4. position \in Nat /\ position <= MaxPosition /\ One!Now = position
  BY <1>1, <1>2, Constants DEF One!TypeOK, One!Now
<1>5. Outputs # 0 => One!Holds(history, cursor, position)
  BY <1>1, <1>4 DEF One!RingIsStream, One!WriteSlot
<1>6. NoCall
  BY <1>1, <1>2, <1>3 DEF NoCall, One!TypeOK
<1> QED
  BY <1>1, <1>3, <1>4, <1>5, <1>6 DEF Rests, Kept, One!TypeOK

LEMMA RestsOne == Rests(Kept) /\ NoCall /\ stage = "idle" => One!SInv
<1> SUFFICES ASSUME Rests(Kept), NoCall, stage = "idle"
             PROVE  One!SInv
  OBVIOUS
<1>1. position \in Nat /\ position <= MaxPosition /\ One!Now = position
  BY DEF Rests, Kept, NoCall, One!Now
<1>2. One!TypeOK
  BY <1>1 DEF Rests, Kept, NoCall, One!TypeOK, One!Intact
<1>3. One!RingIsStream
  BY <1>1 DEF Rests, Kept, One!RingIsStream, One!WriteSlot
<1>4. One!WindowsIntact
  BY DEF Rests, Kept, NoCall, One!WindowsIntact, One!Intact
<1>5. One!CallOK /\ One!QueueAges /\ One!QueueBounded
  BY DEF NoCall, One!CallOK, One!QueueAges, One!Ages, One!QueueBounded
<1> QED
  BY <1>2, <1>3, <1>4, <1>5 DEF One!SInv, One!IInv, Rests, Kept

LEMMA TwoRests == Two!SInv /\ SameRing /\ stage = "idle" => Rests(Kept) /\ NoCall
<1> SUFFICES ASSUME Two!SInv, SameRing, stage = "idle"
             PROVE  Rests(Kept) /\ NoCall
  OBVIOUS
<1>1. /\ Two!TypeOK /\ Two!RingIsStream /\ Two!WindowsIntact /\ Two!CallOK
      /\ Two!Aligned(decimation_phase, post_phase, position)
  BY DEF Two!SInv, Two!IInv
<1>2. /\ input_count = 0 /\ input_index = 0 /\ queued = << >>
  BY <1>1 DEF Two!CallOK
<1>3. Two!Intact(output) /\ Two!Intact(delivered)
  BY <1>1 DEF Two!TypeOK, Two!WindowsIntact, Two!Intact
<1>4. position \in Nat /\ position <= MaxPosition /\ Two!Now = position
  BY <1>1, <1>2, Constants DEF Two!TypeOK, Two!Now
<1>5. Outputs # 0 => Two!Holds(history, cursor, position)
  BY <1>1, <1>4 DEF Two!RingIsStream, Two!WriteSlot
<1>6. NoCall
  BY <1>1, <1>2, <1>3, SameWords DEF NoCall, Two!TypeOK
<1>7. /\ history \in [0 .. 2 * One!HistorySize - 1 -> One!Samples] /\ cursor \in One!Slots
      /\ decimation_phase \in 0 .. Decimation - 1 /\ post_phase \in 0 .. PhasePeriod - 1
  BY <1>1, SameWords DEF Two!TypeOK, SameRing
<1>8. /\ Outputs # 0 => One!Holds(history, cursor, position)
      /\ One!Aligned(decimation_phase, post_phase, position) /\ One!Intact(delivered)
  BY <1>1, <1>3, <1>5, SameWords
<1> QED
  BY <1>4, <1>6, <1>7, <1>8 DEF Rests, Kept

LEMMA RestsTwo == Rests(Kept) /\ NoCall /\ SameRing /\ stage = "idle" => Two!SInv
<1> SUFFICES ASSUME Rests(Kept), NoCall, SameRing, stage = "idle"
             PROVE  Two!SInv
  OBVIOUS
<1>1. position \in Nat /\ position <= MaxPosition /\ Two!Now = position
  BY DEF Rests, Kept, NoCall, Two!Now
<1>2. /\ Two!Intact(delivered) /\ Two!Intact(output)
      /\ Outputs # 0 => Two!Holds(history, cursor, position)
      /\ Two!Aligned(decimation_phase, post_phase, position)
  BY SameWords DEF Rests, Kept, NoCall
<1>3. /\ history \in [0 .. 2 * Two!HistorySize - 1 -> Two!Samples]
      /\ cursor \in Two!Slots /\ run_cursor \in Two!Slots
  BY SameWords DEF Rests, Kept, NoCall, SameRing
<1>4. Two!TypeOK
  BY <1>1, <1>2, <1>3 DEF Rests, Kept, NoCall, Two!TypeOK, Two!Intact
<1>5. Two!RingIsStream
  BY <1>1, <1>2 DEF Two!RingIsStream, Two!WriteSlot
<1>6. Two!WindowsIntact
  BY <1>2 DEF Two!WindowsIntact, Two!Intact
<1>7. Two!CallOK /\ Two!QueueAges /\ Two!QueueBounded
  BY DEF NoCall, Two!CallOK, Two!QueueAges, Two!Ages, Two!QueueBounded
<1> QED
  BY <1>2, <1>4, <1>5, <1>6, <1>7 DEF Two!SInv, Two!IInv

-----------------------------------------------------------------------------
(* What a step of a call does to the position and to the delivered hops.   *)

LEMMA SameHops ==
  \A from, to : /\ One!Stream!HopsBetween(from, to) = Joined!HopsBetween(from, to)
               /\ Two!Stream!HopsBetween(from, to) = Joined!HopsBetween(from, to)
BY DEF One!Stream!HopsBetween, Two!Stream!HopsBetween, Joined!HopsBetween,
       One!Stream!HopsBefore, Two!Stream!HopsBefore, Joined!HopsBefore, One!Stream!Hop,
       Two!Stream!Hop, Joined!Hop, One!Stream!Window, Two!Stream!Window, Joined!Window,
       One!Stream!Sample, Two!Stream!Sample, Joined!Sample, One!Stream!Silence,
       Two!Stream!Silence, Joined!Silence, One!FilterSpan, Two!FilterSpan, First!FilterSpan

GoesOn(count) == stage' # "idle" /\ input_count' = count /\ UNCHANGED <<position, delivered>>

Returns(count) ==
  /\ stage' = "idle" /\ position' = position + count
  /\ delivered' = Joined!HopsBetween(position, position')

LEMMA OneLoopStep ==
  ASSUME One!SInv, One!Loop
  PROVE  One!SInv' /\ stage # "idle" /\ (GoesOn(input_count) \/ Returns(input_count))
<1>1. One!SInv'
  BY OneAssumed, One!NextFollows DEF One!Next
<1>2. CASE One!Return
  <2>1. /\ stage # "idle" /\ stage' = "idle" /\ One!Remaining = 0 /\ position' = One!Now
    BY <1>2 DEF One!Return
  <2>2. position' = position + input_count
    BY <2>1, OneAssumed, One!NumbersType DEF One!SInv, One!IInv
  <2>3. PICK count \in BlockSizes : One!Stream!Process(count)
    BY <1>2, OneAssumed, One!ReturnIsProcess
  <2>4. delivered' = Joined!HopsBetween(position, position')
    BY <2>3, SameHops DEF One!Stream!Process
  <2> QED
    BY <1>1, <2>1, <2>2, <2>4 DEF Returns
<1>3. CASE ~One!Return
  BY <1>1, <1>3 DEF One!Loop, One!WriteBetweenHops, One!StreamHop, One!RunSpan, One!StagedSpan,
     One!StageSpan, One!GroupStep, One!TailHop, GoesOn
<1> QED
  BY <1>2, <1>3

LEMMA OneProcessStep ==
  ASSUME One!SInv, NEW count \in BlockSizes, One!Process(count)
  PROVE  One!SInv' /\ stage = "idle" /\ (GoesOn(count) \/ Returns(count))
<1>1. One!SInv'
  BY OneAssumed, One!NextFollows DEF One!Next
<1>2. CASE Outputs = 0
  <2>1. /\ stage = "idle" /\ stage' = "idle" /\ position' = position + count
        /\ delivered' = << >>
    BY <1>2 DEF One!Process, One!ProcessNoOutputs, One!call
  <2>2. Joined!HopsBetween(position, position') = << >>
    BY <1>2 DEF Joined!HopsBetween
  <2> QED
    BY <1>1, <2>1, <2>2 DEF Returns
<1>3. CASE Outputs # 0
  BY <1>1, <1>3 DEF One!Process, One!Begin, One!state, GoesOn
<1> QED
  BY <1>2, <1>3

LEMMA TwoLoopStep ==
  ASSUME Two!SInv, Two!Loop
  PROVE  Two!SInv' /\ stage # "idle" /\ (GoesOn(input_count) \/ Returns(input_count))
<1>1. Two!SInv'
  BY TwoAssumed, Two!NextFollows DEF Two!Next
<1>2. CASE Two!Return
  <2>1. /\ stage # "idle" /\ stage' = "idle" /\ Two!Remaining = 0 /\ position' = Two!Now
    BY <1>2 DEF Two!Return
  <2>2. position' = position + input_count
    BY <2>1, TwoAssumed, Two!NumbersType DEF Two!SInv, Two!IInv
  <2>3. PICK count \in BlockSizes : Two!Stream!Process(count)
    BY <1>2, TwoAssumed, Two!ReturnIsProcess
  <2>4. delivered' = Joined!HopsBetween(position, position')
    BY <2>3, SameHops DEF Two!Stream!Process
  <2> QED
    BY <1>1, <2>1, <2>2, <2>4 DEF Returns
<1>3. CASE ~Two!Return
  BY <1>1, <1>3 DEF Two!Loop, Two!WriteBetweenHops, Two!StreamHop, Two!RunSpan, Two!StagedSpan,
     Two!StageSpan, Two!GroupStep, Two!TailHop, GoesOn
<1> QED
  BY <1>2, <1>3

LEMMA TwoProcessStep ==
  ASSUME Two!SInv, NEW count \in BlockSizes, Two!Process(count)
  PROVE  Two!SInv' /\ stage = "idle" /\ (GoesOn(count) \/ Returns(count))
<1>1. Two!SInv'
  BY TwoAssumed, Two!NextFollows DEF Two!Next
<1>2. CASE Outputs = 0
  <2>1. /\ stage = "idle" /\ stage' = "idle" /\ position' = position + count
        /\ delivered' = << >>
    BY <1>2 DEF Two!Process, Two!ProcessNoOutputs, Two!call
  <2>2. Joined!HopsBetween(position, position') = << >>
    BY <1>2 DEF Joined!HopsBetween
  <2> QED
    BY <1>1, <2>1, <2>2 DEF Returns
<1>3. CASE Outputs # 0
  BY <1>1, <1>3 DEF Two!Process, Two!Begin, Two!state, GoesOn
<1> QED
  BY <1>2, <1>3

LEMMA TwoAdvanceStep ==
  ASSUME Two!SInv, NEW count \in BlockSizes, Two!Advance(count)
  PROVE  /\ Two!SInv' /\ stage = "idle" /\ stage' = "idle"
         /\ position' = position + count /\ delivered' = << >>
<1>1. Two!SInv'
  BY TwoAssumed, Two!NextFollows DEF Two!Next
<1> QED
  BY <1>1 DEF Two!Advance, Two!call

-----------------------------------------------------------------------------
(* The inductive invariant.                                                *)

Middle == parts.start + parts.first
End == parts.start + parts.first + parts.second

(* How far the channelizers have come in the block that is split.          *)
OnFirst(at, hops) ==
  \/ at = parts.start /\ hops = << >>
  \/ at = Middle /\ hops = Joined!HopsBetween(parts.start, Middle)

OnSecond(at, hops) ==
  \/ at \in {parts.start, Middle} /\ hops = << >>
  \/ at = End /\ hops = Joined!HopsBetween(Middle, End)

PartsOK ==
  /\ SameRing
  /\ parts.first \in BlockSizes /\ parts.second \in BlockSizes
  /\ parts.start \in Nat /\ End <= MaxPosition

SplitOK ==
  /\ PartsOK /\ Rests(other)
  /\ used = "first" =>
       /\ OnFirst(position, delivered) /\ OnSecond(other.position, other.delivered)
       /\ stage # "idle" => position = parts.start /\ input_count = parts.first
  /\ used = "second" =>
       /\ OnSecond(position, delivered) /\ OnFirst(other.position, other.delivered)
       /\ stage # "idle" => position = Middle /\ input_count = parts.second

SplitInv ==
  /\ \/ used = "first" /\ One!SInv
     \/ used = "second" /\ Two!SInv /\ parts # None
  /\ parts # None => SplitOK

LEMMA PartsType ==
  ASSUME PartsOK
  PROVE  /\ parts.start \in Nat /\ parts.first \in Nat /\ parts.second \in Nat
         /\ Middle \in Nat /\ End \in Nat /\ End = Middle + parts.second
<1>1. parts.start \in Nat /\ parts.first \in Nat /\ parts.second \in Nat
  BY Constants DEF PartsOK
<1>2. Middle \in Nat
  BY <1>1 DEF Middle
<1>3. End = Middle + parts.second
  BY DEF End, Middle
<1> QED
  BY <1>1, <1>2, <1>3

LEMMA InitSplit == Init => SplitInv
<1>1. One!Init => One!SInv
  BY OneAssumed, One!InitFollows
<1> QED
  BY <1>1, OneIsFirst DEF Init, SplitInv

(* Nothing but the call in progress moves.                                 *)
LEMMA LoopOfFirstStep == SplitInv /\ LoopOfFirst => SplitInv'
<1> SUFFICES ASSUME SplitInv, LoopOfFirst
             PROVE  SplitInv'
  OBVIOUS
<1>1. used = "first" /\ One!SInv /\ One!Loop /\ UNCHANGED split
  BY OneIsFirst DEF LoopOfFirst, UsesFirst, SplitInv
<1>2. UNCHANGED <<used, other, parts>>
  BY <1>1 DEF split
<1>3. One!SInv' /\ stage # "idle" /\ (GoesOn(input_count) \/ Returns(input_count))
  BY <1>1, OneLoopStep
<1>4. ASSUME parts # None
      PROVE  SplitOK'
  <2>1. SplitOK
    BY <1>4 DEF SplitInv
  <2>2. /\ PartsOK' /\ Rests(other)' /\ Middle' = Middle
        /\ OnSecond(other.position, other.delivered)'
    BY <1>1, <1>2, <2>1 DEF SplitOK, PartsOK, SameRing, Rests, OnSecond, Middle, End
  <2>3. position = parts.start /\ input_count = parts.first
    BY <1>1, <1>3, <2>1 DEF SplitOK
  <2>4. OnFirst(position, delivered)'
    BY <1>1, <1>2, <1>3, <2>1, <2>2, <2>3 DEF SplitOK, OnFirst, GoesOn, Returns, Middle
  <2>5. stage' # "idle" => position' = parts'.start /\ input_count' = parts'.first
    BY <1>2, <1>3, <2>3 DEF GoesOn, Returns
  <2> QED
    BY <1>1, <1>2, <2>2, <2>4, <2>5 DEF SplitOK
<1> QED
  BY <1>1, <1>2, <1>3, <1>4 DEF SplitInv

LEMMA ProcessStep == ASSUME SplitInv, NEW count \in BlockSizes, Process(count) PROVE SplitInv'
<1>1. used = "first" /\ One!SInv /\ One!Process(count) /\ UNCHANGED split /\ parts = None
  BY OneIsFirst DEF Process, UsesFirst, SplitInv
<1>2. One!SInv'
  BY <1>1, OneProcessStep
<1> QED
  BY <1>1, <1>2 DEF SplitInv, split

LEMMA ResetStep == SplitInv /\ Reset => SplitInv'
<1> SUFFICES ASSUME SplitInv, Reset
             PROVE  SplitInv'
  OBVIOUS
<1>1. used = "first" /\ One!SInv /\ One!Reset /\ UNCHANGED split /\ parts = None
  BY OneIsFirst DEF Reset, UsesFirst, SplitInv
<1>2. One!SInv'
  BY <1>1, OneAssumed, One!ResetFollows
<1> QED
  BY <1>1, <1>2 DEF SplitInv, split

LEMMA ProcessFirstStep == SplitInv /\ ProcessFirst => SplitInv'
<1> SUFFICES ASSUME SplitInv, ProcessFirst
             PROVE  SplitInv'
  OBVIOUS
<1>1. /\ used = "first" /\ One!SInv /\ One!Process(parts.first) /\ UNCHANGED split
      /\ parts # None /\ position = parts.start /\ SplitOK
  BY OneIsFirst DEF ProcessFirst, UsesFirst, SplitInv
<1>2. UNCHANGED <<used, other, parts>>
  BY <1>1 DEF split
<1>3. One!SInv' /\ (GoesOn(parts.first) \/ Returns(parts.first))
  BY <1>1, OneProcessStep DEF SplitOK, PartsOK
<1>4. /\ PartsOK' /\ Rests(other)' /\ Middle' = Middle
      /\ OnSecond(other.position, other.delivered)'
  BY <1>1, <1>2 DEF SplitOK, PartsOK, SameRing, Rests, OnSecond, Middle, End
<1>5. OnFirst(position, delivered)'
  BY <1>1, <1>2, <1>3, <1>4 DEF SplitOK, OnFirst, GoesOn, Returns, Middle
<1>6. stage' # "idle" => position' = parts'.start /\ input_count' = parts'.first
  BY <1>1, <1>2, <1>3 DEF GoesOn, Returns
<1> QED
  BY <1>1, <1>2, <1>3, <1>4, <1>5, <1>6 DEF SplitInv, SplitOK

LEMMA LoopOfSecondStep == SplitInv /\ LoopOfSecond => SplitInv'
<1> SUFFICES ASSUME SplitInv, LoopOfSecond
             PROVE  SplitInv'
  OBVIOUS
<1>1. /\ used = "second" /\ Two!SInv /\ Two!Loop /\ UNCHANGED split
      /\ parts # None /\ SplitOK
  BY TwoIsSecond DEF LoopOfSecond, UsesSecond, SplitInv
<1>2. UNCHANGED <<used, other, parts>>
  BY <1>1 DEF split
<1>3. Two!SInv' /\ stage # "idle" /\ (GoesOn(input_count) \/ Returns(input_count))
  BY <1>1, TwoLoopStep
<1>4. /\ PartsOK' /\ Rests(other)' /\ Middle' = Middle /\ End' = End
      /\ OnFirst(other.position, other.delivered)'
  BY <1>1, <1>2 DEF SplitOK, PartsOK, SameRing, Rests, OnFirst, Middle, End
<1>5. position = Middle /\ input_count = parts.second
  BY <1>1, <1>3 DEF SplitOK
<1>6. OnSecond(position, delivered)'
  <2>1. End = Middle + parts.second
    BY <1>1, PartsType DEF SplitOK
  <2> QED
    BY <1>1, <1>2, <1>3, <1>4, <1>5, <2>1 DEF SplitOK, OnSecond, GoesOn, Returns
<1>7. stage' # "idle" => position' = Middle' /\ input_count' = parts'.second
  BY <1>2, <1>3, <1>4, <1>5 DEF GoesOn, Returns
<1> QED
  BY <1>1, <1>2, <1>3, <1>4, <1>6, <1>7 DEF SplitInv, SplitOK

LEMMA ProcessSecondStep == SplitInv /\ ProcessSecond => SplitInv'
<1> SUFFICES ASSUME SplitInv, ProcessSecond
             PROVE  SplitInv'
  OBVIOUS
<1>1. /\ used = "second" /\ Two!SInv /\ Two!Process(parts.second) /\ UNCHANGED split
      /\ parts # None /\ SplitOK /\ position = Middle
  BY TwoIsSecond DEF ProcessSecond, UsesSecond, SplitInv, Middle
<1>2. UNCHANGED <<used, other, parts>>
  BY <1>1 DEF split
<1>3. Two!SInv' /\ (GoesOn(parts.second) \/ Returns(parts.second))
  BY <1>1, TwoProcessStep DEF SplitOK, PartsOK
<1>4. /\ PartsOK' /\ Rests(other)' /\ Middle' = Middle /\ End' = End
      /\ OnFirst(other.position, other.delivered)'
  BY <1>1, <1>2 DEF SplitOK, PartsOK, SameRing, Rests, OnFirst, Middle, End
<1>5. OnSecond(position, delivered)'
  <2>1. End = Middle + parts.second
    BY <1>1, PartsType DEF SplitOK
  <2> QED
    BY <1>1, <1>2, <1>3, <1>4, <2>1 DEF SplitOK, OnSecond, GoesOn, Returns
<1>6. stage' # "idle" => position' = Middle' /\ input_count' = parts'.second
  BY <1>1, <1>2, <1>3, <1>4 DEF GoesOn, Returns
<1> QED
  BY <1>1, <1>2, <1>3, <1>4, <1>5, <1>6 DEF SplitInv, SplitOK

LEMMA AdvanceSecondStep == SplitInv /\ AdvanceSecond => SplitInv'
<1> SUFFICES ASSUME SplitInv, AdvanceSecond
             PROVE  SplitInv'
  OBVIOUS
<1>1. /\ used = "second" /\ Two!SInv /\ Two!Advance(parts.first) /\ UNCHANGED split
      /\ parts # None /\ SplitOK /\ position = parts.start
  BY TwoIsSecond DEF AdvanceSecond, UsesSecond, SplitInv
<1>2. UNCHANGED <<used, other, parts>>
  BY <1>1 DEF split
<1>3. /\ Two!SInv' /\ stage' = "idle"
      /\ position' = position + parts.first /\ delivered' = << >>
  BY <1>1, TwoAdvanceStep DEF SplitOK, PartsOK
<1>4. /\ PartsOK' /\ Rests(other)' /\ OnFirst(other.position, other.delivered)'
  BY <1>1, <1>2 DEF SplitOK, PartsOK, SameRing, Rests, OnFirst, Middle, End
<1>5. OnSecond(position, delivered)'
  BY <1>1, <1>2, <1>3 DEF OnSecond, Middle
<1> QED
  BY <1>1, <1>2, <1>3, <1>4, <1>5 DEF SplitInv, SplitOK

(* A copy is accepted: the second channelizer rests where the first does.  *)
LEMMA SplitBlockStep ==
  ASSUME SplitInv, NEW first \in BlockSizes, NEW second \in BlockSizes,
         SplitBlock(first, second)
  PROVE  SplitInv' /\ parts' # None
<1>1. /\ stage = "idle" /\ parts = None /\ position + first + second <= MaxPosition
      /\ parts' = [start |-> position, first |-> first, second |-> second,
                    before |-> delivered]
      /\ other' = CopiedState /\ delivered' = << >> /\ CopyAccepted
      /\ UNCHANGED <<history, cursor, decimation_phase, post_phase, stage, input_count,
                     input_index, run_cursor, run_decimation_phase, run_post_phase, queued,
                     output, position, used>>
  BY DEF SplitBlock
<1>2. used = "first" /\ One!SInv /\ Rests(Kept) /\ NoCall
  BY <1>1, OneRests DEF SplitInv
<1>3. SameRing /\ SameRing'
  BY <1>1, OneIsFirst, TwoIsSecond DEF CopyAccepted, SameRing
<1>4. One!Intact(<< >>)
  BY OneAssumed, One!EmptyIntact
<1>5. Rests(other') /\ other'.position = position /\ other'.delivered = << >>
  BY <1>1, <1>2, <1>4 DEF CopiedState, Kept, Rests
<1>6. Rests(Kept)' /\ NoCall'
  BY <1>1, <1>2, <1>4 DEF Rests, Kept, NoCall
<1>7. One!SInv'
  <2>1. (Rests(Kept) /\ NoCall /\ stage = "idle" => One!SInv)'
    BY RestsOne, PTL
  <2> QED
    BY <1>1, <1>6, <2>1
<1>8. position \in Nat /\ delivered \in Seq(First!Hops)
  <2>1. One!Hops = First!Hops
    BY OneIsFirst DEF One!Hops, First!Hops, One!Samples, First!Samples, One!Silence,
                      First!Silence, One!Stream!Silence, First!Stream!Silence
  <2> QED
    BY <1>2, <2>1 DEF Rests, Kept, One!Intact
<1>9. parts' # None
  BY <1>1, <1>8, NoneAssumption
<1>10. PartsOK'
  BY <1>1, <1>3, <1>8 DEF PartsOK, End
<1>11. OnFirst(position, delivered)' /\ OnSecond(other.position, other.delivered)'
  BY <1>1, <1>5 DEF OnFirst, OnSecond
<1>12. SplitOK'
  BY <1>1, <1>2, <1>5, <1>10, <1>11 DEF SplitOK, Rests
<1> QED
  BY <1>1, <1>2, <1>7, <1>9, <1>12 DEF SplitInv

(* The one is put aside between calls, and the other one goes on from      *)
(* where it was put aside.                                                 *)
LEMMA SwitchStep == SplitInv /\ Switch => SplitInv'
<1> SUFFICES ASSUME SplitInv, Switch
             PROVE  SplitInv'
  OBVIOUS
<1>1. /\ stage = "idle" /\ parts # None /\ other' = Kept
      /\ used' = (IF used = "first" THEN "second" ELSE "first")
      /\ history' = other.history /\ cursor' = other.cursor
      /\ decimation_phase' = other.decimation_phase /\ post_phase' = other.post_phase
      /\ position' = other.position /\ delivered' = other.delivered
      /\ UNCHANGED <<stage, input_count, input_index, run_cursor, run_decimation_phase,
                     run_post_phase, queued, output, parts>>
  BY DEF Switch
<1>2. SplitOK /\ PartsOK /\ SameRing /\ Rests(other) /\ used \in {"first", "second"}
  BY <1>1 DEF SplitInv, SplitOK, PartsOK
<1>3. Rests(Kept) /\ NoCall
  BY <1>1, <1>2, OneRests, TwoRests DEF SplitInv
<1>4. Rests(Kept)' /\ NoCall' /\ SameRing' /\ Rests(other)'
  BY <1>1, <1>2, <1>3 DEF Rests, Kept, NoCall, SameRing
<1>5. One!SInv' /\ Two!SInv'
  <2>1. (Rests(Kept) /\ NoCall /\ stage = "idle" => One!SInv)'
    BY RestsOne, PTL
  <2>2. (Rests(Kept) /\ NoCall /\ SameRing /\ stage = "idle" => Two!SInv)'
    BY RestsTwo, PTL
  <2> QED
    BY <1>1, <1>4, <2>1, <2>2
<1>6. /\ PartsOK' /\ Middle' = Middle /\ End' = End
      /\ other'.position = position /\ other'.delivered = delivered
  BY <1>1, <1>2 DEF PartsOK, SameRing, Middle, End, Kept
<1>7. SplitOK'
  BY <1>1, <1>2, <1>4, <1>6 DEF SplitOK, OnFirst, OnSecond
<1> QED
  BY <1>1, <1>2, <1>5, <1>7 DEF SplitInv

-----------------------------------------------------------------------------
(* The hops of two adjacent parts are those of the whole.                  *)
LEMMA HopsJoin ==
  ASSUME NEW a \in Nat, NEW b \in Nat, NEW c \in Nat, a <= b, b <= c
  PROVE  Joined!HopsBetween(a, b) \o Joined!HopsBetween(b, c) = Joined!HopsBetween(a, c)
<1> DEFINE h == Joined!HopsBefore(a)
           m == Joined!HopsBefore(b)
           n == Joined!HopsBefore(c)
<1>1. h \in Nat /\ m - h \in Nat /\ n - m \in Nat /\ m \in Nat /\ n \in Nat
  <2>1. \A x \in Nat : One!H(x) = Joined!HopsBefore(x)
    BY DEF One!H, One!Stream!HopsBefore, Joined!HopsBefore
  <2>2. b - a \in Nat /\ c - b \in Nat /\ a + (b - a) = b /\ b + (c - b) = c
    OBVIOUS
  <2>3. \A x, y \in Nat : One!H(x + y) - One!H(x) \in Nat
    BY OneAssumed, One!OutputCountIsHops
  <2>4. \A x \in Nat : One!H(x) \in Nat
    BY OneAssumed, One!HopsAround
  <2> QED
    BY <2>1, <2>2, <2>3, <2>4
<1> HIDE DEF h, m, n
<1>2. CASE Outputs = 0
  BY <1>2 DEF Joined!HopsBetween
<1>3. CASE Outputs # 0
  <2> DEFINE first == [j \in 1 .. m - h |-> Joined!Hop(h + j - 1)]
             second == [j \in 1 .. n - m |-> Joined!Hop(m + j - 1)]
             whole == [j \in 1 .. n - h |-> Joined!Hop(h + j - 1)]
  <2>1. /\ Joined!HopsBetween(a, b) = first /\ Joined!HopsBetween(b, c) = second
        /\ Joined!HopsBetween(a, c) = whole
    BY <1>3 DEF Joined!HopsBetween, h, m, n
  <2>2. /\ Len(first) = m - h /\ Len(second) = n - m
        /\ first \o second = [j \in 1 .. (m - h) + (n - m) |->
                                IF j <= m - h THEN first[j] ELSE second[j - (m - h)]]
    BY <1>1
  <2>3. (m - h) + (n - m) = n - h
    BY <1>1
  <2>4. ASSUME NEW j \in 1 .. n - h
        PROVE  (IF j <= m - h THEN first[j] ELSE second[j - (m - h)]) = Joined!Hop(h + j - 1)
    <3>1. CASE j <= m - h
      BY <1>1, <3>1
    <3>2. CASE ~(j <= m - h)
      <4>1. j - (m - h) \in 1 .. n - m /\ m + (j - (m - h)) - 1 = h + j - 1
        BY <1>1, <3>2
      <4> QED
        BY <3>2, <4>1
    <3> QED
      BY <3>1, <3>2
  <2> QED
    BY <2>1, <2>2, <2>3, <2>4
<1> QED
  BY <1>2, <1>3

LEMMA NoHops == \A n \in Nat : Joined!HopsBetween(n, n) = << >>
<1>1. \A n \in Nat : Joined!HopsBefore(n) \in Int
  BY Constants DEF Joined!HopsBefore
<1>2. \A x \in Int : x - x = 0
  OBVIOUS
<1>3. \A n \in Nat : Joined!HopsBefore(n) - Joined!HopsBefore(n) = 0
  BY <1>1, <1>2
<1> QED
  BY <1>3 DEF Joined!HopsBetween

(* Both parts are filtered: together their hops are those of the block.    *)
LEMMA JoinStep ==
  ASSUME SplitInv, Join
  PROVE  /\ SplitInv' /\ parts # None /\ parts' = None /\ PartsOK
         /\ position' = End /\ delivered' = Joined!HopsBetween(parts.start, End)
<1>1. /\ stage = "idle" /\ parts # None /\ used = "second" /\ other.position = Middle
      /\ position = End /\ used' = "first" /\ parts' = None
      /\ delivered' = other.delivered \o delivered
      /\ UNCHANGED <<history, cursor, decimation_phase, post_phase, stage, input_count,
                     input_index, run_cursor, run_decimation_phase, run_post_phase, queued,
                     output, position>>
  BY DEF Join, Middle, End
<1>2. /\ Two!SInv /\ SplitOK /\ PartsOK /\ SameRing /\ Rests(other)
      /\ OnSecond(position, delivered) /\ OnFirst(other.position, other.delivered)
  BY <1>1 DEF SplitInv, SplitOK, PartsOK
<1>3. Rests(Kept) /\ NoCall
  BY <1>1, <1>2, TwoRests
<1>4. /\ parts.start \in Nat /\ Middle \in Nat /\ End \in Nat
      /\ parts.start <= Middle /\ Middle <= End
  BY <1>2, PartsType DEF Middle, PartsOK
<1>5. other.delivered = Joined!HopsBetween(parts.start, Middle)
  BY <1>1, <1>2, <1>4, NoHops DEF OnFirst
<1>6. delivered = Joined!HopsBetween(Middle, End)
  BY <1>1, <1>2, <1>4, NoHops DEF OnSecond, Middle
<1>7. delivered' = Joined!HopsBetween(parts.start, End)
  <2>1. Joined!HopsBetween(parts.start, Middle) \o Joined!HopsBetween(Middle, End)
          = Joined!HopsBetween(parts.start, End)
    BY <1>4, HopsJoin
  <2> QED
    BY <1>1, <1>5, <1>6, <2>1
<1>8. One!Intact(delivered')
  <2>1. One!Intact(other.delivered) /\ One!Intact(delivered)
    BY <1>2, <1>3 DEF Rests, Kept
  <2> QED
    BY <1>1, <2>1, OneAssumed, One!IntactConcat
<1>9. Rests(Kept)' /\ NoCall'
  BY <1>1, <1>3, <1>8 DEF Rests, Kept, NoCall
<1>10. One!SInv'
  <2>1. (Rests(Kept) /\ NoCall /\ stage = "idle" => One!SInv)'
    BY RestsOne, PTL
  <2> QED
    BY <1>1, <1>9, <2>1
<1> QED
  BY <1>1, <1>2, <1>7, <1>10 DEF SplitInv

LEMMA StutterSplit == SplitInv /\ UNCHANGED vars => SplitInv'
<1> SUFFICES ASSUME SplitInv, UNCHANGED vars
             PROVE  SplitInv'
  OBVIOUS
<1>1. /\ UNCHANGED <<used, other, parts>> /\ UNCHANGED One!vars /\ UNCHANGED Two!vars
      /\ UNCHANGED <<stage, position, delivered, input_count>>
  BY DEF vars, ring, split, One!vars, Two!vars, One!state, Two!state, One!call, Two!call,
         One!locals, Two!locals
<1>2. One!SInv => One!SInv'
  BY <1>1, OneAssumed, One!StutterFollows
<1>3. Two!SInv => Two!SInv'
  BY <1>1, TwoAssumed, Two!StutterFollows
<1>4. SplitOK => SplitOK'
  BY <1>1 DEF SplitOK, PartsOK, SameRing, OnFirst, OnSecond, Middle, End, Rests
<1> QED
  BY <1>1, <1>2, <1>3, <1>4 DEF SplitInv

LEMMA NextSplit == SplitInv /\ [Next]_vars => SplitInv'
BY LoopOfFirstStep, ResetStep, ProcessFirstStep, LoopOfSecondStep, AdvanceSecondStep,
   ProcessSecondStep, SwitchStep, JoinStep, ProcessStep, SplitBlockStep, StutterSplit DEF Next

(* Each of the two channelizers keeps the invariant of a channelizer by    *)
(* itself, and neither is further in the block than its part.              *)
THEOREM BothCorrect == Spec => []SplitInv
BY InitSplit, NextSplit, PTL DEF Spec

-----------------------------------------------------------------------------
(* The refinement.                                                         *)

Start == IF parts # None THEN parts.start ELSE position
Before == IF parts # None THEN parts.before ELSE delivered

(* While a block is split, the whole stays where the block starts.         *)
LEMMA StartStays ==
  ASSUME parts # None, UNCHANGED split
  PROVE  UNCHANGED Joined!vars
BY DEF Joined!vars, split

LEMMA ReturnsIsProcess ==
  ASSUME parts = None, parts' = None, NEW count \in BlockSizes, Returns(count),
         position' <= MaxPosition
  PROVE  Joined!Next
<1>1. /\ Start + count <= MaxPosition /\ Start' = Start + count
      /\ Before' = Joined!HopsBetween(Start, Start + count)
  BY DEF Returns, Start, Before
<1>2. Joined!Process(count)
  BY <1>1 DEF Joined!Process, Start, Before
<1>3. count \in BlockSizes \cup {first + second : first \in BlockSizes, second \in BlockSizes}
  OBVIOUS
<1> QED
  BY <1>2, <1>3 DEF Joined!Next

LEMMA GoesOnIsStutter ==
  ASSUME parts = None, parts' = None, NEW count, GoesOn(count)
  PROVE  UNCHANGED Joined!vars
BY DEF Joined!vars, GoesOn

LEMMA PositionBounded == One!SInv => position <= MaxPosition
<1> SUFFICES ASSUME One!SInv
             PROVE  position <= MaxPosition
  OBVIOUS
<1>1. position \in Nat /\ input_count \in Nat /\ position + input_count <= MaxPosition
  BY DEF One!SInv, One!IInv, One!TypeOK
<1> QED
  BY <1>1, Constants

LEMMA StepIsSerial == SplitInv /\ [Next]_vars => [Joined!Next]_(Joined!vars)
<1> SUFFICES ASSUME SplitInv, [Next]_vars
             PROVE  Joined!Next \/ UNCHANGED Joined!vars
  OBVIOUS
<1>1. SplitInv'
  BY NextSplit
<1>2. CASE LoopOfFirst
  <2>1. used = "first" /\ One!SInv /\ One!Loop /\ UNCHANGED split
    BY <1>2, OneIsFirst DEF LoopOfFirst, UsesFirst, SplitInv
  <2>2. CASE parts # None
    BY <2>1, <2>2, StartStays
  <2>3. CASE parts = None
    <3>1. /\ One!SInv' /\ parts' = None /\ position' <= MaxPosition
          /\ stage # "idle" /\ (GoesOn(input_count) \/ Returns(input_count))
      <4>1. One!SInv' /\ stage # "idle" /\ (GoesOn(input_count) \/ Returns(input_count))
        BY <2>1, OneLoopStep
      <4>2. (One!SInv => position <= MaxPosition)'
        BY PositionBounded, PTL
      <4> QED
        BY <2>1, <2>3, <4>1, <4>2 DEF split
    <3>2. input_count \in BlockSizes
      BY <2>1, <3>1 DEF One!SInv, One!Follows
    <3> QED
      BY <2>3, <3>1, <3>2, ReturnsIsProcess, GoesOnIsStutter
  <2> QED
    BY <2>2, <2>3
<1>3. ASSUME NEW count \in BlockSizes, Process(count)
      PROVE  Joined!Next \/ UNCHANGED Joined!vars
  <2>1. /\ parts = None /\ parts' = None /\ used = "first" /\ One!SInv
        /\ One!Process(count)
    BY <1>3, OneIsFirst DEF Process, UsesFirst, SplitInv, split
  <2>2. GoesOn(count) \/ Returns(count)
    BY <2>1, OneProcessStep
  <2>3. position' = position \/ position' = position + count
    BY <2>2 DEF GoesOn, Returns
  <2>4. position' <= MaxPosition
    <3>1. One!Process(count) => position + count <= MaxPosition
      BY DEF One!Process, One!ProcessNoOutputs, One!Begin
    <3> QED
      BY <2>1, <2>3, <3>1, PositionBounded
  <2> QED
    BY <2>1, <2>2, <2>4, ReturnsIsProcess, GoesOnIsStutter
<1>4. CASE Reset
  <2>1. /\ parts = None /\ parts' = None /\ position' = 0 /\ delivered' = << >>
    BY <1>4 DEF Reset, UsesFirst, split, First!Reset
  <2> QED
    BY <2>1 DEF Joined!Next, Joined!Reset
<1>5. CASE ProcessFirst
  BY <1>5, StartStays DEF ProcessFirst, UsesFirst
<1>6. CASE LoopOfSecond \/ AdvanceSecond \/ ProcessSecond
  BY <1>6, StartStays DEF LoopOfSecond, AdvanceSecond, ProcessSecond, UsesSecond, SplitInv
<1>7. ASSUME NEW first \in BlockSizes, NEW second \in BlockSizes, SplitBlock(first, second)
      PROVE  UNCHANGED Joined!vars
  <2>1. /\ parts = None /\ parts' # None
        /\ parts'.start = position /\ parts'.before = delivered
    BY <1>7, SplitBlockStep DEF SplitBlock
  <2> QED
    BY <2>1 DEF Joined!vars
<1>8. CASE Switch
  <2>1. parts # None /\ parts' = parts
    BY <1>8 DEF Switch
  <2> QED
    BY <2>1 DEF Joined!vars
<1>9. CASE Join
  <2>1. /\ parts # None /\ parts' = None /\ PartsOK
        /\ position' = End /\ delivered' = Joined!HopsBetween(parts.start, End)
    BY <1>9, JoinStep
  <2> DEFINE count == parts.first + parts.second
  <2>2. End = parts.start + count /\ End <= MaxPosition
    BY <2>1, PartsType DEF PartsOK, End
  <2>3. count \in BlockSizes \cup {first + second : first \in BlockSizes,
                                                    second \in BlockSizes}
    BY <2>1 DEF PartsOK
  <2> HIDE DEF count
  <2>4. Joined!Process(count)
    BY <2>1, <2>2 DEF Joined!Process
  <2> QED
    BY <2>3, <2>4 DEF Joined!Next
<1>10. CASE UNCHANGED vars
  BY <1>10 DEF Joined!vars, vars, ring, split
<1> QED
  BY <1>2, <1>3, <1>4, <1>5, <1>6, <1>7, <1>8, <1>9, <1>10 DEF Next

(* Whatever the layout and the two implementations, a block that is cut in *)
(* two and filtered by two channelizers, in any order of their steps,      *)
(* delivers the hops of filtering it at once, and the stream goes on from  *)
(* its end.                                                                *)
THEOREM SplitCorrect == Spec => SplitIsSerial
<1>1. Init => Joined!Init
  BY DEF Init, First!Init, Joined!Init
<1> QED
  BY <1>1, BothCorrect, StepIsSerial, PTL DEF Spec, SplitIsSerial, Joined!Spec
=============================================================================
