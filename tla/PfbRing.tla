------------------------------- MODULE PfbRing -------------------------------
(***************************************************************************)
(* One PFB channelizer instance: the mirrored history ring, the positions  *)
(* kept between calls, and the loops that write samples into the ring and  *)
(* filter hops out of it.                                                  *)
(*                                                                         *)
(* A sample is represented by its number in the stream, so the ring shows  *)
(* which sample a filter really reads.  The arithmetic of the filter, the  *)
(* inverse DFT and the output rotation are abstracted to the window read   *)
(* and the post phase used: a hop is correct when both are.                *)
(*                                                                         *)
(* Loops are stepped one ring write plus the filtering that follows it; a  *)
(* call works on local copies of the positions and stores them at the end. *)
(*                                                                         *)
(* A definition whose comment starts with Fault is no part of the model:   *)
(* it is the definition that follows it with a plausible mistake, which a  *)
(* property below must notice.                                             *)
(***************************************************************************)
EXTENDS Integers, Sequences

CONSTANTS
  Backend,          \* implementation picked at construction
  Bins, Rows, Decimation,
  Outputs,          \* number of selected logical bins
  ExactBins,        \* half-bin grid with logical bins -2, -1, 0, 1
  PhasePeriod,      \* hops after which every output's phase repeats
  RunsAvailable,    \* the AVX-512 main loop exists on this machine
  MaxHistory,       \* largest ring the address space holds
  BlockSizes,       \* sizes of the blocks callers pass
  MaxPosition       \* bound on the length of the stream that is explored

-----------------------------------------------------------------------------
(* Layout decisions of make_pfb_channelizer_data.                          *)

WriteLookahead == 64   \* pfb_write_lookahead
RunsSpan == 256        \* pfb_d4x4_runs_span

FilterSpan == Rows * Bins

StagedLayout == Bins = 8 /\ Decimation = 4
StagedD4x4 == Backend = "avx2_fma" /\ StagedLayout /\ Outputs > 1
RunsD4x4 == StagedD4x4 /\ RunsAvailable /\ ExactBins

Larger(a, b) == IF a > b THEN a ELSE b
Smaller(a, b) == IF a < b THEN a ELSE b

(* Fault: the AVX-512 loop was added without room for its longer span.     *)
StagingWithoutRuns == IF StagedD4x4 THEN WriteLookahead ELSE 0

Staging ==
  IF RunsD4x4 THEN Larger(WriteLookahead, RunsSpan)
  ELSE IF StagedD4x4 THEN WriteLookahead ELSE 0

(* A ring of 2^30 samples would fill the memory of any machine.             *)
PowersOfTwo == {p \in {2 ^ k : k \in 0 .. 30} : p \in 1 .. MaxHistory}

NextPowerOfTwo(value) ==
  CHOOSE p \in PowersOfTwo : p >= value /\ \A q \in PowersOfTwo : q >= value => p <= q

HistoryNeeded == FilterSpan + Staging + 3 * Decimation
HistorySize == NextPowerOfTwo(HistoryNeeded)

(* Which loop process() runs, decided again on every call.                 *)
ExactD4x4 == ExactBins /\ StagedLayout
UsesD4x4Loop ==
  /\ Backend = "avx2_fma"
  /\ ExactD4x4 \/ (StagedLayout /\ Outputs \notin {0, 1})

(* Fault: one more queued hop than the ring has room for.                  *)
BatchLimitOneMore == IF Backend = "generic" THEN 1 ELSE 2 + (HistorySize - FilterSpan) \div Decimation

BatchLimit ==
  IF Backend = "generic" THEN 1
  ELSE IF Backend = "avx512" /\ Bins = 8 THEN 4
  ELSE Smaller(4, 1 + (HistorySize - FilterSpan) \div Decimation)

GroupSamples == 16

ASSUME LayoutAssumption ==
  /\ Backend \in {"generic", "avx2_fma", "avx512", "neon"}
  /\ Bins \in Nat \ {0} /\ Rows \in Nat \ {0} /\ Decimation \in 1 .. Bins
  /\ Outputs \in 0 .. Bins /\ PhasePeriod \in Nat \ {0}
  /\ ExactBins \in BOOLEAN /\ RunsAvailable \in BOOLEAN
  /\ BlockSizes \subseteq Nat /\ MaxPosition \in Nat /\ MaxHistory \in Nat

(* The phases of no bins repeat with every hop.  The exact layout selects  *)
(* four bins, all of whose phases repeat every four hops.                  *)
ASSUME PeriodAssumption ==
  /\ Outputs = 0 => PhasePeriod = 1
  /\ ExactBins => Outputs = 4
  /\ ExactBins /\ StagedLayout => PhasePeriod = 4

ASSUME HistoryAssumption == \E p \in PowersOfTwo : p >= HistoryNeeded

-----------------------------------------------------------------------------
VARIABLES
  history,           \* both copies of the ring, 2 * HistorySize cells
  cursor,            \* next cell to write        \
  decimation_phase,  \* samples since the last hop | positions kept
  post_phase,        \* phase of the next hop     /  between calls
  stage,             \* loop the current call is in, or "idle"
  input_count, input_index,
  run_cursor, run_decimation_phase, run_post_phase,  \* local copies
  queued,            \* hops waiting for their batch
  output,            \* hops the current call has written so far
  position,          \* history variable: samples consumed before this call
  delivered          \* history variable: hops of the last completed operation

state == <<history, cursor, decimation_phase, post_phase>>
call == <<stage, input_count, input_index, queued, output>>
locals == <<run_cursor, run_decimation_phase, run_post_phase>>
vars == <<state, call, locals, position, delivered>>

Stream == INSTANCE PfbStream

Silence == Stream!Silence
Now == position + input_index      \* number of the next input sample
Remaining == input_count - input_index

Wrap(slot) == slot % HistorySize
(* Fault: the counters are compared after the increment's limit.           *)
CountedLate(phase, period) == IF phase = period THEN 0 ELSE phase + 1

Counted(phase, period) == IF phase + 1 = period THEN 0 ELSE phase + 1

(* The ring after count samples, numbered from first, were written from    *)
(* slot on: every write goes to both copies.                               *)
Written(cells, slot, first, count) ==
  [i \in 0 .. 2 * HistorySize - 1 |->
     LET k == Wrap(i - slot) IN IF k < count THEN first + k ELSE cells[i]]

(* Fault: whole decimations are counted, not the samples a hop ends on.    *)
OutputCountFloor(phase, count) == (phase + count) \div Decimation

(* pfb_output_count_unchecked                                              *)
OutputCount(phase, count) ==
  LET first == IF phase = 0 THEN 0 ELSE Decimation - phase
  IN  IF count = 0 \/ first >= count THEN 0 ELSE 1 + (count - 1 - first) \div Decimation

-----------------------------------------------------------------------------
(* Filtering.  Tap t of a hop reads the cell t before the hop's cursor, in *)
(* the upper copy.  In a batch of four the AVX2 kernel multiplies the odd  *)
(* rows of the last two hops with the samples it loaded for the even row   *)
(* before it of the hop two earlier.                                       *)

SharesLoads(batch) == Backend = "avx2_fma" /\ StagedLayout /\ Len(batch) % 4 = 0

BatchWindow(cells, batch, j) ==
  [tap \in 0 .. FilterSpan - 1 |->
     IF SharesLoads(batch) /\ (j - 1) % 4 >= 2 /\ (tap \div Bins) % 2 = 1
     THEN cells[batch[j - 2].cursor + HistorySize - (tap - Bins)]
     ELSE cells[batch[j].cursor + HistorySize - tap]]

Filtered(cells, batch) ==
  [j \in 1 .. Len(batch) |->
     [at     |-> batch[j].at,
      phase  |-> batch[j].phase,
      window |-> BatchWindow(cells, batch, j)]]

(* Eight hops of the AVX-512 loop read from one origin, in whichever copy  *)
(* of the ring all of them fit.                                            *)
RunOrigin(batch_cursor) ==
  LET origin == batch_cursor + HistorySize - (Bins - 1)
  IN  IF batch_cursor + 7 * Decimation + 1 > HistorySize THEN origin - HistorySize ELSE origin

RunFiltered(cells, hops) ==
  [j \in 1 .. Len(hops) |->
     LET lane == (j - 1) % 8
         origin == RunOrigin(hops[j - lane].cursor)
     IN  [at     |-> hops[j].at,
          phase  |-> hops[j].phase,
          window |-> [tap \in 0 .. FilterSpan - 1 |->
                        cells[origin + (Bins - 1) + lane * Decimation - tap]]]]

(* The next count hops of a d4x4 loop that is about to write.              *)
PhaseAfter(hops) ==
  IF ExactD4x4 THEN (run_post_phase + hops) % 4 ELSE (run_post_phase + hops) % PhasePeriod

NextHops(count) ==
  [j \in 1 .. count |->
     [cursor |-> Wrap(run_cursor + (j - 1) * Decimation),
      phase  |-> PhaseAfter(j - 1),
      at     |-> Now + (j - 1) * Decimation]]

(* Fault: the cursor is read after the write moved it.                     *)
ThisHopAfterWrite == [cursor |-> Wrap(run_cursor + 1), phase |-> run_post_phase, at |-> Now]

ThisHop == [cursor |-> run_cursor, phase |-> run_post_phase, at |-> Now]

-----------------------------------------------------------------------------
Init ==
  /\ history = [i \in 0 .. 2 * HistorySize - 1 |-> Silence]
  /\ cursor = 0 /\ decimation_phase = 0 /\ post_phase = 0
  /\ stage = "idle" /\ input_count = 0 /\ input_index = 0
  /\ run_cursor = 0 /\ run_decimation_phase = 0 /\ run_post_phase = 0
  /\ queued = << >> /\ output = << >>
  /\ position = 0 /\ delivered = << >>

(* process: load the positions into locals and enter the kernel's loop.    *)
Begin(count) ==
  /\ stage = "idle" /\ Outputs # 0 /\ position + count <= MaxPosition
  /\ stage' = IF UsesD4x4Loop THEN "d4x4" ELSE "stream"
  /\ input_count' = count /\ input_index' = 0
  /\ run_cursor' = cursor
  /\ run_decimation_phase' = decimation_phase
  /\ run_post_phase' = post_phase
  /\ queued' = << >> /\ output' = << >>
  /\ UNCHANGED <<state, position, delivered>>

(* process without selected bins: only the positions move.                 *)
ProcessNoOutputs(count) ==
  /\ stage = "idle" /\ Outputs = 0 /\ position + count <= MaxPosition
  /\ cursor' = Wrap(cursor + count)
  /\ decimation_phase' = (decimation_phase + count) % Decimation
  /\ post_phase' = (post_phase + OutputCount(decimation_phase, count)) % PhasePeriod
  /\ position' = position + count
  /\ delivered' = << >>
  /\ UNCHANGED <<history, call, locals>>

Process(count) == IF Outputs = 0 THEN ProcessNoOutputs(count) ELSE Begin(count)

(* Write count samples and move the cursor behind them.                    *)
WriteSamples(count) ==
  /\ history' = Written(history, run_cursor, Now, count)
  /\ run_cursor' = Wrap(run_cursor + count)
  /\ input_index' = input_index + count

(* One iteration of the streaming loop that ends no hop.                   *)
WriteBetweenHops ==
  /\ stage \in {"stream", "d4x4"} /\ Remaining > 0 /\ run_decimation_phase # 0
  /\ WriteSamples(1)
  /\ run_decimation_phase' = Counted(run_decimation_phase, Decimation)
  /\ UNCHANGED <<cursor, decimation_phase, post_phase, stage, input_count, run_post_phase,
                 queued, output, position, delivered>>

(* One iteration that ends a hop: queue it, and filter a full batch before *)
(* the next write.                                                         *)
StreamHop ==
  /\ stage = "stream" /\ Remaining > 0 /\ run_decimation_phase = 0
  /\ WriteSamples(1)
  /\ LET batch == Append(queued, ThisHop)
     IN  \/ /\ Len(batch) = BatchLimit
            /\ output' = output \o Filtered(history', batch) /\ queued' = << >>
         \/ /\ Len(batch) # BatchLimit
            /\ queued' = batch /\ UNCHANGED output
  /\ run_post_phase' = Counted(run_post_phase, PhasePeriod)
  /\ run_decimation_phase' = Counted(run_decimation_phase, Decimation)
  /\ UNCHANGED <<cursor, decimation_phase, post_phase, stage, input_count, position, delivered>>

(* Stage a span of samples, then filter the hops that end in it.           *)
StageSpan(count, filtered) ==
  /\ stage = "d4x4" /\ run_decimation_phase = 0 /\ Remaining >= count
  /\ WriteSamples(count)
  /\ output' = output \o filtered
  /\ UNCHANGED <<cursor, decimation_phase, post_phase, stage, input_count,
                 run_decimation_phase, queued, position, delivered>>

RunsApply == RunsD4x4 /\ Remaining >= RunsSpan

RunSpan ==
  /\ RunsApply
  /\ StageSpan(RunsSpan, RunFiltered(history', NextHops(RunsSpan \div Decimation)))
  /\ UNCHANGED run_post_phase

StagedSpan ==
  /\ ~RunsApply
  /\ StageSpan(WriteLookahead, Filtered(history', NextHops(WriteLookahead \div Decimation)))
  /\ run_post_phase' = IF ExactD4x4 THEN run_post_phase ELSE PhaseAfter(WriteLookahead \div Decimation)

(* The remaining whole groups: write up to the group's last hop, filter,   *)
(* then write the rest of the group.                                       *)
GroupStep ==
  /\ stage = "d4x4" /\ run_decimation_phase = 0
  /\ Remaining < WriteLookahead /\ Remaining >= GroupSamples
  /\ LET head == 13
         cells == Written(history, run_cursor, Now, head)
     IN  /\ output' = output \o Filtered(cells, NextHops(4))
         /\ history' = Written(cells, Wrap(run_cursor + head), Now + head, GroupSamples - head)
         /\ run_cursor' = Wrap(Wrap(run_cursor + head) + (GroupSamples - head))
  /\ input_index' = input_index + GroupSamples
  /\ run_post_phase' = IF ExactD4x4 THEN run_post_phase ELSE PhaseAfter(4)
  /\ UNCHANGED <<cursor, decimation_phase, post_phase, stage, input_count,
                 run_decimation_phase, queued, position, delivered>>

(* The tail shorter than a group queues its hops for the end of the call.  *)
TailHop ==
  /\ stage = "d4x4" /\ run_decimation_phase = 0
  /\ Remaining < GroupSamples /\ Remaining > 0
  /\ WriteSamples(1)
  /\ queued' = Append(queued, ThisHop)
  /\ run_post_phase' = Counted(run_post_phase, PhasePeriod)
  /\ run_decimation_phase' = Counted(run_decimation_phase, Decimation)
  /\ UNCHANGED <<cursor, decimation_phase, post_phase, stage, input_count, output,
                 position, delivered>>

(* Fault: hops still queued at the end of the block are dropped.           *)
ReturnUnflushed ==
  /\ stage # "idle" /\ Remaining = 0
  /\ delivered' = output
  /\ cursor' = run_cursor
  /\ decimation_phase' = run_decimation_phase
  /\ post_phase' = run_post_phase
  /\ position' = Now
  /\ stage' = "idle" /\ input_count' = 0 /\ input_index' = 0
  /\ queued' = << >> /\ output' = << >>
  /\ run_cursor' = 0 /\ run_decimation_phase' = 0 /\ run_post_phase' = 0
  /\ UNCHANGED history

(* All input consumed: filter what is still queued, store the positions    *)
(* and return the hops produced.                                           *)
Return ==
  /\ stage # "idle" /\ Remaining = 0
  /\ delivered' = output \o Filtered(history, queued)
  /\ cursor' = run_cursor
  /\ decimation_phase' = run_decimation_phase
  /\ post_phase' = run_post_phase
  /\ position' = Now
  /\ stage' = "idle" /\ input_count' = 0 /\ input_index' = 0
  /\ queued' = << >> /\ output' = << >>
  /\ run_cursor' = 0 /\ run_decimation_phase' = 0 /\ run_post_phase' = 0
  /\ UNCHANGED history

(* Fault: a block longer than the ring is written from the cursor on.      *)
AdvanceFromCursor(count) ==
  LET skipped == IF count > HistorySize THEN count - HistorySize ELSE 0
  IN  /\ stage = "idle" /\ position + count <= MaxPosition
      /\ history' = Written(history, cursor, position + skipped, count - skipped)
      /\ post_phase' = (post_phase + OutputCount(decimation_phase, count)) % PhasePeriod
      /\ cursor' = Wrap(cursor + count)
      /\ decimation_phase' = (decimation_phase + count) % Decimation
      /\ position' = position + count /\ delivered' = << >>
      /\ UNCHANGED <<call, locals>>

(* advance: write the newest HistorySize samples of the block and move the *)
(* positions as processing it would.                                       *)
Advance(count) ==
  LET skipped == IF count > HistorySize THEN count - HistorySize ELSE 0
  IN  /\ stage = "idle" /\ position + count <= MaxPosition
      /\ history' = Written(history, Wrap(cursor + skipped), position + skipped, count - skipped)
      /\ post_phase' = (post_phase + OutputCount(decimation_phase, count)) % PhasePeriod
      /\ cursor' = Wrap(cursor + count)
      /\ decimation_phase' = (decimation_phase + count) % Decimation
      /\ position' = position + count /\ delivered' = << >>
      /\ UNCHANGED <<call, locals>>

Reset ==
  /\ stage = "idle"
  /\ history' = [i \in 0 .. 2 * HistorySize - 1 |-> Silence]
  /\ cursor' = 0 /\ decimation_phase' = 0 /\ post_phase' = 0
  /\ position' = 0 /\ delivered' = << >>
  /\ UNCHANGED <<call, locals>>

Loop == \/ WriteBetweenHops \/ StreamHop \/ RunSpan \/ StagedSpan \/ GroupStep \/ TailHop
        \/ Return

Next == \/ Loop \/ Reset
        \/ \E count \in BlockSizes : Process(count) \/ Advance(count)

Spec == Init /\ [][Next]_vars

-----------------------------------------------------------------------------
Samples == {Silence} \cup 0 .. MaxPosition - 1
Slots == 0 .. HistorySize - 1
QueuedHops == [cursor : Slots, phase : 0 .. PhasePeriod - 1, at : 0 .. MaxPosition - 1]
Hops == [at : 0 .. MaxPosition - 1, phase : 0 .. PhasePeriod - 1,
         window : [0 .. FilterSpan - 1 -> Samples]]

(* Every cell holds a sample or the initial zero; cursors stay inside one  *)
(* copy of the ring and phases inside their period (the masks and compare- *)
(* and-reset counters of the loops).                                       *)
TypeOK ==
  /\ history \in [0 .. 2 * HistorySize - 1 -> Samples]
  /\ cursor \in Slots /\ run_cursor \in Slots
  /\ decimation_phase \in 0 .. Decimation - 1 /\ run_decimation_phase \in 0 .. Decimation - 1
  /\ post_phase \in 0 .. PhasePeriod - 1 /\ run_post_phase \in 0 .. PhasePeriod - 1
  /\ stage \in {"idle", "stream", "d4x4"}
  /\ input_count \in Nat /\ input_index \in 0 .. input_count
  /\ position \in Nat /\ position + input_count <= MaxPosition
  /\ queued \in Seq(QueuedHops) /\ output \in Seq(Hops) /\ delivered \in Seq(Hops)

WriteSlot == IF stage = "idle" THEN cursor ELSE run_cursor

(* The ring holds the newest HistorySize samples before sample n, the next *)
(* of which goes to slot, in both copies.                                  *)
Holds(cells, slot, n) ==
  \A s \in Slots :
    LET newest == Stream!Sample(IF s < slot THEN n - slot + s ELSE n - slot + s - HistorySize)
    IN  cells[s] = newest /\ cells[s + HistorySize] = newest

(* Between any two steps both copies of the ring hold exactly the newest   *)
(* HistorySize samples of the stream, however the input was cut into       *)
(* blocks, staged, advanced over or reset.                                 *)
RingIsStream == Outputs # 0 => Holds(history, WriteSlot, Now)

(* A hop that waits for its batch still finds its whole window in the ring *)
(* when it is filtered: later writes of the same call never reach it, and  *)
(* the queue never outgrows the four entries of queued_cursors.            *)
QueueReadable ==
  /\ Len(queued) <= 4
  /\ \A j \in 1 .. Len(queued) :
       BatchWindow(history, queued, j) = Stream!Window(queued[j].at)

(* Every hop a call has written was filtered from exactly the samples that *)
(* end on it: no write that was staged ahead of it, queued before it or    *)
(* left from an older call reached its window, in either copy of the ring. *)
WindowsIntact ==
  \A hops \in {output, delivered} : \A j \in 1 .. Len(hops) :
    hops[j].window = Stream!Window(hops[j].at)

(* The decimation and post phases are functions of the stream position     *)
(* alone, on every path that moves it: filtering, advancing, resetting and *)
(* the path without outputs.                                               *)
PhasesFollowStream ==
  IF stage = "idle"
  THEN /\ decimation_phase = position % Decimation
       /\ post_phase = Stream!HopsBefore(position) % PhasePeriod
  ELSE /\ run_decimation_phase = Now % Decimation
       /\ run_post_phase = Stream!HopsBefore(Now) % PhasePeriod

(* process() checked the output buffers for OutputCount hops; no kernel    *)
(* ever writes a hop beyond that.                                          *)
OutputsFit ==
  stage # "idle" => Len(output) + Len(queued) <= OutputCount(decimation_phase, input_count)

(* Every kernel is the channelizer PfbStream describes: each call returns  *)
(* exactly the hops that end in its block, in order, each filtered from    *)
(* its own window with its own phase.                                      *)
IsStream == Stream!Spec
=============================================================================
