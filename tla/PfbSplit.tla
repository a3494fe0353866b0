------------------------------- MODULE PfbSplit -------------------------------
(***************************************************************************)
(* Two channelizers of one configuration filter the two parts of a block.  *)
(* The second one takes over the state of the first, moves past the first  *)
(* part without outputs and filters the second part, before, while or      *)
(* after the first one filters the first part.  Then the first one takes   *)
(* over the state at the end of the block.                                 *)
(*                                                                         *)
(* The channelizers share no memory, so calls on different ones commute:   *)
(* one call at a time is in progress, in any order.  The variables of      *)
(* PfbRing are those of the channelizer that is used, what the other one   *)
(* keeps between calls is put aside.                                       *)
(*                                                                         *)
(* A definition whose comment starts with Fault is no part of the model:   *)
(* it is the definition that follows it with a plausible mistake, which a  *)
(* property below must notice.                                             *)
(***************************************************************************)
EXTENDS Integers, Sequences

CONSTANTS
  Backend, Bins, Rows, Decimation, Outputs, ExactBins, PhasePeriod, RunsAvailable, MaxHistory,
  BlockSizes, MaxPosition,
  OtherBackend,     \* implementation of the second channelizer
  None

VARIABLES
  history, cursor, decimation_phase, post_phase, stage, input_count, input_index,
  run_cursor, run_decimation_phase, run_post_phase, queued, output, position, delivered,
  used,             \* the channelizer that is used
  other,            \* what the other one keeps, or None before it has a state
  parts             \* the block that is split, or None

ring == <<history, cursor, decimation_phase, post_phase, stage, input_count, input_index,
          run_cursor, run_decimation_phase, run_post_phase, queued, output, position, delivered>>
split == <<used, other, parts>>
vars == <<ring, split>>

(* The second channelizer is one without the AVX-512 main loop.            *)
First == INSTANCE PfbRing
Second == INSTANCE PfbRing WITH Backend <- OtherBackend, RunsAvailable <- FALSE

ASSUME FirstAssumption ==
  First!LayoutAssumption /\ First!PeriodAssumption /\ First!HistoryAssumption

ASSUME SecondAssumption ==
  Second!LayoutAssumption /\ Second!PeriodAssumption /\ Second!HistoryAssumption

ASSUME NoneAssumption ==
  None \notin [start : Nat, first : BlockSizes, second : BlockSizes, before : Seq(First!Hops)]

-----------------------------------------------------------------------------
Kept == [history |-> history, cursor |-> cursor, decimation_phase |-> decimation_phase,
         post_phase |-> post_phase, position |-> position, delivered |-> delivered]

(* Fault: the phase of the next output is not part of the state.           *)
CopiedStateOldPhase == [Kept EXCEPT !.post_phase = 0, !.delivered = << >>]

(* copy_state_from                                                         *)
CopiedState == [Kept EXCEPT !.delivered = << >>]

(* Everything else that copy_state_from compares is part of the common     *)
(* configuration.                                                          *)
CopyAccepted == First!HistorySize = Second!HistorySize

Init ==
  /\ First!Init
  /\ used = "first" /\ other = None /\ parts = None

-----------------------------------------------------------------------------
(* The first channelizer, by itself or with the first part of a block.     *)
UsesFirst == used = "first" /\ UNCHANGED split

LoopOfFirst == UsesFirst /\ First!Loop
Reset == parts = None /\ UsesFirst /\ First!Reset
Process(count) == parts = None /\ UsesFirst /\ First!Process(count)
ProcessFirst ==
  UsesFirst /\ parts # None /\ position = parts.start /\ First!Process(parts.first)

(* The second channelizer.                                                 *)
UsesSecond == used = "second" /\ UNCHANGED split

LoopOfSecond == UsesSecond /\ Second!Loop
AdvanceSecond ==
  UsesSecond /\ position = parts.start /\ Second!Advance(parts.first)
ProcessSecond ==
  UsesSecond /\ position = parts.start + parts.first /\ Second!Process(parts.second)

-----------------------------------------------------------------------------
(* A block is split: the second channelizer takes over the state.          *)
SplitBlock(first, second) ==
  /\ stage = "idle" /\ parts = None /\ position + first + second <= MaxPosition
  /\ CopyAccepted
  /\ parts' = [start |-> position, first |-> first, second |-> second, before |-> delivered]
  /\ other' = CopiedState /\ delivered' = << >>
  /\ UNCHANGED <<history, cursor, decimation_phase, post_phase, stage, input_count, input_index,
                 run_cursor, run_decimation_phase, run_post_phase, queued, output, position,
                 used>>

(* The next call is one on the other channelizer.                          *)
Switch ==
  /\ stage = "idle" /\ parts # None
  /\ used' = (IF used = "first" THEN "second" ELSE "first") /\ other' = Kept
  /\ history' = other.history /\ cursor' = other.cursor
  /\ decimation_phase' = other.decimation_phase /\ post_phase' = other.post_phase
  /\ position' = other.position /\ delivered' = other.delivered
  /\ UNCHANGED <<stage, input_count, input_index, run_cursor, run_decimation_phase,
                 run_post_phase, queued, output, parts>>

(* Both parts are filtered: the first channelizer takes the state back.    *)
Join ==
  /\ stage = "idle" /\ parts # None /\ used = "second"
  /\ other.position = parts.start + parts.first
  /\ position = parts.start + parts.first + parts.second
  /\ used' = "first" /\ other' = None /\ parts' = None
  /\ delivered' = other.delivered \o delivered
  /\ UNCHANGED <<history, cursor, decimation_phase, post_phase, stage, input_count, input_index,
                 run_cursor, run_decimation_phase, run_post_phase, queued, output, position>>

Next ==
  \/ LoopOfFirst \/ Reset \/ ProcessFirst
  \/ LoopOfSecond \/ AdvanceSecond \/ ProcessSecond
  \/ Switch \/ Join
  \/ \E count \in BlockSizes : Process(count)
  \/ \E first, second \in BlockSizes : SplitBlock(first, second)

Spec == Init /\ [][Next]_vars

-----------------------------------------------------------------------------
(* Together the two channelizers are one: a block that is split delivers   *)
(* the hops that filtering it at once delivers, wherever it is split and   *)
(* whichever of its parts is filtered first, and the stream goes on from   *)
(* the state in which the second channelizer met the end of the block.     *)
Joined == INSTANCE PfbStream WITH
  FilterSpan <- First!FilterSpan,
  BlockSizes <- BlockSizes \cup {first + second : first \in BlockSizes, second \in BlockSizes},
  position <- IF parts # None THEN parts.start
              ELSE position,
  delivered <- IF parts # None THEN parts.before ELSE delivered
SplitIsSerial == Joined!Spec
=============================================================================
