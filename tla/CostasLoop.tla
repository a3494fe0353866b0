----------------------------- MODULE CostasLoop ------------------------------
(***************************************************************************)
(* The four-channel QPSK Costas loop on both backends.                     *)
(*                                                                         *)
(* The loop keeps every angle twice, as an accumulated phase and as a      *)
(* phasor, and so for every step that is decided but not made yet.  The    *)
(* AVX2 code treats all lanes in lockstep, holds the pending steps in a    *)
(* ring and leaves out the clamping of a sample that needs none.           *)
(*                                                                         *)
(* What the detector finds in a sample is an input of the model.  Angles,  *)
(* gains and frequencies are whole units, Turn of them to a full turn, and *)
(* free of rounding; samples are finite.  All lanes have the same          *)
(* configuration.                                                          *)
(*                                                                         *)
(* A definition whose comment starts with Fault is no part of the model:   *)
(* it is the definition that follows it with a plausible mistake, which a  *)
(* property below must notice.                                             *)
(***************************************************************************)
EXTENDS Integers, Sequences, FiniteSets, FiniteSetsExt

CONSTANTS
  Backend,                     \* "generic" or "avx2_fma"
  Lanes,
  Turn, Delay,
  Period,                      \* samples between two normalizations
  Alpha, Beta, Clip,           \* loop gains, bound of the error or 0
  InitialPhase, InitialFrequency,
  Errors,                      \* what the detector may find
  Limits, Overrides,           \* frequency bounds or 0, and frequencies to impose
  SampleCounts, SkipCounts, QuarterTurns,
  Sources,                     \* states of other loops of this configuration, between calls
  MaxFrequency                 \* bound on the frequencies that are explored

ASSUME ConstantsAssumption ==
  /\ Backend \in {"generic", "avx2_fma"}
  /\ {Turn, Delay, Period, Clip, MaxFrequency} \subseteq Nat
  /\ Turn > 0 /\ Turn % 4 = 0 /\ Delay > 0 /\ Period > 0
  /\ {Alpha, Beta, InitialPhase, InitialFrequency} \subseteq Int
  /\ Errors \subseteq Int /\ IsFiniteSet(Errors)
  /\ Limits \subseteq Nat /\ Overrides \subseteq Int /\ Overrides # {}
  /\ SampleCounts \subseteq Nat /\ SkipCounts \subseteq Nat /\ QuarterTurns \subseteq Int

VARIABLES
  phase, phasor,               \* accumulated phase, and angle of (phase_cos, phase_sin)
  frequency, last_error,
  pending,                     \* decided steps, with the phasors that make them
  pending_slot,                \* where the oldest one is while the AVX2 loop runs
  samples_since_normalization,
  busy, left, limit            \* a block is processed: samples to go, frequency bounds

loop == <<phase, phasor, frequency, last_error, pending>>
vars == <<loop, pending_slot, samples_since_normalization, busy, left, limit>>

-----------------------------------------------------------------------------
(* std::remainder: the nearest multiple of a turn is taken off, of two     *)
(* equally near ones the even one.                                         *)
Remainder(angle) ==
  LET nearest == (2 * angle + Turn) \div (2 * Turn)
      tie == (2 * angle + Turn) % (2 * Turn) = 0
  IN  angle - Turn * (IF tie /\ nearest % 2 = 1 THEN nearest - 1 ELSE nearest)

(* Costas4Normalize                                                        *)
Normalized(angle) ==
  IF 2 * Remainder(angle) <= -Turn THEN Turn \div 2 ELSE Remainder(angle)

Step(delta) == [step |-> delta, rotor |-> delta % Turn]
Steps == [step : Int, rotor : 0 .. Turn - 1]

Size(number) == IF number < 0 THEN -number ELSE number

LargestStep ==
  LET corrected == MaxFrequency + Size(Alpha) * Max({0} \cup {Size(error) : error \in Errors})
  IN  Max({corrected, Size(InitialFrequency)})

(* What a phase is that so many samples have moved since it was normal.    *)
Grown(samples) == LET size == (Turn \div 2) + samples * LargestStep IN -size .. size

Loops ==
  [phase : [Lanes -> Int], phasor : [Lanes -> 0 .. Turn - 1],
   frequency : [Lanes -> -LargestStep .. LargestStep], last_error : [Lanes -> Int],
   pending : [Lanes -> [0 .. Delay - 1 -> Steps]],
   samples_since_normalization : 0 .. Period - 1]

(* Between calls, another loop is what this one is shown to be.            *)
BetweenCalls(other) ==
  /\ other \in Loops
  /\ \A lane \in Lanes :
       /\ other.phase[lane] \in Grown(other.samples_since_normalization)
       /\ other.phasor[lane] = other.phase[lane] % Turn
       /\ \A slot \in 0 .. Delay - 1 :
            /\ other.pending[lane][slot].rotor = other.pending[lane][slot].step % Turn
            /\ other.pending[lane][slot].step \in -LargestStep .. LargestStep

ASSUME SourcesAssumption == \A source \in Sources : BetweenCalls(source)

Start ==
  [phase |-> Remainder(InitialPhase), phasor |-> Remainder(InitialPhase) % Turn,
   pending |-> [slot \in 0 .. Delay - 1 |-> Step(0)]]

Init ==
  /\ phase = [lane \in Lanes |-> Start.phase] /\ phasor = [lane \in Lanes |-> Start.phasor]
  /\ frequency = [lane \in Lanes |-> InitialFrequency]
  /\ last_error = [lane \in Lanes |-> 0]
  /\ pending = [lane \in Lanes |-> Start.pending]
  /\ pending_slot = 0 /\ samples_since_normalization = 0
  /\ busy = FALSE /\ left = 0 /\ limit = [lane \in Lanes |-> 0]

OldestFirst(lane) ==
  [slot \in 0 .. Delay - 1 |-> pending[lane][(pending_slot + slot) % Delay]]

-----------------------------------------------------------------------------
(* QpskCostas4Execute: an empty block changes nothing, not even a          *)
(* frequency it wants to impose.                                           *)
Execute(count, limits) ==
  /\ ~busy /\ count > 0
  /\ busy' = TRUE /\ left' = count /\ limit' = limits
  /\ \E mask \in SUBSET Lanes, override \in [Lanes -> Overrides] :
       frequency' = [lane \in Lanes |-> IF lane \in mask THEN override[lane] ELSE frequency[lane]]
  /\ UNCHANGED <<phase, phasor, last_error, pending, pending_slot, samples_since_normalization>>

Clamped(value, bound) ==
  IF bound = 0 THEN value
  ELSE IF value < -bound THEN -bound ELSE IF value > bound THEN bound ELSE value

(* Fault: a frequency beyond its bound does not bring in the clamping.     *)
OutsideErrorOnly(error) == \E lane \in Lanes : Clip # 0 /\ error[lane] \notin -Clip .. Clip

(* The AVX2 loop clamps, in all lanes, when a lane leaves its bounds.      *)
Outside(error) ==
  \E lane \in Lanes :
    \/ Clip # 0 /\ error[lane] \notin -Clip .. Clip
    \/ /\ limit[lane] # 0
       /\ frequency[lane] + Beta * error[lane] \notin -limit[lane] .. limit[lane]

Clamps(error) == Backend = "generic" \/ Outside(error)

(* The oldest step makes way for the newest.                               *)
Queued(lane, delta) ==
  IF Backend = "generic"
  THEN [slot \in 0 .. Delay - 1 |->
          IF slot = Delay - 1 THEN Step(delta) ELSE pending[lane][slot + 1]]
  ELSE [pending[lane] EXCEPT ![pending_slot] = Step(delta)]

(* Fault: normalizing comes a sample late.                                 *)
NormalizingLate == samples_since_normalization = Period

Normalizing == samples_since_normalization + 1 = Period

Sample(error) ==
  LET clipped == IF Clamps(error) THEN [lane \in Lanes |-> Clamped(error[lane], Clip)] ELSE error
      oldest(lane) == pending[lane][pending_slot]
      moved(lane) == phase[lane] + oldest(lane).step
  IN  /\ busy /\ left > 0 /\ left' = left - 1
      /\ last_error' = clipped
      /\ frequency' = [lane \in Lanes |->
           LET corrected == frequency[lane] + Beta * clipped[lane]
           IN  IF Clamps(error) THEN Clamped(corrected, limit[lane]) ELSE corrected]
      /\ \A lane \in Lanes : frequency'[lane] \in -MaxFrequency .. MaxFrequency
      /\ phasor' = [lane \in Lanes |-> (phasor[lane] + oldest(lane).rotor) % Turn]
      /\ phase' = [lane \in Lanes |->
           IF Normalizing THEN Normalized(moved(lane)) ELSE moved(lane)]
      /\ pending' = [lane \in Lanes |->
           Queued(lane, frequency'[lane] + Alpha * clipped[lane])]
      /\ pending_slot' = IF Backend = "generic" THEN 0 ELSE (pending_slot + 1) % Delay
      /\ samples_since_normalization' = IF Normalizing THEN 0 ELSE samples_since_normalization + 1
      /\ UNCHANGED <<busy, limit>>

(* The end of a call; the AVX2 loop stores its ring oldest first.          *)
Return ==
  /\ busy /\ left = 0
  /\ busy' = FALSE /\ limit' = [lane \in Lanes |-> 0]
  /\ pending' = [lane \in Lanes |-> OldestFirst(lane)]
  /\ pending_slot' = 0
  /\ UNCHANGED <<phase, phasor, frequency, last_error, samples_since_normalization, left>>

-----------------------------------------------------------------------------
(* QpskCostas4Skip: decided steps are made first, every further sample     *)
(* steps by the frequency, and the phasor is made anew from the phase.     *)

Coasted(lane, count) ==
  LET applied == IF count < Delay THEN count ELSE Delay
      made[n \in 0 .. applied] ==
        IF n = 0 THEN phase[lane] ELSE made[n - 1] + pending[lane][n - 1].step
  IN  made[applied] + (count - applied) * frequency[lane]

Skip(count) ==
  /\ ~busy /\ count > 0
  /\ phase' = [lane \in Lanes |-> Remainder(Coasted(lane, count))]
  /\ phasor' = [lane \in Lanes |-> phase'[lane] % Turn]
  /\ pending' = [lane \in Lanes |-> [slot \in 0 .. Delay - 1 |->
       IF slot + count < Delay THEN pending[lane][slot + count] ELSE Step(frequency[lane])]]
  /\ last_error' = [lane \in Lanes |-> 0]
  /\ UNCHANGED <<frequency, pending_slot, samples_since_normalization, busy, left, limit>>

(* QpskCostas4Rotate                                                       *)
Quarters(turns) == (turns % 4) * (Turn \div 4)

(* Fault: only the phasor is rotated.                                      *)
RotatedPhaseKept(lane, turns) == phase[lane]

RotatedPhase(lane, turns) == Remainder(phase[lane] + Quarters(turns))

Rotate(turns) ==
  /\ ~busy
  /\ phasor' = [lane \in Lanes |-> (phasor[lane] + Quarters(turns[lane])) % Turn]
  /\ phase' = [lane \in Lanes |-> RotatedPhase(lane, turns[lane])]
  /\ UNCHANGED <<frequency, last_error, pending, pending_slot, samples_since_normalization,
                 busy, left, limit>>

Reset ==
  /\ ~busy
  /\ phase' = [lane \in Lanes |-> Start.phase] /\ phasor' = [lane \in Lanes |-> Start.phasor]
  /\ frequency' = [lane \in Lanes |-> InitialFrequency]
  /\ last_error' = [lane \in Lanes |-> 0]
  /\ pending' = [lane \in Lanes |-> Start.pending]
  /\ samples_since_normalization' = 0
  /\ UNCHANGED <<pending_slot, busy, left, limit>>

(* Fault: the samples since the other loop normalized are not copied.      *)
CopiedSamplesKept(source) == samples_since_normalization

CopiedSamples(source) == source.samples_since_normalization

(* QpskCostas4CopyState                                                    *)
CopyState(source) ==
  /\ ~busy
  /\ phase' = source.phase /\ phasor' = source.phasor
  /\ frequency' = source.frequency /\ last_error' = source.last_error
  /\ pending' = source.pending
  /\ samples_since_normalization' = CopiedSamples(source)
  /\ UNCHANGED <<pending_slot, busy, left, limit>>

Next ==
  \/ \E count \in SampleCounts, limits \in [Lanes -> Limits] : Execute(count, limits)
  \/ \E error \in [Lanes -> Errors] : Sample(error)
  \/ Return \/ Reset
  \/ \E count \in SkipCounts : Skip(count)
  \/ \E turns \in [Lanes -> QuarterTurns] : Rotate(turns)
  \/ \E source \in Sources : CopyState(source)

Spec == Init /\ [][Next]_vars

-----------------------------------------------------------------------------
TypeOK ==
  /\ phase \in [Lanes -> Int] /\ phasor \in [Lanes -> 0 .. Turn - 1]
  /\ frequency \in [Lanes -> Int] /\ last_error \in [Lanes -> Int]
  /\ pending \in [Lanes -> [0 .. Delay - 1 -> Steps]] /\ pending_slot \in 0 .. Delay - 1
  /\ samples_since_normalization \in 0 .. Period - 1
  /\ busy \in BOOLEAN /\ left \in Nat /\ limit \in [Lanes -> Nat]
  /\ left > 0 => busy
  /\ ~busy => pending_slot = 0

(* Phase and phasor, and the two forms of every pending step, are the same *)
(* angle: a skip and a normalization may replace one by the other.         *)
PhasorFollowsPhase ==
  \A lane \in Lanes :
    /\ phasor[lane] = phase[lane] % Turn
    /\ \A slot \in 0 .. Delay - 1 :
         pending[lane][slot].rotor = pending[lane][slot].step % Turn

(* Between normalizations the accumulated phase grows by the steps of at   *)
(* most Period samples, however blocks, skips, rotations and copies of     *)
(* other loops follow each other.                                          *)
PhaseStaysSmall == \A lane \in Lanes : phase[lane] \in Grown(samples_since_normalization)

(* Every lane is the loop CostasLane describes, on its own.                *)
Lane(lane) == INSTANCE CostasLane WITH
  Phase <- InitialPhase, Frequency <- InitialFrequency,
  Copies <- {[angle |-> source.phasor[lane], frequency |-> source.frequency[lane],
              last_error |-> source.last_error[lane],
              decided |-> [step \in 1 .. Delay |-> source.pending[lane][step - 1].step]] :
                source \in Sources},
  busy <- busy,
  limit <- limit[lane],
  angle <- phasor[lane],
  frequency <- frequency[lane],
  last_error <- last_error[lane],
  decided <- [step \in 1 .. Delay |-> OldestFirst(lane)[step - 1].step]

LaneStep(lane) == Lane(lane)!Next \/ UNCHANGED Lane(lane)!vars
AreLanes == /\ \A lane \in Lanes : Lane(lane)!Init
            /\ [][\A lane \in Lanes : LaneStep(lane)]_vars
=============================================================================
