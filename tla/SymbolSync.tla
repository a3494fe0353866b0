----------------------------- MODULE SymbolSync ------------------------------
(***************************************************************************)
(* The four-channel symbol synchronizer: the history kept between blocks,  *)
(* the two passes of a call, and the timing loops of both backends.        *)
(*                                                                         *)
(* A sample is represented by its number in the stream.  What the detector *)
(* computes from the samples is an input of the model: its error, and      *)
(* whether the averaged error speaks for the other detector.  All lanes    *)
(* have the same configuration.  Times and omega are in ticks, Ticks of    *)
(* them to a sample.                                                       *)
(*                                                                         *)
(* A definition whose comment starts with Fault is no part of the model:   *)
(* it is the definition that follows it with a plausible mistake, which a  *)
(* property below must notice.                                             *)
(***************************************************************************)
EXTENDS Integers, Sequences, FiniteSetsExt

CONSTANTS
  Backend,                    \* "generic" or "avx2_fma"
  Lanes,
  Ticks,
  Omega, OmegaMin, OmegaMax,  \* ticks per symbol at the start, least and most
  Alpha, Beta,                \* loop gains
  Errors,                     \* finite detector errors
  Poisons,                    \* how a non-finite error can throw a loop off
  StartsMuellerMuller, AutoTed, Fallback,
  MinSymbols, MmHold, FallbackHold,
  Counts, Capacities,         \* sizes of the blocks and output buffers
  MaxSupplied, MaxSymbols     \* bounds on the stream that is explored

(* Steps of a batch, and the length of its error log.                      *)
BatchSteps == 64

(* SymbolSync4Initialize, in samples.                                      *)
HalfSymbolCeiling == (OmegaMax + 2 * Ticks - 1) \div (2 * Ticks)
HistoryLength == 4 * ((HalfSymbolCeiling + 8 + 3) \div 4)

EarliestTime == -(HistoryLength - HalfSymbolCeiling - 4)

(* The errors are small enough for every symbol to follow its predecessor, *)
(* as the documentation of the output capacity supposes.                   *)
ASSUME ConstantsAssumption ==
  /\ Backend \in {"generic", "avx2_fma"} /\ Lanes # {} /\ IsFiniteSet(Lanes)
  /\ {Ticks, OmegaMin, MmHold, FallbackHold, MinSymbols} \subseteq Nat /\ Ticks > 0
  /\ {Omega, OmegaMax} \subseteq Nat /\ Ticks <= OmegaMin /\ OmegaMin <= Omega /\ Omega <= OmegaMax
  /\ Alpha \in Nat /\ Beta \in Nat
  /\ \A error \in Errors : error \in Int /\ OmegaMin + Alpha * error > 0
  /\ Poisons \subseteq {"ahead", "behind"}
  /\ {StartsMuellerMuller, AutoTed, Fallback} \subseteq BOOLEAN
  /\ AutoTed => ~StartsMuellerMuller
  /\ Counts \subseteq Nat /\ Capacities \subseteq Nat /\ {MaxSupplied, MaxSymbols} \subseteq Nat

-----------------------------------------------------------------------------
VARIABLES
  time,           \* position of the next symbol in the segment, in ticks
  poison,         \* "no", or where a non-finite error threw the time
  omega, have_previous, symbols,
  ted,            \* mueller_muller, lock_run and unlock_run of the lane
  history, seam,  \* samples kept, and the samples around the block start
  stage,          \* "idle", or the pass that runs: "seam", "block"
  input_count, room,
  batch,          \* the batch of the AVX2 loop that runs, or NoBatch
  truncated,      \* result.truncated_mask
  supplied,       \* history variable: samples consumed by earlier calls
  symbol          \* history variable: what the last symbol was made from

loops == <<time, poison, omega, have_previous, symbols, ted>>
kept == <<history, supplied>>
call == <<seam, stage, input_count, room, batch, truncated>>
vars == <<loops, kept, call, symbol>>

Silence == -1
NoStencil == "none"
NoSymbol == [at |-> NoStencil, mid |-> NoStencil]
Garbage == [at |-> "not a number", mid |-> "not a number"]
NoBatch == [steps |-> 0]

-----------------------------------------------------------------------------
(* Segments: the samples the current pass works on.                        *)

Input(lane, i) == supplied[lane] + i
InSeam(lane) == stage = "seam" \/ input_count[lane] <= HistoryLength
SeamHead(lane) == Min({input_count[lane], HistoryLength})
Length(lane) == IF InSeam(lane) THEN HistoryLength + SeamHead(lane) ELSE input_count[lane]
Data(lane, i) == IF InSeam(lane) THEN seam[lane][i] ELSE Input(lane, i)

(* Fault: a lane whose block fitted into the seam works on it once more.   *)
WorksAlways(lane) == TRUE

(* A lane whose block fitted into the seam has nothing left to do.         *)
Works(lane) == stage = "seam" \/ input_count[lane] > HistoryLength

Limit(lane) == (Length(lane) - 2) * Ticks

InRange(lane) ==
  /\ Works(lane)
  /\ poison[lane] = "behind" \/ (poison[lane] = "no" /\ time[lane] < Limit(lane))
Active == {lane \in Lanes : InRange(lane) /\ room[lane] > 0}

(* Interpolation reads four samples around a position, here in halves of a *)
(* tick.                                                                   *)
Index(halves) == halves \div (2 * Ticks)
Within(index, lane) == Min({Max({index, 1}), Length(lane) - 3})
Stencil(lane, index) == [tap \in 0 .. 3 |-> Data(lane, index - 1 + tap)]

-----------------------------------------------------------------------------
(* Detector switching.                                                     *)

Switched(lock) == [mueller_muller |-> ~lock.mueller_muller, lock_run |-> 0, unlock_run |-> 0]

Run(lock) == IF lock.mueller_muller THEN lock.unlock_run ELSE lock.lock_run
WithRun(lock, run) ==
  IF lock.mueller_muller THEN [lock EXCEPT !.unlock_run = run] ELSE [lock EXCEPT !.lock_run = run]

Hold(lock) == IF lock.mueller_muller THEN FallbackHold ELSE MmHold
Counting(lock, count) == IF lock.mueller_muller THEN Fallback ELSE count >= MinSymbols

(* One symbol's worth of lock tracking; a hold of zero never switches.     *)
Tracked(lock, count, speaks) ==
  IF ~Counting(lock, count) THEN lock
  ELSE LET run == IF speaks THEN Run(lock) + 1 ELSE 0
       IN  IF Hold(lock) # 0 /\ run >= Hold(lock) THEN Switched(lock) ELSE WithRun(lock, run)

(* Lock tracking of a batch, replayed from its log.                        *)
Replayed(lock, count, log) ==
  LET replay[n \in 0 .. Len(log)] ==
        IF n = 0 THEN lock
        ELSE IF Counting(lock, count + n - 1)
        THEN WithRun(lock, IF log[n] THEN Run(replay[n - 1]) + 1 ELSE 0)
        ELSE replay[n - 1]
  IN  replay[Len(log)]

-----------------------------------------------------------------------------
(* The loop filter.                                                        *)

Clamped(value) == IF value < OmegaMin THEN OmegaMin
                  ELSE IF value > OmegaMax THEN OmegaMax ELSE value

(* What a lane's detector makes of the samples: the first symbol has no    *)
(* error, an error that is not finite throws the lane's time, and the      *)
(* average of such errors speaks for no detector.                          *)
Outcomes(lane) ==
  LET errors == IF have_previous[lane] THEN Errors ELSE {0}
      thrown == IF have_previous[lane] THEN Poisons ELSE {}
  IN  IF poison[lane] = "behind"
      THEN [thrown : {"ahead"}, omega : {OmegaMin, OmegaMax}, error : {0}, speaks : {FALSE}]
      ELSE (UNION {[thrown : {"no"}, omega : {Clamped(omega[lane] + Beta * error)},
                    error : {error}, speaks : IF AutoTed THEN BOOLEAN ELSE {FALSE}] :
                     error \in errors})
           \cup [thrown : thrown, omega : {OmegaMin, OmegaMax}, error : {0}, speaks : {FALSE}]

Steps(lanes) ==
  {outcome \in [lanes -> UNION {Outcomes(lane) : lane \in lanes}] :
     \A lane \in lanes : outcome[lane] \in Outcomes(lane)}

Updated(values, new) ==
  [lane \in Lanes |-> IF lane \in DOMAIN new THEN new[lane] ELSE values[lane]]

(* The loops of some lanes take one step each.                             *)
Advance(outcome) ==
  LET stepping == DOMAIN outcome
      finite == {lane \in stepping : outcome[lane].thrown = "no"}
  IN  /\ omega' = Updated(omega, [lane \in stepping |-> outcome[lane].omega])
      /\ time' = Updated(time, [lane \in finite |->
                     time[lane] + outcome[lane].omega + Alpha * outcome[lane].error])
      /\ poison' = Updated(poison, [lane \in stepping |-> outcome[lane].thrown])
      /\ have_previous' = Updated(have_previous, [lane \in stepping |-> TRUE])

Mid(lane, stencil) == IF ted[lane].mueller_muller THEN NoStencil ELSE stencil

(* A symbol of the general path, whose indices are clamped into the data.  *)
Interpolated(lane) ==
  IF poison[lane] = "behind" THEN Garbage
  ELSE [at  |-> Stencil(lane, Within(Index(2 * time[lane]), lane)),
        mid |-> Mid(lane, Stencil(lane, Within(Index(2 * time[lane] - omega[lane]), lane)))]

(* One symbol for each of some lanes on the general path.                  *)
Step(outcome) ==
  /\ Advance(outcome)
  /\ symbol' = Updated(symbol, [lane \in DOMAIN outcome |-> Interpolated(lane)])
  /\ ted' = Updated(ted, [lane \in {l \in DOMAIN outcome : AutoTed /\ have_previous[l]} |->
               Tracked(ted[lane], symbols[lane], outcome[lane].speaks)])
  /\ symbols' = Updated(symbols, [lane \in DOMAIN outcome |-> symbols[lane] + 1])
  /\ room' = Updated(room, [lane \in DOMAIN outcome |-> room[lane] - 1])
  /\ UNCHANGED <<kept, seam, stage, input_count, batch, truncated>>

(* SymbolSync4_generic: one lane after the other.                          *)
GenericStep ==
  /\ Backend = "generic"
  /\ \E lane \in Active : /\ \A other \in Active : lane <= other
                          /\ \E outcome \in Steps({lane}) : Step(outcome)

-----------------------------------------------------------------------------
(* SymbolSync4_avx2: all lanes in lockstep.                                *)

(* Fault: only the stencils of the current symbol are inside.              *)
BatchRangeForCurrentSymbol(lane, at) ==
  /\ 2 * at >= OmegaMax + 4 * Ticks
  /\ at < Limit(lane)

(* Times from which a batch may load every stencil unclamped.              *)
BatchRange(lane, at) ==
  /\ 2 * at >= OmegaMax + 4 * Ticks
  /\ at < Limit(lane) - OmegaMax - 2 * Ticks

(* Fault: a batch may end with the symbol that switches a detector.        *)
BudgetToHold ==
  LET budget == Min({BatchSteps} \cup {room[lane] : lane \in Lanes})
      lock == ted[CHOOSE lane \in Lanes : TRUE]
      run == Max({Run(ted[lane]) : lane \in Lanes})
  IN  IF ~AutoTed \/ (lock.mueller_muller /\ ~Fallback) \/ Hold(lock) = 0
         \/ Hold(lock) - run >= budget
      THEN budget ELSE Max({0, Hold(lock) - run})

(* The most steps a batch may take: it must end before any lane switches   *)
(* its detector, because lock tracking is replayed after it.               *)
Budget ==
  LET budget == Min({BatchSteps} \cup {room[lane] : lane \in Lanes})
      lock == ted[CHOOSE lane \in Lanes : TRUE]
      run == Max({Run(ted[lane]) : lane \in Lanes})
  IN  IF ~AutoTed \/ (lock.mueller_muller /\ ~Fallback) \/ Hold(lock) = 0
         \/ Hold(lock) - run > budget
      THEN budget ELSE Max({0, Hold(lock) - run - 1})

BatchApplies ==
  /\ Active = Lanes
  /\ \A lane \in Lanes : /\ have_previous[lane] /\ poison[lane] = "no"
                         /\ BatchRange(lane, time[lane])
  /\ \A lane, other \in Lanes : ted[lane].mueller_muller = ted[other].mueller_muller
  /\ Budget # 0

MaskedStep ==
  /\ Backend = "avx2_fma" /\ batch = NoBatch /\ Active # {} /\ ~BatchApplies
  /\ \E outcome \in Steps(Active) : Step(outcome)

(* Batch loads the first stencils from exact positions ...                 *)
BatchBegin ==
  /\ Backend = "avx2_fma" /\ batch = NoBatch /\ BatchApplies
  /\ batch' = [steps |-> Budget,
               base |-> [lane \in Lanes |-> Index(2 * time[lane])],
               mid_base |-> [lane \in Lanes |-> Index(2 * time[lane] - omega[lane])],
               log |-> [lane \in Lanes |-> << >>]]
  /\ UNCHANGED <<loops, kept, seam, stage, input_count, room, truncated, symbol>>

(* ... and those of the next symbol from positions that ignore the error;  *)
(* a position outside its stencil makes it load all of them again.         *)
Outside ==
  \E lane \in Lanes :
    \/ Index(2 * time[lane]) # batch.base[lane]
    \/ ~ted[lane].mueller_muller /\ Index(2 * time[lane] - omega[lane]) # batch.mid_base[lane]

(* Fault: the interpolants are used whatever the exact position.           *)
SpeculatedUnchecked(lane) ==
  [at |-> Stencil(lane, batch.base[lane]), mid |-> Mid(lane, Stencil(lane, batch.mid_base[lane]))]

Speculated(lane) ==
  IF Outside
  THEN [at  |-> Stencil(lane, Index(2 * time[lane])),
        mid |-> Mid(lane, Stencil(lane, Index(2 * time[lane] - omega[lane])))]
  ELSE [at  |-> Stencil(lane, batch.base[lane]),
        mid |-> Mid(lane, Stencil(lane, batch.mid_base[lane]))]

Done == Len(batch.log[CHOOSE lane \in Lanes : TRUE])

BatchStep ==
  /\ batch # NoBatch
  /\ \E outcome \in Steps(Lanes) :
       /\ Advance(outcome)
       /\ symbol' = [lane \in Lanes |-> Speculated(lane)]
       /\ LET log == [lane \in Lanes |-> Append(batch.log[lane], outcome[lane].speaks)]
              inside == \A lane \in Lanes : poison'[lane] = "no" /\ BatchRange(lane, time'[lane])
          IN  IF Done + 1 < batch.steps /\ inside
              THEN /\ batch' = [batch EXCEPT
                         !.base = [lane \in Lanes |-> Index(2 * (time[lane] + omega[lane]))],
                         !.mid_base = [lane \in Lanes |-> Index(2 * time[lane] + omega[lane])],
                         !.log = log]
                   /\ UNCHANGED <<ted, symbols, room>>
              ELSE /\ batch' = NoBatch
                   /\ ted' = IF AutoTed
                             THEN [lane \in Lanes |->
                                     Replayed(ted[lane], symbols[lane], log[lane])]
                             ELSE ted
                   /\ symbols' = [lane \in Lanes |-> symbols[lane] + Done + 1]
                   /\ room' = [lane \in Lanes |-> room[lane] - (Done + 1)]
  /\ UNCHANGED <<kept, seam, stage, input_count, truncated>>

-----------------------------------------------------------------------------
(* SymbolSync4Execute                                                      *)

Forward(ticks) == time' = [lane \in Lanes |-> time[lane] + ticks]

Execute(counts, capacities) ==
  /\ stage = "idle"
  /\ \A lane \in Lanes : /\ supplied[lane] + counts[lane] <= MaxSupplied
                         /\ symbols[lane] <= MaxSymbols
  /\ stage' = "seam" /\ input_count' = counts /\ room' = capacities
  /\ seam' = [lane \in Lanes |->
       [i \in 0 .. HistoryLength + Min({counts[lane], HistoryLength}) - 1 |->
          IF i < HistoryLength THEN history[lane][i] ELSE Input(lane, i - HistoryLength)]]
  /\ Forward(HistoryLength * Ticks)
  /\ truncated' = [lane \in Lanes |-> FALSE]
  /\ UNCHANGED <<poison, omega, have_previous, symbols, ted, kept, batch, symbol>>

PassDone == batch = NoBatch /\ Active = {}

SeamDone ==
  /\ stage = "seam" /\ PassDone
  /\ stage' = "block" /\ Forward(-(HistoryLength * Ticks))
  /\ UNCHANGED <<poison, omega, have_previous, symbols, ted, kept, seam, input_count, room,
                 batch, truncated, symbol>>

(* The samples to keep: the newest of the block, or of the seam.           *)
KeptTail(lane) ==
  [i \in 0 .. HistoryLength - 1 |->
     IF input_count[lane] >= HistoryLength
     THEN Input(lane, input_count[lane] - HistoryLength + i)
     ELSE seam[lane][input_count[lane] + i]]

(* Fault: a lane that was cut short keeps its place.                       *)
RebasedUnlimited(lane) ==
  IF poison[lane] # "no" THEN EarliestTime * Ticks ELSE time[lane] - input_count[lane] * Ticks

(* The next symbol's time relative to the next block, at most as early as  *)
(* the kept samples allow.                                                 *)
Rebased(lane) ==
  IF poison[lane] # "no" THEN EarliestTime * Ticks
  ELSE Max({time[lane] - input_count[lane] * Ticks, EarliestTime * Ticks})

Return ==
  /\ stage = "block" /\ PassDone
  /\ stage' = "idle"
  /\ history' = [lane \in Lanes |-> KeptTail(lane)]
  /\ truncated' = [lane \in Lanes |->
       /\ room[lane] = 0
       /\ \/ poison[lane] = "behind"
          \/ poison[lane] = "no" /\ time[lane] < (input_count[lane] - 2) * Ticks]
  /\ time' = [lane \in Lanes |-> Rebased(lane)]
  /\ omega' = [lane \in Lanes |-> IF poison[lane] = "no" THEN omega[lane] ELSE Omega]
  /\ have_previous' = [lane \in Lanes |-> have_previous[lane] /\ poison[lane] = "no"]
  /\ poison' = [lane \in Lanes |-> "no"]
  /\ supplied' = [lane \in Lanes |-> supplied[lane] + input_count[lane]]
  /\ seam' = [lane \in Lanes |-> << >>] /\ input_count' = [lane \in Lanes |-> 0]
  /\ room' = [lane \in Lanes |-> 0] /\ symbol' = [lane \in Lanes |-> NoSymbol]
  /\ UNCHANGED <<symbols, ted, batch>>

(* SymbolSync4Skip: the samples become history, and the loop coasts to the *)
(* first symbol at or after their end.                                     *)
Coasted(lane, count) ==
  IF time[lane] < count * Ticks
  THEN (count * Ticks - time[lane] + omega[lane] - 1) \div omega[lane] ELSE 0

(* Fault: the history of a short block is replaced, not shifted.           *)
SkippedHistoryUnshifted(lane, count) ==
  [i \in 0 .. HistoryLength - 1 |->
     IF i < HistoryLength - count THEN history[lane][i] ELSE Input(lane, count - HistoryLength + i)]

SkippedHistory(lane, count) ==
  [i \in 0 .. HistoryLength - 1 |->
     IF i < HistoryLength - count THEN history[lane][count + i]
     ELSE Input(lane, count - HistoryLength + i)]

Skip(counts) ==
  /\ stage = "idle" /\ \A lane \in Lanes : supplied[lane] + counts[lane] <= MaxSupplied
  /\ history' = [lane \in Lanes |-> SkippedHistory(lane, counts[lane])]
  /\ time' = [lane \in Lanes |->
       LET coasted == time[lane] + Coasted(lane, counts[lane]) * omega[lane]
       IN  Max({coasted - counts[lane] * Ticks, EarliestTime * Ticks})]
  /\ symbols' = [lane \in Lanes |-> symbols[lane] + Coasted(lane, counts[lane])]
  /\ have_previous' = [lane \in Lanes |-> FALSE]
  /\ supplied' = [lane \in Lanes |-> supplied[lane] + counts[lane]]
  /\ UNCHANGED <<poison, omega, ted, call, symbol>>

Initially(lane) ==
  [time |-> Ticks, omega |-> Omega,
   ted |-> [mueller_muller |-> StartsMuellerMuller, lock_run |-> 0, unlock_run |-> 0],
   history |-> [i \in 0 .. HistoryLength - 1 |-> Silence]]

Reset ==
  /\ stage = "idle"
  /\ time' = [lane \in Lanes |-> Initially(lane).time]
  /\ omega' = [lane \in Lanes |-> Initially(lane).omega]
  /\ ted' = [lane \in Lanes |-> Initially(lane).ted]
  /\ history' = [lane \in Lanes |-> Initially(lane).history]
  /\ have_previous' = [lane \in Lanes |-> FALSE] /\ symbols' = [lane \in Lanes |-> 0]
  /\ supplied' = [lane \in Lanes |-> 0]
  /\ truncated' = [lane \in Lanes |-> FALSE]
  /\ UNCHANGED <<symbol, poison, seam, stage, input_count, room, batch>>

Init ==
  /\ time = [lane \in Lanes |-> Initially(lane).time]
  /\ omega = [lane \in Lanes |-> Initially(lane).omega]
  /\ ted = [lane \in Lanes |-> Initially(lane).ted]
  /\ history = [lane \in Lanes |-> Initially(lane).history]
  /\ poison = [lane \in Lanes |-> "no"] /\ have_previous = [lane \in Lanes |-> FALSE]
  /\ symbols = [lane \in Lanes |-> 0] /\ supplied = [lane \in Lanes |-> 0]
  /\ seam = [lane \in Lanes |-> << >>] /\ stage = "idle"
  /\ input_count = [lane \in Lanes |-> 0] /\ room = [lane \in Lanes |-> 0]
  /\ batch = NoBatch /\ truncated = [lane \in Lanes |-> FALSE]
  /\ symbol = [lane \in Lanes |-> NoSymbol]

Next ==
  \/ GenericStep \/ MaskedStep \/ BatchBegin \/ BatchStep \/ SeamDone \/ Return \/ Reset
  \/ \E counts \in [Lanes -> Counts], capacities \in [Lanes -> Capacities] :
       Execute(counts, capacities)
  \/ \E counts \in [Lanes -> Counts] : Skip(counts)

Spec == Init /\ [][Next]_vars

-----------------------------------------------------------------------------
Locks == [mueller_muller : BOOLEAN, lock_run : Nat, unlock_run : Nat]

(* The oldest kept sample a call may still need, seen from where the pass  *)
(* that runs counts its samples: the seam begins with the kept ones.       *)
Oldest == IF stage = "seam" THEN HistoryLength + EarliestTime ELSE EarliestTime

(* No lane falls behind the samples that are kept for it: wherever a block *)
(* ended, was cut short or was skipped, its next symbol lies no earlier    *)
(* than the oldest of them that leaves room to interpolate.  Omega stays   *)
(* inside its bounds, whatever the errors.                                 *)
TypeOK ==
  /\ time \in [Lanes -> Int] /\ \A lane \in Lanes : time[lane] >= Oldest * Ticks
  /\ poison \in [Lanes -> {"no", "ahead", "behind"}]
  /\ omega \in [Lanes -> OmegaMin .. OmegaMax] /\ have_previous \in [Lanes -> BOOLEAN]
  /\ symbols \in [Lanes -> Nat] /\ ted \in [Lanes -> Locks]
  /\ history \in [Lanes -> [0 .. HistoryLength - 1 -> {Silence} \cup 0 .. MaxSupplied - 1]]
  /\ stage \in {"idle", "seam", "block"}
  /\ input_count \in [Lanes -> Nat] /\ room \in [Lanes -> Nat]
  /\ truncated \in [Lanes -> BOOLEAN] /\ supplied \in [Lanes -> 0 .. MaxSupplied]

(* The kept samples are the newest of the stream, however it was cut into  *)
(* blocks, skipped or reset.                                               *)
HistoryIsStream ==
  \A lane \in Lanes : \A i \in 0 .. HistoryLength - 1 :
    history[lane][i] = LET n == supplied[lane] - HistoryLength + i IN IF n < 0 THEN Silence ELSE n

(* A batch neither clamps nor counts what it still may write: the stencils *)
(* it loads, for the symbol it makes and ahead for the next one, lie       *)
(* inside the data of every lane; its symbols fit into the output buffer   *)
(* of every lane, and their errors into its log of BatchSteps.             *)
StencilInside(lane, index) == index >= 1 /\ index + 2 < Length(lane)
BatchStaysInside ==
  batch # NoBatch =>
    \A lane \in Lanes :
      LET stencils == {Index(2 * time[lane]), Index(2 * (time[lane] + omega[lane]))}
          mids == {Index(2 * time[lane] - omega[lane]), Index(2 * time[lane] + omega[lane])}
      IN  /\ \A index \in stencils \cup mids : StencilInside(lane, index)
          /\ Len(batch.log[lane]) < BatchSteps /\ Len(batch.log[lane]) < room[lane]

(* A batch is over before a lane can switch its detector, whatever the     *)
(* symbols it has left say: replaying the lock tracking after it changes   *)
(* nothing.                                                                *)
ReplayIsLate ==
  batch # NoBatch =>
    \A lane \in Lanes :
      LET lock == Replayed(ted[lane], symbols[lane], batch.log[lane])
      IN  AutoTed /\ (lock.mueller_muller => Fallback) /\ Hold(lock) # 0
            => Run(lock) + batch.steps - Len(batch.log[lane]) < Hold(lock)

(* Every lane is the timing loop SymbolLane describes, on its own: block   *)
(* boundaries, the seam, the other lanes, batches and their replayed lock  *)
(* tracking leave no trace in its symbols.                                 *)
Origin(lane) == IF stage = "seam" THEN supplied[lane] - HistoryLength ELSE supplied[lane]
Log(lane) == IF batch = NoBatch THEN << >> ELSE batch.log[lane]
LockOf(lane) ==
  IF AutoTed THEN Replayed(ted[lane], symbols[lane], Log(lane)) ELSE ted[lane]

Lane(lane) == INSTANCE SymbolLane WITH
  Reach <- -EarliestTime,
  busy <- stage # "idle",
  supplied <- supplied[lane] + input_count[lane],
  clock <- Origin(lane) * Ticks + time[lane],
  thrown <- poison[lane],
  omega <- omega[lane],
  previous <- have_previous[lane],
  symbols <- symbols[lane] + Len(Log(lane)),
  mueller_muller <- LockOf(lane).mueller_muller,
  run <- Run(LockOf(lane)),
  room <- room[lane] - Len(Log(lane)),
  truncated <- truncated[lane],
  symbol <- symbol[lane]

LaneStep(lane) == Lane(lane)!Next \/ UNCHANGED Lane(lane)!vars
AreLanes == /\ \A lane \in Lanes : Lane(lane)!Init
            /\ [][\A lane \in Lanes : LaneStep(lane)]_vars
=============================================================================
