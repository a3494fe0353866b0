-------------------------- MODULE SymbolSyncProofs ---------------------------
(***************************************************************************)
(* Proofs about SymbolSync, for any number of lanes, any bounds of omega,  *)
(* any holds and any sizes of blocks and output buffers.                   *)
(*                                                                         *)
(* The argument.  A call works on the seam, a copy of the kept samples and *)
(* the head of the block, so that what it keeps at its end is the suffix   *)
(* of one sequence.  A batch is entered and goes on only with every lane   *)
(* in the range in which no stencil needs clamping, which the bounds of    *)
(* omega keep it in for the symbol that is loaded ahead.  This is the      *)
(* first invariant, IInv.                                                  *)
(*                                                                         *)
(* The second, LInv, says of every lane that its detector is short of its  *)
(* hold (RunsOK), during a batch by more than the steps of the batch       *)
(* (BatchOK), and that no symbol it may still make needs clamping either   *)
(* (PlacesOK): a place moves back only at the end of a call, and then no   *)
(* further than the kept samples reach.  Loops only move forward, so no    *)
(* place is ever before the kept samples (TimesOK).                        *)
(*                                                                         *)
(* Replaying a log one entry longer is tracking one symbol more, which is  *)
(* an induction on the length of the log.  So with the log of a running    *)
(* batch replayed a lane shows what a loop on its own would have, and      *)
(* every action is an action of that loop or nothing it shows              *)
(* (LanesAreLanes).                                                        *)
(***************************************************************************)
EXTENDS SymbolSync, FiniteSetTheorems, WellFoundedInduction, TLAPS

-----------------------------------------------------------------------------
(* Facts about numbers.                                                    *)

LEMMA SmallerFacts ==
  ASSUME NEW a \in Int, NEW b \in Int
  PROVE  Min({a, b}) = IF a <= b THEN a ELSE b
<1> DEFINE least == IF a <= b THEN a ELSE b
<1>1. least \in {a, b} /\ \A y \in {a, b} : least <= y
  OBVIOUS
<1>2. \A x \in {a, b} : (\A y \in {a, b} : x <= y) => x = least
  OBVIOUS
<1> HIDE DEF least
<1>3. Min({a, b}) = least
  BY <1>1, <1>2 DEF Min
<1> QED
  BY <1>3 DEF least

LEMMA LargerFacts ==
  ASSUME NEW a \in Int, NEW b \in Int
  PROVE  Max({a, b}) = IF a >= b THEN a ELSE b
<1> DEFINE most == IF a >= b THEN a ELSE b
<1>1. most \in {a, b} /\ \A y \in {a, b} : most >= y
  OBVIOUS
<1>2. \A x \in {a, b} : (\A y \in {a, b} : x >= y) => x = most
  OBVIOUS
<1> HIDE DEF most
<1>3. Max({a, b}) = most
  BY <1>1, <1>2 DEF Max
<1> QED
  BY <1>3 DEF most

LEMMA ConstantsFacts ==
  /\ Ticks \in Nat /\ Ticks > 0 /\ OmegaMin \in Nat /\ OmegaMin > 0
  /\ Omega \in Int /\ OmegaMax \in Int /\ OmegaMin <= Omega /\ Omega <= OmegaMax
  /\ Alpha \in Int /\ Beta \in Int /\ Errors \subseteq Int
  /\ Counts \subseteq Nat /\ Capacities \subseteq Nat
  /\ HistoryLength \in Nat /\ EarliestTime \in Int
<1>1. /\ Ticks \in Nat /\ Ticks > 0 /\ OmegaMin \in Nat /\ Ticks <= OmegaMin
      /\ Omega \in Int /\ OmegaMax \in Int /\ OmegaMin <= Omega /\ Omega <= OmegaMax
  <2>1. {Ticks, OmegaMin} \subseteq Nat /\ {Omega, OmegaMax} \subseteq Nat
    BY ConstantsAssumption
  <2> QED
    BY <2>1, ConstantsAssumption
<1>2. HalfSymbolCeiling \in Nat
  <2>1. OmegaMax + 2 * Ticks - 1 \in Nat /\ 2 * Ticks \in Nat \ {0}
    BY <1>1
  <2> QED
    BY <2>1 DEF HalfSymbolCeiling
<1>3. HistoryLength \in Nat
  BY <1>2 DEF HistoryLength
<1> QED
  BY <1>1, <1>2, <1>3, ConstantsAssumption DEF EarliestTime

-----------------------------------------------------------------------------
(* A symbol with an error, one made of a sample that is no number, and one *)
(* of a lane whose time is no number.                                      *)
Follows(lane, outcome) ==
  /\ poison[lane] # "behind" /\ outcome.thrown = "no"
  /\ outcome.error \in (IF have_previous[lane] THEN Errors ELSE {0})
  /\ outcome.omega = Clamped(omega[lane] + Beta * outcome.error)
  /\ outcome.speaks \in (IF AutoTed THEN BOOLEAN ELSE {FALSE})

Throws(lane, outcome) ==
  /\ poison[lane] # "behind" /\ have_previous[lane] /\ outcome.thrown \in Poisons
  /\ outcome.omega \in {OmegaMin, OmegaMax} /\ outcome.error = 0 /\ outcome.speaks = FALSE

Lost(lane, outcome) ==
  /\ poison[lane] = "behind" /\ outcome.thrown = "ahead"
  /\ outcome.omega \in {OmegaMin, OmegaMax} /\ outcome.error = 0 /\ outcome.speaks = FALSE

LEMMA OutcomeKinds ==
  ASSUME NEW lane \in Lanes, NEW outcome \in Outcomes(lane)
  PROVE  Follows(lane, outcome) \/ Throws(lane, outcome) \/ Lost(lane, outcome)
<1> DEFINE errors == IF have_previous[lane] THEN Errors ELSE {0}
           thrown == IF have_previous[lane] THEN Poisons ELSE {}
           finite(error) == [thrown : {"no"}, omega : {Clamped(omega[lane] + Beta * error)},
                             error : {error}, speaks : IF AutoTed THEN BOOLEAN ELSE {FALSE}]
           finites == {finite(error) : error \in errors}
           poisoned == [thrown : thrown, omega : {OmegaMin, OmegaMax}, error : {0},
                        speaks : {FALSE}]
<1>1. CASE poison[lane] = "behind"
  <2>1. outcome \in [thrown : {"ahead"}, omega : {OmegaMin, OmegaMax}, error : {0},
                     speaks : {FALSE}]
    BY <1>1 DEF Outcomes
  <2> QED
    BY <1>1, <2>1 DEF Lost
<1>2. CASE poison[lane] # "behind"
  <2>1. Outcomes(lane) = (UNION finites) \cup poisoned
    BY <1>2 DEF Outcomes
  <2>2. outcome \in UNION finites \/ outcome \in poisoned
    <3>1. outcome \in Outcomes(lane)
      OBVIOUS
    <3> HIDE DEF finites, poisoned
    <3> QED
      BY <2>1, <3>1
  <2>3. CASE outcome \in UNION finites
    <3>1. \E error \in errors : outcome \in finite(error)
      <4>1. \A set \in finites : \E error \in errors : set = finite(error)
        OBVIOUS
      <4> HIDE DEF finites, finite, errors
      <4> QED
        BY <2>3, <4>1
    <3>2. PICK error \in errors : outcome \in finite(error)
      BY <3>1
    <3>3. outcome.thrown = "no" /\ outcome.error = error
          /\ outcome.omega = Clamped(omega[lane] + Beta * error)
      BY <3>2
    <3>4. outcome.speaks \in (IF AutoTed THEN BOOLEAN ELSE {FALSE})
      BY <3>2
    <3> QED
      BY <1>2, <3>3, <3>4 DEF Follows
  <2>4. CASE outcome \in poisoned
    <3>1. outcome.thrown \in thrown /\ outcome.omega \in {OmegaMin, OmegaMax} /\ outcome.error = 0
      BY <2>4
    <3>2. outcome.speaks = FALSE
      BY <2>4
    <3>3. have_previous[lane] /\ outcome.thrown \in Poisons
      BY <3>1
    <3> QED
      BY <1>2, <3>1, <3>2, <3>3 DEF Throws
  <2> QED
    BY <2>2, <2>3, <2>4
<1> QED
  BY <1>1, <1>2

(* What the detector finds keeps omega in its bounds.                      *)
LEMMA OutcomeFacts ==
  ASSUME NEW lane \in Lanes, omega[lane] \in Int, NEW outcome \in Outcomes(lane)
  PROVE  outcome.omega \in OmegaMin .. OmegaMax /\ outcome.error \in Int
<1>1. \A error \in Errors \cup {0} : Clamped(omega[lane] + Beta * error) \in OmegaMin .. OmegaMax
  BY ConstantsFacts DEF Clamped
<1>2. /\ OmegaMin \in OmegaMin .. OmegaMax /\ OmegaMax \in OmegaMin .. OmegaMax
      /\ Errors \cup {0} \subseteq Int
  BY ConstantsFacts
<1>3. Follows(lane, outcome) \/ Throws(lane, outcome) \/ Lost(lane, outcome)
  BY OutcomeKinds
<1>4. CASE Follows(lane, outcome)
  <2>1. outcome.error \in Errors \cup {0}
    BY <1>4 DEF Follows
  <2> QED
    BY <1>1, <1>2, <1>4, <2>1 DEF Follows
<1>5. CASE Throws(lane, outcome) \/ Lost(lane, outcome)
  <2>1. outcome.omega \in {OmegaMin, OmegaMax} /\ outcome.error = 0
    BY <1>5 DEF Throws, Lost
  <2> QED
    BY <1>2, <2>1
<1> QED
  BY <1>3, <1>4, <1>5

LEMMA UpdatedType ==
  ASSUME NEW S, NEW values \in [Lanes -> S], NEW new, \A lane \in DOMAIN new : new[lane] \in S
  PROVE  Updated(values, new) \in [Lanes -> S]
BY DEF Updated

-----------------------------------------------------------------------------
(* The inductive invariant.                                                *)

NumbersOK ==
  /\ time \in [Lanes -> Int] /\ omega \in [Lanes -> OmegaMin .. OmegaMax]
  /\ supplied \in [Lanes -> Nat] /\ input_count \in [Lanes -> Nat]
  /\ stage = "idle" => \A lane \in Lanes : input_count[lane] = 0

(* The seam holds the kept samples and the head of the block.              *)
SeamIsStream ==
  stage # "idle" =>
    \A lane \in Lanes : \A i \in 0 .. HistoryLength + SeamHead(lane) - 1 :
      seam[lane][i] = IF i < HistoryLength THEN history[lane][i] ELSE Input(lane, i - HistoryLength)

BatchInRange ==
  batch # NoBatch =>
    /\ Backend = "avx2_fma" /\ stage # "idle"
    /\ \A lane \in Lanes : BatchRange(lane, time[lane])

IInv == NumbersOK /\ HistoryIsStream /\ SeamIsStream /\ BatchInRange

(* The loops of some lanes stepping leave every number a number.           *)
LEMMA AdvanceFacts ==
  ASSUME NumbersOK, NEW lanes \in SUBSET Lanes, NEW outcome \in Steps(lanes), Advance(outcome)
  PROVE  /\ DOMAIN outcome = lanes
         /\ time' \in [Lanes -> Int] /\ omega' \in [Lanes -> OmegaMin .. OmegaMax]
<1> DEFINE finite == {lane \in DOMAIN outcome : outcome[lane].thrown = "no"}
           moved == [lane \in finite |-> time[lane] + outcome[lane].omega
                                           + Alpha * outcome[lane].error]
           turned == [lane \in DOMAIN outcome |-> outcome[lane].omega]
<1>1. DOMAIN outcome = lanes /\ \A lane \in lanes : outcome[lane] \in Outcomes(lane)
  BY DEF Steps
<1>2. \A lane \in lanes : outcome[lane].omega \in OmegaMin .. OmegaMax /\ outcome[lane].error \in Int
  <2> SUFFICES ASSUME NEW lane \in lanes
               PROVE  outcome[lane].omega \in OmegaMin .. OmegaMax /\ outcome[lane].error \in Int
    OBVIOUS
  <2>1. lane \in Lanes /\ omega[lane] \in Int
    BY ConstantsFacts DEF NumbersOK
  <2> QED
    BY <1>1, <2>1, OutcomeFacts
<1>3. time' = Updated(time, moved) /\ omega' = Updated(omega, turned)
  BY DEF Advance
<1>4. \A lane \in DOMAIN moved : moved[lane] \in Int
  BY <1>1, <1>2, ConstantsFacts DEF NumbersOK
<1>5. \A lane \in DOMAIN turned : turned[lane] \in OmegaMin .. OmegaMax
  BY <1>1, <1>2
<1> HIDE DEF moved, turned
<1>6. time' \in [Lanes -> Int] /\ omega' \in [Lanes -> OmegaMin .. OmegaMax]
  BY <1>3, <1>4, <1>5, UpdatedType DEF NumbersOK
<1> QED
  BY <1>1, <1>6

(* Stepping loops touch neither the history nor the seam.                  *)
LEMMA StepKeeps ==
  ASSUME IInv, NEW lanes \in SUBSET Lanes, NEW outcome \in Steps(lanes), Step(outcome),
         batch = NoBatch
  PROVE  IInv'
<1>1. Advance(outcome) /\ UNCHANGED <<kept, seam, stage, input_count, batch, truncated>>
  BY DEF Step
<1>2. time' \in [Lanes -> Int] /\ omega' \in [Lanes -> OmegaMin .. OmegaMax]
  BY <1>1, AdvanceFacts DEF IInv
<1>3. NumbersOK'
  BY <1>1, <1>2 DEF IInv, NumbersOK, kept
<1>4. HistoryIsStream' /\ SeamIsStream'
  BY <1>1 DEF IInv, HistoryIsStream, SeamIsStream, SeamHead, Input, kept
<1>5. BatchInRange'
  BY <1>1 DEF BatchInRange
<1> QED
  BY <1>3, <1>4, <1>5 DEF IInv

LEMMA LoopStepKeeps ==
  ASSUME IInv, GenericStep \/ MaskedStep
  PROVE  IInv'
<1>1. batch = NoBatch
  BY DEF IInv, BatchInRange, GenericStep, MaskedStep
<1>2. \E lanes \in SUBSET Lanes : \E outcome \in Steps(lanes) : Step(outcome)
  <2>1. Active \subseteq Lanes
    BY DEF Active
  <2>2. CASE GenericStep
    <3>1. PICK lane \in Active : \E outcome \in Steps({lane}) : Step(outcome)
      BY <2>2 DEF GenericStep
    <3>2. {lane} \in SUBSET Lanes
      BY <2>1
    <3> QED
      BY <3>1, <3>2
  <2>3. CASE MaskedStep
    BY <2>1, <2>3 DEF MaskedStep
  <2> QED
    BY <2>2, <2>3
<1> QED
  BY <1>1, <1>2, StepKeeps

(* A batch begins where every lane may load, inside a call.                *)
LEMMA BatchBeginKeeps ==
  ASSUME IInv, BatchBegin
  PROVE  IInv'
<1>1. /\ Backend = "avx2_fma" /\ BatchApplies
      /\ UNCHANGED <<loops, kept, seam, stage, input_count>>
  BY DEF BatchBegin
<1>2. stage # "idle"
  <2>1. PICK lane \in Lanes : TRUE
    BY ConstantsAssumption
  <2>2. Works(lane)
    BY <1>1, <2>1 DEF BatchApplies, Active, InRange
  <2> QED
    BY <2>1, <2>2, ConstantsFacts DEF Works, IInv, NumbersOK
<1>3. \A lane \in Lanes : BatchRange(lane, time[lane])
  BY <1>1 DEF BatchApplies
<1>4. BatchInRange'
  BY <1>1, <1>2, <1>3 DEF BatchInRange, BatchRange, Limit, Length, InSeam, SeamHead, loops
<1>5. NumbersOK'
  BY <1>1 DEF IInv, NumbersOK, loops, kept
<1>6. HistoryIsStream' /\ SeamIsStream'
  BY <1>1 DEF IInv, HistoryIsStream, SeamIsStream, SeamHead, Input, kept
<1> QED
  BY <1>4, <1>5, <1>6 DEF IInv

(* A batch goes on only while every lane stays where it may load.          *)
LEMMA BatchStepKeeps ==
  ASSUME IInv, BatchStep
  PROVE  IInv'
<1>1. PICK outcome \in Steps(Lanes) :
        /\ Advance(outcome)
        /\ \/ batch' = NoBatch
           \/ \A lane \in Lanes : BatchRange(lane, time'[lane])
  BY DEF BatchStep
<1>2. batch # NoBatch /\ UNCHANGED <<kept, seam, stage, input_count>>
  BY DEF BatchStep
<1>3. NumbersOK'
  <2>1. time' \in [Lanes -> Int] /\ omega' \in [Lanes -> OmegaMin .. OmegaMax]
    BY <1>1, AdvanceFacts DEF IInv
  <2> QED
    BY <1>2, <2>1 DEF IInv, NumbersOK, kept
<1>4. HistoryIsStream' /\ SeamIsStream'
  BY <1>2 DEF IInv, HistoryIsStream, SeamIsStream, SeamHead, Input, kept
<1>5. BatchInRange'
  BY <1>1, <1>2 DEF IInv, BatchInRange, BatchRange, Limit, Length, InSeam, SeamHead
<1> QED
  BY <1>3, <1>4, <1>5 DEF IInv

-----------------------------------------------------------------------------
(* Calls.                                                                  *)

LEMMA ForwardFacts ==
  ASSUME NumbersOK, NEW ticks \in Int, Forward(ticks)
  PROVE  time' \in [Lanes -> Int]
BY DEF NumbersOK, Forward

LEMMA ExecuteKeeps ==
  ASSUME IInv, NEW counts \in [Lanes -> Counts], NEW capacities, Execute(counts, capacities)
  PROVE  IInv'
<1>1. /\ stage = "idle" /\ stage' = "seam" /\ input_count' = counts
      /\ Forward(HistoryLength * Ticks) /\ UNCHANGED <<omega, kept, batch>>
  BY DEF Execute
<1>2. batch = NoBatch
  BY <1>1 DEF IInv, BatchInRange
<1>3. NumbersOK'
  <2>1. HistoryLength * Ticks \in Int /\ Counts \subseteq Nat
    BY ConstantsFacts
  <2>2. time' \in [Lanes -> Int]
    BY <1>1, <2>1, ForwardFacts DEF IInv
  <2> QED
    BY <1>1, <2>1, <2>2 DEF IInv, NumbersOK, kept
<1>4. HistoryIsStream'
  BY <1>1 DEF IInv, HistoryIsStream, kept
<1>5. SeamIsStream'
  BY <1>1 DEF Execute, SeamIsStream, SeamHead, Input, kept
<1> QED
  BY <1>1, <1>2, <1>3, <1>4, <1>5 DEF IInv, BatchInRange

LEMMA SeamDoneKeeps ==
  ASSUME IInv, SeamDone
  PROVE  IInv'
<1>1. /\ stage = "seam" /\ stage' = "block" /\ batch = NoBatch
      /\ Forward(-(HistoryLength * Ticks)) /\ UNCHANGED <<omega, kept, seam, input_count, batch>>
  BY DEF SeamDone, PassDone
<1>2. NumbersOK'
  <2>1. -(HistoryLength * Ticks) \in Int
    BY ConstantsFacts
  <2>2. time' \in [Lanes -> Int]
    BY <1>1, <2>1, ForwardFacts DEF IInv
  <2> QED
    BY <1>1, <2>2 DEF IInv, NumbersOK, kept
<1>3. HistoryIsStream' /\ SeamIsStream'
  BY <1>1 DEF IInv, HistoryIsStream, SeamIsStream, SeamHead, Input, kept
<1> QED
  BY <1>1, <1>2, <1>3 DEF IInv, BatchInRange

(* What a lane keeps at the end of a call is the end of its seam, or of a  *)
(* block at least as long as the history.                                  *)
LEMMA KeptTailFacts ==
  ASSUME IInv, stage # "idle", NEW lane \in Lanes, NEW i \in 0 .. HistoryLength - 1
  PROVE  KeptTail(lane)[i] =
           LET n == supplied[lane] + input_count[lane] - HistoryLength + i
           IN  IF n < 0 THEN Silence ELSE n
<1>1. HistoryLength \in Nat /\ supplied[lane] \in Nat /\ input_count[lane] \in Nat
  BY ConstantsFacts DEF IInv, NumbersOK
<1>2. CASE input_count[lane] >= HistoryLength
  BY <1>1, <1>2 DEF KeptTail, Input
<1>3. CASE input_count[lane] < HistoryLength
  <2>1. SeamHead(lane) = input_count[lane]
    BY <1>1, <1>3, SmallerFacts DEF SeamHead
  <2> DEFINE j == input_count[lane] + i
  <2>2. KeptTail(lane)[i] = seam[lane][j]
    BY <1>1, <1>3 DEF KeptTail
  <2>3. j \in 0 .. HistoryLength + SeamHead(lane) - 1
    BY <1>1, <2>1
  <2>4. seam[lane][j] = IF j < HistoryLength THEN history[lane][j]
                        ELSE Input(lane, j - HistoryLength)
    BY <2>3 DEF IInv, SeamIsStream
  <2>5. CASE j < HistoryLength
    <3>1. j \in 0 .. HistoryLength - 1
      BY <1>1, <2>5
    <3>2. history[lane][j] = LET n == supplied[lane] - HistoryLength + j
                             IN  IF n < 0 THEN Silence ELSE n
      BY <3>1 DEF IInv, HistoryIsStream
    <3>3. supplied[lane] - HistoryLength + j
            = supplied[lane] + input_count[lane] - HistoryLength + i
      BY <1>1
    <3> QED
      BY <2>2, <2>4, <2>5, <3>2, <3>3
  <2>6. CASE ~(j < HistoryLength)
    BY <1>1, <2>2, <2>4, <2>6 DEF Input
  <2> QED
    BY <2>5, <2>6
<1> QED
  BY <1>1, <1>2, <1>3

LEMMA ReturnKeeps ==
  ASSUME IInv, Return
  PROVE  IInv'
<1>1. /\ stage = "block" /\ stage' = "idle" /\ batch = NoBatch /\ batch' = batch
      /\ history' = [lane \in Lanes |-> KeptTail(lane)]
      /\ supplied' = [lane \in Lanes |-> supplied[lane] + input_count[lane]]
      /\ input_count' = [lane \in Lanes |-> 0]
      /\ time' = [lane \in Lanes |-> Rebased(lane)]
      /\ omega' = [lane \in Lanes |-> IF poison[lane] = "no" THEN omega[lane] ELSE Omega]
  BY DEF Return, PassDone
<1>2. NumbersOK'
  <2>1. \A lane \in Lanes : Rebased(lane) \in Int
    <3> SUFFICES ASSUME NEW lane \in Lanes
                 PROVE  Rebased(lane) \in Int
      OBVIOUS
    <3> DEFINE moved == time[lane] - input_count[lane] * Ticks
               earliest == EarliestTime * Ticks
    <3>1. moved \in Int /\ earliest \in Int
      BY ConstantsFacts DEF IInv, NumbersOK
    <3>2. Rebased(lane) = IF poison[lane] # "no" THEN earliest ELSE Max({moved, earliest})
      BY DEF Rebased
    <3> HIDE DEF moved, earliest
    <3> QED
      BY <3>1, <3>2, LargerFacts
  <2>2. omega' \in [Lanes -> OmegaMin .. OmegaMax]
    BY <1>1, ConstantsFacts DEF IInv, NumbersOK
  <2> QED
    BY <1>1, <2>1, <2>2 DEF IInv, NumbersOK
<1>3. HistoryIsStream'
  <2> SUFFICES ASSUME NEW lane \in Lanes, NEW i \in 0 .. HistoryLength - 1
               PROVE  history'[lane][i] = LET n == supplied'[lane] - HistoryLength + i
                                          IN  IF n < 0 THEN Silence ELSE n
    BY DEF HistoryIsStream
  <2>1. KeptTail(lane)[i] = LET n == supplied[lane] + input_count[lane] - HistoryLength + i
                            IN  IF n < 0 THEN Silence ELSE n
    BY <1>1, KeptTailFacts
  <2>2. supplied'[lane] = supplied[lane] + input_count[lane] /\ history'[lane] = KeptTail(lane)
    BY <1>1
  <2>3. supplied[lane] \in Nat /\ input_count[lane] \in Nat /\ HistoryLength \in Nat
    BY ConstantsFacts DEF IInv, NumbersOK
  <2>4. supplied'[lane] - HistoryLength + i
          = supplied[lane] + input_count[lane] - HistoryLength + i
    BY <2>2, <2>3
  <2> QED
    BY <2>1, <2>2, <2>4
<1> QED
  BY <1>1, <1>2, <1>3 DEF IInv, SeamIsStream, BatchInRange

(* Skipped samples become history as if they had been processed.           *)
LEMMA SkippedHistoryFacts ==
  ASSUME IInv, NEW lane \in Lanes, NEW count \in Nat, NEW i \in 0 .. HistoryLength - 1
  PROVE  SkippedHistory(lane, count)[i] =
           LET n == supplied[lane] + count - HistoryLength + i
           IN  IF n < 0 THEN Silence ELSE n
<1>1. HistoryLength \in Nat /\ supplied[lane] \in Nat
  BY ConstantsFacts DEF IInv, NumbersOK
<1>2. CASE i < HistoryLength - count
  <2> DEFINE j == count + i
  <2>1. j \in 0 .. HistoryLength - 1 /\ SkippedHistory(lane, count)[i] = history[lane][j]
    BY <1>1, <1>2 DEF SkippedHistory
  <2>2. history[lane][j] = LET n == supplied[lane] - HistoryLength + j
                           IN  IF n < 0 THEN Silence ELSE n
    BY <2>1 DEF IInv, HistoryIsStream
  <2>3. supplied[lane] - HistoryLength + j = supplied[lane] + count - HistoryLength + i
    BY <1>1
  <2> QED
    BY <2>1, <2>2, <2>3
<1>3. CASE ~(i < HistoryLength - count)
  BY <1>1, <1>3 DEF SkippedHistory, Input
<1> QED
  BY <1>2, <1>3

LEMMA SkipKeeps ==
  ASSUME IInv, NEW counts \in [Lanes -> Counts], Skip(counts)
  PROVE  IInv'
<1> DEFINE coasted(lane) == time[lane] + Coasted(lane, counts[lane]) * omega[lane]
           skipped(lane) == coasted(lane) - counts[lane] * Ticks
           earliest == EarliestTime * Ticks
<1>1. /\ stage = "idle" /\ UNCHANGED <<omega, call>>
      /\ history' = [lane \in Lanes |-> SkippedHistory(lane, counts[lane])]
      /\ supplied' = [lane \in Lanes |-> supplied[lane] + counts[lane]]
      /\ time' = [lane \in Lanes |-> Max({skipped(lane), earliest})]
  BY DEF Skip
<1>2. batch = NoBatch
  BY <1>1 DEF IInv, BatchInRange
<1>3. \A lane \in Lanes : counts[lane] \in Nat
  BY ConstantsFacts
<1>4. NumbersOK'
  <2>1. \A lane \in Lanes : Max({skipped(lane), earliest}) \in Int
    <3> SUFFICES ASSUME NEW lane \in Lanes
                 PROVE  Max({skipped(lane), earliest}) \in Int
      OBVIOUS
    <3>1. /\ time[lane] \in Int /\ omega[lane] \in Nat \ {0} /\ counts[lane] * Ticks \in Int
          /\ earliest \in Int
      BY <1>3, ConstantsFacts DEF IInv, NumbersOK
    <3>2. Coasted(lane, counts[lane]) \in Int
      <4>1. counts[lane] * Ticks - time[lane] + omega[lane] - 1 \in Int
        BY <3>1
      <4> QED
        BY <3>1, <4>1 DEF Coasted
    <3>3. skipped(lane) \in Int
      BY <3>1, <3>2
    <3> HIDE DEF skipped, earliest
    <3> QED
      BY <3>1, <3>3, LargerFacts
  <2> HIDE DEF skipped, earliest
  <2> QED
    BY <1>1, <1>3, <2>1 DEF IInv, NumbersOK, call
<1>5. HistoryIsStream'
  <2> SUFFICES ASSUME NEW lane \in Lanes, NEW i \in 0 .. HistoryLength - 1
               PROVE  history'[lane][i] = LET n == supplied'[lane] - HistoryLength + i
                                          IN  IF n < 0 THEN Silence ELSE n
    BY DEF HistoryIsStream
  <2>1. SkippedHistory(lane, counts[lane])[i] =
          LET n == supplied[lane] + counts[lane] - HistoryLength + i
          IN  IF n < 0 THEN Silence ELSE n
    BY <1>3, SkippedHistoryFacts
  <2>2. /\ supplied'[lane] = supplied[lane] + counts[lane]
        /\ history'[lane] = SkippedHistory(lane, counts[lane])
    BY <1>1
  <2>3. supplied[lane] \in Nat /\ counts[lane] \in Nat /\ HistoryLength \in Nat
    BY <1>3, ConstantsFacts DEF IInv, NumbersOK
  <2>4. supplied'[lane] - HistoryLength + i
          = supplied[lane] + counts[lane] - HistoryLength + i
    BY <2>2, <2>3
  <2> QED
    BY <2>1, <2>2, <2>4
<1> QED
  BY <1>1, <1>2, <1>4, <1>5 DEF IInv, SeamIsStream, BatchInRange, call

(* A fresh or reset synchronizer remembers silence.                        *)
LEMMA InitialHistory ==
  ASSUME NEW lane \in Lanes, NEW i \in 0 .. HistoryLength - 1
  PROVE  Initially(lane).history[i] = LET n == 0 - HistoryLength + i
                                      IN  IF n < 0 THEN Silence ELSE n
BY ConstantsFacts DEF Initially

LEMMA ResetKeeps ==
  ASSUME IInv, Reset
  PROVE  IInv'
<1>1. /\ stage = "idle" /\ UNCHANGED <<seam, stage, input_count, batch>>
      /\ time' = [lane \in Lanes |-> Initially(lane).time]
      /\ omega' = [lane \in Lanes |-> Initially(lane).omega]
      /\ history' = [lane \in Lanes |-> Initially(lane).history]
      /\ supplied' = [lane \in Lanes |-> 0]
  BY DEF Reset
<1>2. batch = NoBatch
  BY <1>1 DEF IInv, BatchInRange
<1>3. NumbersOK'
  BY <1>1, ConstantsFacts DEF IInv, NumbersOK, Initially
<1>4. HistoryIsStream'
  BY <1>1, InitialHistory DEF HistoryIsStream
<1> QED
  BY <1>1, <1>2, <1>3, <1>4 DEF IInv, SeamIsStream, BatchInRange

-----------------------------------------------------------------------------
LEMMA InitiallyIInv == Init => IInv
<1> SUFFICES ASSUME Init
             PROVE  IInv
  OBVIOUS
<1>1. NumbersOK
  BY ConstantsFacts DEF Init, NumbersOK, Initially
<1>2. HistoryIsStream
  BY InitialHistory DEF Init, HistoryIsStream
<1>3. SeamIsStream /\ BatchInRange
  BY DEF Init, SeamIsStream, BatchInRange
<1> QED
  BY <1>1, <1>2, <1>3 DEF IInv

LEMMA NextKeeps == IInv /\ [Next]_vars => IInv'
<1> SUFFICES ASSUME IInv, [Next]_vars
             PROVE  IInv'
  OBVIOUS
<1>1. CASE GenericStep \/ MaskedStep
  BY <1>1, LoopStepKeeps
<1>2. CASE BatchBegin
  BY <1>2, BatchBeginKeeps
<1>3. CASE BatchStep
  BY <1>3, BatchStepKeeps
<1>4. CASE SeamDone
  BY <1>4, SeamDoneKeeps
<1>5. CASE Return
  BY <1>5, ReturnKeeps
<1>6. CASE Reset
  BY <1>6, ResetKeeps
<1>7. CASE \E counts \in [Lanes -> Counts], capacities \in [Lanes -> Capacities] :
             Execute(counts, capacities)
  BY <1>7, ExecuteKeeps
<1>8. CASE \E counts \in [Lanes -> Counts] : Skip(counts)
  BY <1>8, SkipKeeps
<1>9. CASE UNCHANGED vars
  BY <1>9 DEF IInv, NumbersOK, HistoryIsStream, SeamIsStream, BatchInRange, BatchRange, Limit,
              Length, InSeam, SeamHead, Input, vars, loops, kept, call
<1> QED
  BY <1>1, <1>2, <1>3, <1>4, <1>5, <1>6, <1>7, <1>8, <1>9 DEF Next

LEMMA Inductive == Spec => []IInv
<1> QED
  BY InitiallyIInv, NextKeeps, PTL DEF Spec

(* The kept samples are the newest of the stream: what PublishHistory and  *)
(* SymbolSync4Skip keep does not depend on how the stream is cut.          *)
THEOREM HistoryCorrect == Spec => []HistoryIsStream
<1>1. IInv => HistoryIsStream
  BY DEF IInv
<1> QED
  BY Inductive, <1>1, PTL

-----------------------------------------------------------------------------
(* Stencils.                                                               *)

LEMMA Scaled ==
  ASSUME NEW d \in Nat, NEW a \in Int, NEW b \in Int, a <= b
  PROVE  a * d <= b * d
OBVIOUS

LEMMA IndexFacts ==
  ASSUME NEW halves \in Int, NEW length \in Int,
         halves >= 2 * Ticks, halves < (length - 2) * (2 * Ticks)
  PROVE  Index(halves) >= 1 /\ Index(halves) + 2 < length
<1> DEFINE d == 2 * Ticks
           q == halves \div d
<1>1. d \in Nat /\ d > 0
  BY ConstantsFacts
<1> HIDE DEF d
<1>2. q \in Int /\ q * d <= halves /\ halves < (q + 1) * d
  BY <1>1
<1> HIDE DEF q
<1>3. q >= 1
  <2> SUFFICES ASSUME q + 1 <= 1
               PROVE  FALSE
    BY <1>2
  <2>1. (q + 1) * d <= 1 * d
    BY <1>1, <1>2, Scaled
  <2> QED
    BY <1>1, <1>2, <2>1 DEF d
<1>4. q < length - 2
  <2> SUFFICES ASSUME length - 2 <= q
               PROVE  FALSE
    BY <1>2
  <2>1. (length - 2) * d <= q * d
    BY <1>1, <1>2, Scaled
  <2>2. (length - 2) * d \in Int /\ q * d \in Int
    BY <1>1, <1>2
  <2> QED
    BY <1>2, <2>1, <2>2 DEF d
<1> QED
  BY <1>2, <1>3, <1>4 DEF Index, q, d

(* SymbolSync4_avx2 loads without clamping only inside the data: the       *)
(* margins of its range cover the symbol it loads ahead.                   *)
LEMMA BatchReads ==
  ASSUME IInv, batch # NoBatch, NEW lane \in Lanes
  PROVE  /\ StencilInside(lane, Index(2 * time[lane]))
         /\ StencilInside(lane, Index(2 * (time[lane] + omega[lane])))
         /\ StencilInside(lane, Index(2 * time[lane] - omega[lane]))
         /\ StencilInside(lane, Index(2 * time[lane] + omega[lane]))
<1> DEFINE t == time[lane]
           o == omega[lane]
           length == Length(lane)
<1>1. /\ t \in Int /\ o \in Int /\ OmegaMin <= o /\ o <= OmegaMax /\ length \in Int
      /\ Ticks \in Nat /\ Ticks > 0 /\ OmegaMin \in Nat /\ OmegaMax \in Int
  <2>1. HistoryLength \in Nat /\ input_count[lane] \in Nat
    BY ConstantsFacts DEF IInv, NumbersOK
  <2>2. SeamHead(lane) \in Int
    BY <2>1, SmallerFacts DEF SeamHead
  <2>3. length \in Int
    BY <2>1, <2>2 DEF Length
  <2> QED
    BY <2>3, ConstantsFacts DEF IInv, NumbersOK
<1>2. 2 * t >= OmegaMax + 4 * Ticks /\ t < (length - 2) * Ticks - OmegaMax - 2 * Ticks
  BY DEF IInv, BatchInRange, BatchRange, Limit
<1> HIDE DEF t, o, length
<1>3. ASSUME NEW halves \in {2 * t, 2 * (t + o), 2 * t - o, 2 * t + o}
      PROVE  Index(halves) >= 1 /\ Index(halves) + 2 < length
  <2>1. (length - 2) * Ticks \in Int /\ (length - 2) * (2 * Ticks) = 2 * ((length - 2) * Ticks)
    BY <1>1
  <2>2. halves \in Int /\ halves >= 2 * Ticks /\ halves < 2 * ((length - 2) * Ticks)
    BY <1>1, <1>2, <2>1
  <2> QED
    BY <1>1, <2>1, <2>2, IndexFacts
<1> QED
  BY <1>3 DEF StencilInside, t, o, length

-----------------------------------------------------------------------------
(* Induction and recursion.                                                *)

(* A set that holds 0 and every successor holds all numbers.               *)
LEMMA Induction ==
  ASSUME NEW S, 0 \in S, \A n \in Nat : n \in S => n + 1 \in S
  PROVE  \A n \in Nat : n \in S
<1> DEFINE T == {n \in Nat : n \notin S}
<1>1. SUFFICES ASSUME T # {} PROVE FALSE
  OBVIOUS
<1> HIDE DEF T
<1>2. T \subseteq Nat
  BY DEF T
<1>3. PICK x \in T : \A y \in T : ~ (<<y, x>> \in OpToRel(<,Nat))
  BY <1>1, <1>2, WFMin, NatLessThanWellFounded
<1>4. x \in Nat /\ x # 0
  BY <1>3 DEF T
<1>5. x - 1 \in Nat /\ (x - 1) + 1 = x
  BY <1>4
<1>6. x - 1 \notin S
  <2>1. x \notin S
    BY <1>3 DEF T
  <2>2. x - 1 \in S => (x - 1) + 1 \in S
    BY <1>5
  <2>3. QED
    BY <2>1, <2>2, <1>5
<1>7. x - 1 \in T
  BY <1>5, <1>6 DEF T
<1>8. <<x - 1, x>> \in OpToRel(<, Nat)
  BY <1>4, <1>5 DEF OpToRel
<1>9. QED
  BY <1>3, <1>7, <1>8

(* Values that follow from each other, starting from the first, exist.     *)
Follow(Values, first, N, next, f) ==
  /\ f \in [0 .. N -> Values]
  /\ f[0] = first /\ \A i \in 1 .. N : f[i] = next[i][f[i - 1]]

LEMMA Recursion ==
  ASSUME NEW Values, NEW first \in Values, NEW N \in Nat,
         NEW next \in [1 .. N -> [Values -> Values]]
  PROVE  \E f : Follow(Values, first, N, next, f)
<1> DEFINE Upto(n, f) == /\ f \in [0 .. n -> Values] /\ f[0] = first
                         /\ \A i \in 1 .. n : f[i] = next[i][f[i - 1]]
           S == {n \in Nat : n <= N => \E f : Upto(n, f)}
<1>1. 0 \in S
  <2> DEFINE f == [i \in 0 .. 0 |-> first]
  <2>1. f \in [0 .. 0 -> Values] /\ f[0] = first
    OBVIOUS
  <2> HIDE DEF f
  <2>2. Upto(0, f)
    BY <2>1
  <2> QED
    BY <2>2
<1>2. ASSUME NEW n \in Nat, n \in S
      PROVE  n + 1 \in S
  <2>1. SUFFICES ASSUME n + 1 <= N
                 PROVE  \E f : Upto(n + 1, f)
    OBVIOUS
  <2>2. PICK f : Upto(n, f)
    BY <1>2, <2>1
  <2> DEFINE g == [i \in 0 .. n + 1 |-> IF i <= n THEN f[i] ELSE next[n + 1][f[n]]]
  <2>3. next[n + 1][f[n]] \in Values
    BY <2>1, <2>2
  <2>4. g \in [0 .. n + 1 -> Values]
    BY <2>2, <2>3
  <2>5. g[0] = first
    BY <2>2
  <2>6. ASSUME NEW i \in 1 .. n + 1
        PROVE  g[i] = next[i][g[i - 1]]
    <3>1. g[i - 1] = f[i - 1]
      OBVIOUS
    <3>2. CASE i <= n
      BY <3>1, <3>2, <2>2
    <3>3. CASE i = n + 1
      BY <3>1, <3>3, <2>2
    <3> QED
      BY <3>2, <3>3
  <2> HIDE DEF g
  <2>7. Upto(n + 1, g)
    BY <2>4, <2>5, <2>6
  <2> QED
    BY <2>7
<1>3. N \in S
  <2> HIDE DEF S
  <2> QED
    BY <1>1, <1>2, Induction
<1> QED
  BY <1>3 DEF Follow

(* Two functions that start alike and go on alike are alike.               *)
GoOnAlike(N, f, g) ==
  f[0] = g[0] /\ \A i \in 1 .. N : f[i - 1] = g[i - 1] => f[i] = g[i]

LEMMA SameRecursion ==
  ASSUME NEW N \in Nat, NEW f, NEW g, GoOnAlike(N, f, g)
  PROVE  \A i \in 0 .. N : f[i] = g[i]
<1> DEFINE S == {n \in Nat : n <= N => f[n] = g[n]}
<1>1. 0 \in S
  BY DEF GoOnAlike
<1>2. ASSUME NEW n \in Nat, n \in S
      PROVE  n + 1 \in S
  <2>1. SUFFICES ASSUME n + 1 <= N
                 PROVE  f[n + 1] = g[n + 1]
    OBVIOUS
  <2>2. f[n] = g[n]
    BY <1>2, <2>1
  <2>3. n + 1 \in 1 .. N /\ (n + 1) - 1 = n
    BY <2>1
  <2> QED
    BY <2>2, <2>3 DEF GoOnAlike
<1>3. \A n \in Nat : n \in S
  <2> HIDE DEF S
  <2> QED
    BY <1>1, <1>2, Induction
<1> QED
  BY <1>3

-----------------------------------------------------------------------------
(* Finite sets of numbers.                                                 *)

(* Finitely many numbers have a largest one.                               *)
LEMMA MaxFacts ==
  ASSUME NEW Values, Values \subseteq Int, Values # {}, IsFiniteSet(Values)
  PROVE  Max(Values) \in Values /\ \A value \in Values : value <= Max(Values)
<1>1. PICK n \in Nat : ExistsBijection(1 .. n, Values)
  BY FS_NatBijection
<1>2. PICK f \in [1 .. n -> Values] : \A value \in Values : \E i \in 1 .. n : f[i] = value
  BY <1>1 DEF ExistsBijection, Bijection, Surjection
<1>3. n # 0
  <2>1. PICK value : value \in Values
    OBVIOUS
  <2>2. PICK i \in 1 .. n : f[i] = value
    BY <1>2, <2>1
  <2> QED
    BY <2>2
<1> DEFINE S == {k \in Nat : k + 1 <= n =>
                    \E top \in 1 .. k + 1 : \A i \in 1 .. k + 1 : f[i] <= f[top]}
<1>4. 0 \in S
  <2>1. ASSUME 0 + 1 <= n
        PROVE  \E top \in 1 .. 0 + 1 : \A i \in 1 .. 0 + 1 : f[i] <= f[top]
    <3>1. 1 \in 1 .. n /\ 0 + 1 = 1
      BY <2>1
    <3>2. f[1] \in Int
      BY <3>1
    <3>3. \A i \in 1 .. 0 + 1 : i = 1
      OBVIOUS
    <3>4. \A i \in 1 .. 0 + 1 : f[i] <= f[1]
      BY <3>2, <3>3
    <3> QED
      BY <3>1, <3>4
  <2> QED
    BY <2>1
<1>5. ASSUME NEW k \in Nat, k \in S
      PROVE  k + 1 \in S
  <2>1. SUFFICES ASSUME (k + 1) + 1 <= n
                 PROVE  \E top \in 1 .. (k + 1) + 1 : \A i \in 1 .. (k + 1) + 1 : f[i] <= f[top]
    OBVIOUS
  <2>2. PICK top \in 1 .. k + 1 : \A i \in 1 .. k + 1 : f[i] <= f[top]
    BY <1>5, <2>1
  <2>3. /\ \A i \in 1 .. (k + 1) + 1 : i \in 1 .. k + 1 \/ i = (k + 1) + 1
        /\ (k + 1) + 1 \in 1 .. (k + 1) + 1 /\ top \in 1 .. (k + 1) + 1
    OBVIOUS
  <2>6. ASSUME NEW i \in 1 .. (k + 1) + 1
        PROVE  f[i] \in Int
    <3>1. i \in 1 .. n
      BY <2>1
    <3>2. f[i] \in Values
      BY <3>1
    <3> QED
      BY <3>2
  <2>4. CASE f[(k + 1) + 1] <= f[top]
    BY <2>2, <2>3, <2>4, <2>6
  <2>5. CASE ~(f[(k + 1) + 1] <= f[top])
    <3>1. \A i \in 1 .. (k + 1) + 1 : f[i] <= f[(k + 1) + 1]
      BY <2>2, <2>3, <2>5, <2>6
    <3> QED
      BY <2>3, <3>1
  <2> QED
    BY <2>4, <2>5
<1>6. n - 1 \in S
  <2> HIDE DEF S
  <2>1. \A k \in Nat : k \in S
    BY <1>4, <1>5, Induction
  <2> QED
    BY <1>3, <2>1
<1>7. PICK top \in 1 .. n : \A i \in 1 .. n : f[i] <= f[top]
  <2>1. n - 1 \in Nat /\ (n - 1) + 1 = n
    BY <1>3
  <2> QED
    BY <1>6, <2>1
<1>8. f[top] \in Values /\ \A value \in Values : value <= f[top]
  BY <1>2, <1>7
<1>9. \E largest \in Values : \A value \in Values : value <= largest
  BY <1>8
<1>10. \E largest \in Values : \A value \in Values : largest >= value
  BY <1>9
<1> QED
  BY <1>10 DEF Max

LEMMA MinFacts ==
  ASSUME NEW Values, Values \subseteq Int, Values # {}, IsFiniteSet(Values)
  PROVE  Min(Values) \in Values /\ \A value \in Values : Min(Values) <= value
<1> DEFINE Negated == {-value : value \in Values}
           f == [value \in Values |-> -value]
<1>1. Negated \subseteq Int /\ Negated # {}
  <2>1. \A value \in Values : -value \in Int
    OBVIOUS
  <2>2. PICK value : value \in Values
    OBVIOUS
  <2>3. -value \in Negated
    BY <2>2
  <2> QED
    BY <2>1, <2>3
<1>2. IsFiniteSet(Negated)
  <2>1. f \in Surjection(Values, Negated)
    BY DEF Surjection
  <2> QED
    BY <2>1, FS_Surjection
<1> HIDE DEF Negated
<1>3. PICK largest \in Negated : \A value \in Negated : value <= largest
  BY <1>1, <1>2, MaxFacts
<1>4. PICK least \in Values : largest = -least
  BY DEF Negated
<1>5. ASSUME NEW value \in Values PROVE least <= value
  <2>1. -value \in Negated
    BY DEF Negated
  <2>2. -value <= largest
    BY <1>3, <2>1
  <2> QED
    BY <1>4, <2>2
<1>6. \E least_of \in Values : \A value \in Values : least_of <= value
  BY <1>5
<1> QED
  BY <1>6 DEF Min

-----------------------------------------------------------------------------
(* Lock tracking.                                                          *)

LEMMA RunFacts ==
  ASSUME NEW lock \in Locks, NEW run \in Nat
  PROVE  /\ Run(lock) \in Nat /\ WithRun(lock, run) \in Locks
         /\ Run(WithRun(lock, run)) = run
         /\ WithRun(lock, run).mueller_muller = lock.mueller_muller
BY DEF Locks, Run, WithRun

(* What one symbol of a batch adds to its replayed lock tracking.          *)
OneMore(lock, count, said, was) ==
  IF Counting(lock, count) THEN WithRun(lock, IF said THEN Run(was) + 1 ELSE 0) ELSE was

Replays(lock, count, log, replay) ==
  /\ replay \in [0 .. Len(log) -> Locks] /\ replay[0] = lock
  /\ \A n \in 1 .. Len(log) : replay[n] = OneMore(lock, count + n - 1, log[n], replay[n - 1])

LEMMA OneMoreFacts ==
  ASSUME NEW lock \in Locks, NEW count, NEW said \in BOOLEAN, NEW was \in Locks,
         was.mueller_muller = lock.mueller_muller
  PROVE  /\ OneMore(lock, count, said, was) \in Locks
         /\ OneMore(lock, count, said, was).mueller_muller = lock.mueller_muller
         /\ Run(OneMore(lock, count, said, was)) <= Run(was) + 1
<1>1. Run(was) \in Nat
  BY RunFacts
<1>2. (IF said THEN Run(was) + 1 ELSE 0) \in Nat /\ (IF said THEN Run(was) + 1 ELSE 0) <= Run(was) + 1
  BY <1>1
<1>3. CASE Counting(lock, count)
  BY <1>2, <1>3, RunFacts DEF OneMore
<1>4. CASE ~Counting(lock, count)
  BY <1>1, <1>4 DEF OneMore
<1> QED
  BY <1>3, <1>4

LEMMA ReplayedFacts ==
  ASSUME NEW lock \in Locks, NEW count \in Nat, NEW log \in Seq(BOOLEAN)
  PROVE  \E replay : /\ Replays(lock, count, log, replay)
                     /\ Replayed(lock, count, log) = replay[Len(log)]
<1> DEFINE N == Len(log)
           Is(f) == f = [n \in 0 .. N |->
                      IF n = 0 THEN lock
                      ELSE IF Counting(lock, count + n - 1)
                      THEN WithRun(lock, IF log[n] THEN Run(f[n - 1]) + 1 ELSE 0)
                      ELSE f[n - 1]]
           next == [n \in 1 .. N |-> [was \in Locks |-> OneMore(lock, count + n - 1, log[n], was)]]
           replay == CHOOSE f : Is(f)
<1>1. N \in Nat /\ \A n \in 1 .. N : log[n] \in BOOLEAN
  OBVIOUS
<1>2. next \in [1 .. N -> [Locks -> Locks]]
  <2> SUFFICES ASSUME NEW n \in 1 .. N, NEW was \in Locks
               PROVE  OneMore(lock, count + n - 1, log[n], was) \in Locks
    OBVIOUS
  <2>1. (IF log[n] THEN Run(was) + 1 ELSE 0) \in Nat
    <3>1. Run(was) \in Nat
      BY RunFacts
    <3> QED
      BY <3>1
  <2> QED
    BY <2>1, RunFacts DEF OneMore
<1>3. PICK f : Follow(Locks, lock, N, next, f)
  <2> HIDE DEF next, N
  <2> QED
    BY <1>1, <1>2, Recursion
<1>4. Is(f)
  <2> DEFINE g == [n \in 0 .. N |->
                      IF n = 0 THEN lock
                      ELSE IF Counting(lock, count + n - 1)
                      THEN WithRun(lock, IF log[n] THEN Run(f[n - 1]) + 1 ELSE 0)
                      ELSE f[n - 1]]
  <2>1. f \in [0 .. N -> Locks]
    BY <1>3 DEF Follow
  <2>2. ASSUME NEW n \in 0 .. N PROVE f[n] = g[n]
    <3>1. CASE n = 0
      BY <1>3, <3>1 DEF Follow
    <3>2. CASE n # 0
      <4>1. n \in 1 .. N /\ n - 1 \in 0 .. N
        BY <1>1, <3>2
      <4>2. f[n] = next[n][f[n - 1]] /\ f[n - 1] \in Locks
        BY <1>3, <2>1, <4>1 DEF Follow
      <4>3. f[n] = OneMore(lock, count + n - 1, log[n], f[n - 1])
        BY <4>1, <4>2
      <4> QED
        BY <3>2, <4>3 DEF OneMore
    <3> QED
      BY <3>1, <3>2
  <2> QED
    BY <2>1, <2>2
<1>5. Is(replay)
  <2> HIDE DEF Is
  <2> QED
    BY <1>4
<1>6. Replayed(lock, count, log) = replay[N]
  BY DEF Replayed
<1> HIDE DEF replay
<1>7. replay[0] = lock
  BY <1>1, <1>5
<1>8. ASSUME NEW n \in 1 .. N
      PROVE  replay[n] = OneMore(lock, count + n - 1, log[n], replay[n - 1])
  <2>1. n \in 0 .. N /\ n # 0
    BY <1>1
  <2> HIDE DEF N
  <2>2. replay[n] = IF n = 0 THEN lock
                    ELSE IF Counting(lock, count + n - 1)
                    THEN WithRun(lock, IF log[n] THEN Run(replay[n - 1]) + 1 ELSE 0)
                    ELSE replay[n - 1]
    BY <1>5, <2>1
  <2> QED
    BY <2>1, <2>2 DEF OneMore
<1>9. \A n \in 0 .. N : replay[n] = f[n]
  <2>1. GoOnAlike(N, replay, f)
    <3>1. replay[0] = f[0]
      BY <1>3, <1>7 DEF Follow
    <3>2. ASSUME NEW n \in 1 .. N, replay[n - 1] = f[n - 1]
          PROVE  replay[n] = f[n]
      <4>1. n - 1 \in 0 .. N
        BY <1>1
      <4>2. f[n - 1] \in Locks /\ f[n] = next[n][f[n - 1]]
        BY <1>3, <4>1 DEF Follow
      <4>3. next[n][f[n - 1]] = OneMore(lock, count + n - 1, log[n], f[n - 1])
        BY <4>2
      <4> HIDE DEF next
      <4> QED
        BY <1>8, <3>2, <4>2, <4>3
    <3> QED
      BY <3>1, <3>2 DEF GoOnAlike
  <2> HIDE DEF N, next
  <2> QED
    BY <1>1, <2>1, SameRecursion
<1>10. replay \in [0 .. N -> Locks]
  <2>1. DOMAIN replay = 0 .. N /\ replay = [n \in 0 .. N |-> replay[n]]
    BY <1>5
  <2>2. \A n \in 0 .. N : replay[n] \in Locks
    BY <1>3, <1>9 DEF Follow
  <2> QED
    BY <2>1, <2>2
<1> QED
  BY <1>6, <1>7, <1>8, <1>10 DEF Replays

LEMMA ReplayedEmpty ==
  ASSUME NEW lock \in Locks, NEW count \in Nat
  PROVE  Replayed(lock, count, << >>) = lock
<1>1. << >> \in Seq(BOOLEAN) /\ Len(<< >>) = 0
  OBVIOUS
<1>2. PICK replay : /\ Replays(lock, count, << >>, replay)
                    /\ Replayed(lock, count, << >>) = replay[Len(<< >>)]
  BY <1>1, ReplayedFacts
<1> QED
  BY <1>1, <1>2 DEF Replays

(* A batch lengthens a run by at most its symbols, whatever they say.      *)
LEMMA ReplayedBounds ==
  ASSUME NEW lock \in Locks, NEW count \in Nat, NEW log \in Seq(BOOLEAN)
  PROVE  LET after == Replayed(lock, count, log)
         IN  /\ after \in Locks /\ after.mueller_muller = lock.mueller_muller
             /\ Run(after) <= Run(lock) + Len(log)
<1>1. PICK replay : /\ Replays(lock, count, log, replay)
                    /\ Replayed(lock, count, log) = replay[Len(log)]
  BY ReplayedFacts
<1> DEFINE S == {n \in Nat : n <= Len(log) => /\ replay[n] \in Locks
                                              /\ replay[n].mueller_muller = lock.mueller_muller
                                              /\ Run(replay[n]) <= Run(lock) + n}
<1>2. Len(log) \in Nat /\ \A n \in 1 .. Len(log) : log[n] \in BOOLEAN
  OBVIOUS
<1>3. 0 \in S
  <2>1. replay[0] = lock /\ Run(lock) \in Nat
    BY <1>1, RunFacts DEF Replays
  <2> QED
    BY <2>1
<1>4. ASSUME NEW n \in Nat, n \in S
      PROVE  n + 1 \in S
  <2>1. SUFFICES ASSUME n + 1 <= Len(log)
                 PROVE  /\ replay[n + 1] \in Locks
                        /\ replay[n + 1].mueller_muller = lock.mueller_muller
                        /\ Run(replay[n + 1]) <= Run(lock) + (n + 1)
    OBVIOUS
  <2>2. /\ replay[n] \in Locks /\ replay[n].mueller_muller = lock.mueller_muller
        /\ Run(replay[n]) <= Run(lock) + n
    BY <1>2, <1>4, <2>1
  <2>3. n + 1 \in 1 .. Len(log) /\ (n + 1) - 1 = n
    BY <1>2, <2>1
  <2>4. replay[n + 1] = OneMore(lock, count + (n + 1) - 1, log[n + 1], replay[(n + 1) - 1])
    BY <1>1, <2>3 DEF Replays
  <2>5. /\ replay[n + 1] \in Locks /\ replay[n + 1].mueller_muller = lock.mueller_muller
        /\ Run(replay[n + 1]) <= Run(replay[n]) + 1
    BY <1>2, <2>2, <2>3, <2>4, OneMoreFacts
  <2>6. Run(replay[n]) \in Nat /\ Run(lock) \in Nat /\ Run(replay[n + 1]) \in Nat
    BY <2>2, <2>5, RunFacts
  <2> QED
    BY <2>2, <2>5, <2>6
<1>5. Len(log) \in S
  <2> HIDE DEF S
  <2> QED
    BY <1>2, <1>3, <1>4, Induction
<1> QED
  BY <1>1, <1>2, <1>5

LEMMA ReplayedStep ==
  ASSUME NEW lock \in Locks, NEW count \in Nat, NEW log \in Seq(BOOLEAN), NEW said \in BOOLEAN
  PROVE  Replayed(lock, count, Append(log, said))
           = OneMore(lock, count + Len(log), said, Replayed(lock, count, log))
<1> DEFINE longer == Append(log, said)
           N == Len(log)
<1>1. /\ longer \in Seq(BOOLEAN) /\ Len(longer) = N + 1 /\ N \in Nat
      /\ longer[N + 1] = said /\ \A n \in 1 .. N : longer[n] = log[n]
  OBVIOUS
<1> HIDE DEF longer
<1>2. PICK replay : /\ Replays(lock, count, log, replay)
                    /\ Replayed(lock, count, log) = replay[N]
  BY ReplayedFacts
<1>3. PICK more : /\ Replays(lock, count, longer, more)
                  /\ Replayed(lock, count, longer) = more[N + 1]
  BY <1>1, ReplayedFacts
<1>4. GoOnAlike(N, more, replay)
  <2>1. more[0] = replay[0]
    BY <1>2, <1>3 DEF Replays
  <2>2. ASSUME NEW n \in 1 .. N, more[n - 1] = replay[n - 1]
        PROVE  more[n] = replay[n]
    <3>1. n \in 1 .. N + 1
      BY <1>1
    <3>2. more[n] = OneMore(lock, count + n - 1, longer[n], more[n - 1])
      BY <1>1, <1>3, <3>1 DEF Replays
    <3>3. replay[n] = OneMore(lock, count + n - 1, log[n], replay[n - 1])
      BY <1>2 DEF Replays
    <3> QED
      BY <1>1, <2>2, <3>2, <3>3
  <2> QED
    BY <2>1, <2>2 DEF GoOnAlike
<1>5. more[N] = replay[N]
  <2>1. N \in 0 .. N
    BY <1>1
  <2> HIDE DEF N
  <2> QED
    BY <1>1, <1>4, <2>1, SameRecursion
<1>6. N + 1 \in 1 .. N + 1 /\ (N + 1) - 1 = N /\ count + (N + 1) - 1 = count + N
  BY <1>1
<1>7. more[N + 1] = OneMore(lock, count + (N + 1) - 1, longer[N + 1], more[(N + 1) - 1])
  <2> HIDE DEF N
  <2> QED
    BY <1>1, <1>3, <1>6 DEF Replays
<1> QED
  BY <1>1, <1>2, <1>3, <1>5, <1>6, <1>7 DEF longer

-----------------------------------------------------------------------------
(* The invariant of the loops, the call, the batch and the places in the   *)
(* segment, on top of the first one.                                       *)

(* The loops and the call are what their types say.                        *)
LoopsOK ==
  /\ poison \in [Lanes -> {"no", "ahead", "behind"}] /\ have_previous \in [Lanes -> BOOLEAN]
  /\ symbols \in [Lanes -> Nat] /\ ted \in [Lanes -> Locks]

CallOK ==
  /\ history \in [Lanes -> [0 .. HistoryLength - 1 -> Int]]
  /\ stage \in {"idle", "seam", "block"}
  /\ room \in [Lanes -> Nat] /\ truncated \in [Lanes -> BOOLEAN]
  /\ \A lane \in Lanes : supplied[lane] + input_count[lane] <= MaxSupplied

(* A detector that may be switched is short of its hold.                   *)
Switches(lock) == AutoTed /\ (lock.mueller_muller => Fallback) /\ Hold(lock) # 0
Short(lock) == Switches(lock) => Run(lock) < Hold(lock)
RunsOK == \A lane \in Lanes : Short(ted[lane])

Batches == [steps : 1 .. BatchSteps, base : [Lanes -> Int], mid_base : [Lanes -> Int],
            log : [Lanes -> Seq(BOOLEAN)]]

BatchOK ==
  batch # NoBatch =>
    /\ batch \in Batches
    /\ \A lane \in Lanes :
         /\ Works(lane) /\ have_previous[lane] /\ poison[lane] = "no"
         /\ Len(batch.log[lane]) = Done /\ Done < batch.steps /\ batch.steps <= room[lane]
         /\ Switches(ted[lane]) => Run(ted[lane]) + batch.steps < Hold(ted[lane])

(* Where no stencil of a symbol needs clamping: any symbol of the general  *)
(* path is made from there.                                                *)
Unclamped(lane) == 2 * time[lane] - OmegaMax >= 2 * Ticks
MayProduce(lane) == Works(lane) /\ room[lane] > 0 /\ poison[lane] = "no"

(* Nothing more can be made of the block, or nothing fits.                 *)
Spent(lane) ==
  \/ room[lane] = 0 \/ poison[lane] = "ahead"
  \/ poison[lane] = "no" /\ time[lane] >= (input_count[lane] - 2) * Ticks

PlacesOK ==
  \A lane \in Lanes :
    /\ stage = "idle" => poison[lane] = "no" /\ time[lane] >= EarliestTime * Ticks
    /\ stage # "idle" /\ MayProduce(lane) => Unclamped(lane)
    /\ stage = "block" /\ ~Works(lane) => Spent(lane)

LInv == LoopsOK /\ CallOK /\ RunsOK /\ BatchOK /\ PlacesOK


LEMMA SizesFacts ==
  /\ MmHold \in Nat /\ FallbackHold \in Nat /\ MinSymbols \in Nat /\ Poisons \subseteq {"ahead", "behind"}
  /\ AutoTed \in BOOLEAN /\ Fallback \in BOOLEAN /\ StartsMuellerMuller \in BOOLEAN
  /\ MaxSupplied \in Nat
<1>1. {Ticks, OmegaMin, MmHold, FallbackHold, MinSymbols} \subseteq Nat
  BY ConstantsAssumption
<1>2. {StartsMuellerMuller, AutoTed, Fallback} \subseteq BOOLEAN
  BY ConstantsAssumption
<1>3. {MaxSupplied, MaxSymbols} \subseteq Nat /\ Poisons \subseteq {"ahead", "behind"}
  BY ConstantsAssumption
<1> QED
  BY <1>1, <1>2, <1>3

(* SymbolSync4Initialize: the history holds half a symbol and a margin.    *)
LEMMA WindowFacts ==
  /\ HalfSymbolCeiling \in Nat /\ OmegaMax <= 2 * (HalfSymbolCeiling * Ticks)
  /\ HistoryLength >= HalfSymbolCeiling + 8
  /\ EarliestTime + HistoryLength = HalfSymbolCeiling + 4 /\ EarliestTime < 0
<1> DEFINE d == 2 * Ticks
           m == OmegaMax + 2 * Ticks - 1
           q == m \div d
<1>1. d \in Nat \ {0} /\ m \in Nat /\ OmegaMax \in Int /\ m = OmegaMax + d - 1 /\ Ticks \in Nat
  BY ConstantsFacts
<1>2. HalfSymbolCeiling = q
  BY DEF HalfSymbolCeiling
<1>3. q \in Nat /\ m < q * d + d
  <2> HIDE DEF d, m
  <2> QED
    BY <1>1
<1>4. q * d = 2 * (q * Ticks) /\ q * d \in Int
  <2> HIDE DEF q, m
  <2> QED
    BY <1>1, <1>3
<1>5. OmegaMax <= 2 * (q * Ticks)
  <2> HIDE DEF q, m, d
  <2> QED
    BY <1>1, <1>3, <1>4
<1>6. HistoryLength >= q + 8
  BY <1>2, <1>3 DEF HistoryLength
<1> HIDE DEF q
<1> QED
  BY <1>2, <1>3, <1>5, <1>6, ConstantsFacts DEF EarliestTime

LEMMA TicksFacts ==
  /\ HistoryLength * Ticks \in Int /\ HalfSymbolCeiling * Ticks \in Int
  /\ EarliestTime * Ticks \in Int
  /\ OmegaMax <= 2 * (HalfSymbolCeiling * Ticks)
  /\ HistoryLength * Ticks >= HalfSymbolCeiling * Ticks + 8 * Ticks
  /\ EarliestTime * Ticks + HistoryLength * Ticks = HalfSymbolCeiling * Ticks + 4 * Ticks
  /\ EarliestTime * Ticks <= 0
<1> DEFINE h == HalfSymbolCeiling
           n == HistoryLength
           e == EarliestTime
<1>1. Ticks \in Nat /\ h \in Int /\ n \in Int /\ e \in Int /\ n >= h + 8 /\ e + n = h + 4 /\ e < 0
  BY ConstantsFacts, WindowFacts
<1> HIDE DEF h, n, e
<1>2. (h + 8) * Ticks <= n * Ticks /\ e * Ticks <= 0 * Ticks
  BY <1>1, Scaled
<1>3. (h + 8) * Ticks = h * Ticks + 8 * Ticks
  BY <1>1
<1>4. (e + n) * Ticks = e * Ticks + n * Ticks /\ (h + 4) * Ticks = h * Ticks + 4 * Ticks
  BY <1>1
<1>5. h * Ticks \in Int /\ n * Ticks \in Int /\ e * Ticks \in Int /\ 0 * Ticks = 0
  BY <1>1
<1> QED
  BY <1>1, <1>2, <1>3, <1>4, <1>5, WindowFacts DEF h, n, e

LEMMA HoldFacts ==
  ASSUME NEW lock \in Locks
  PROVE  /\ Hold(lock) \in Nat /\ Switched(lock) \in Locks /\ Run(Switched(lock)) = 0
         /\ Short(Switched(lock))
<1>1. Hold(lock) \in Nat /\ Hold(Switched(lock)) \in Nat
  BY SizesFacts DEF Hold
<1>2. Switched(lock) \in Locks /\ Run(Switched(lock)) = 0
  BY DEF Switched, Locks, Run
<1> QED
  BY <1>1, <1>2 DEF Short, Switches

LEMMA TrackedFacts ==
  ASSUME NEW lock \in Locks, NEW count, NEW speaks \in BOOLEAN, AutoTed, Short(lock)
  PROVE  Tracked(lock, count, speaks) \in Locks /\ Short(Tracked(lock, count, speaks))
<1> DEFINE run == IF speaks THEN Run(lock) + 1 ELSE 0
<1>1. run \in Nat
  <2>1. Run(lock) \in Nat
    BY RunFacts
  <2> QED
    BY <2>1
<1>2. CASE ~Counting(lock, count)
  BY <1>2 DEF Tracked
<1>3. CASE Counting(lock, count) /\ Hold(lock) # 0 /\ run >= Hold(lock)
  <2>1. Tracked(lock, count, speaks) = Switched(lock)
    BY <1>3 DEF Tracked
  <2> QED
    BY <2>1, HoldFacts
<1>4. CASE Counting(lock, count) /\ ~(Hold(lock) # 0 /\ run >= Hold(lock))
  <2>1. Tracked(lock, count, speaks) = WithRun(lock, run)
    BY <1>4 DEF Tracked
  <2> HIDE DEF run
  <2>2. /\ WithRun(lock, run) \in Locks /\ Run(WithRun(lock, run)) = run
        /\ WithRun(lock, run).mueller_muller = lock.mueller_muller
    BY <1>1, RunFacts
  <2>3. Hold(WithRun(lock, run)) = Hold(lock) /\ Hold(lock) \in Nat
    BY <2>2, HoldFacts DEF Hold
  <2>4. Hold(lock) # 0 => run < Hold(lock)
    BY <1>1, <1>4, <2>3
  <2> QED
    BY <2>1, <2>2, <2>3, <2>4 DEF Short, Switches
<1> QED
  BY <1>2, <1>3, <1>4

-----------------------------------------------------------------------------
(* A step of the loops, lane by lane.                                      *)

Moved(lane, outcome) ==
  /\ omega'[lane] = outcome.omega /\ poison'[lane] = outcome.thrown /\ have_previous'[lane] = TRUE
  /\ time'[lane] = IF outcome.thrown = "no"
                   THEN time[lane] + outcome.omega + Alpha * outcome.error ELSE time[lane]

StayedPut(lane) == UNCHANGED <<time[lane], omega[lane], poison[lane], have_previous[lane]>>

LEMMA AdvanceLane ==
  ASSUME NumbersOK, LoopsOK, NEW lanes \in SUBSET Lanes, NEW outcome \in Steps(lanes),
         Advance(outcome), NEW lane \in Lanes
  PROVE  /\ lane \in lanes => outcome[lane] \in Outcomes(lane) /\ Moved(lane, outcome[lane])
         /\ lane \notin lanes => StayedPut(lane)
<1>1. DOMAIN outcome = lanes /\ \A l \in lanes : outcome[l] \in Outcomes(l)
  BY DEF Steps
<1> DEFINE finite == {l \in DOMAIN outcome : outcome[l].thrown = "no"}
           moved == [l \in finite |-> time[l] + outcome[l].omega + Alpha * outcome[l].error]
           turned == [l \in DOMAIN outcome |-> outcome[l].omega]
           thrown == [l \in DOMAIN outcome |-> outcome[l].thrown]
           known == [l \in DOMAIN outcome |-> TRUE]
<1>2. /\ omega'[lane] = Updated(omega, turned)[lane] /\ time'[lane] = Updated(time, moved)[lane]
      /\ poison'[lane] = Updated(poison, thrown)[lane]
      /\ have_previous'[lane] = Updated(have_previous, known)[lane]
  BY DEF Advance
<1>3. CASE lane \in lanes
  <2>1. omega'[lane] = outcome[lane].omega /\ poison'[lane] = outcome[lane].thrown
    BY <1>1, <1>2, <1>3 DEF Updated
  <2>2. have_previous'[lane] = TRUE
    BY <1>1, <1>2, <1>3 DEF Updated
  <2>3. time'[lane] = IF outcome[lane].thrown = "no"
                      THEN time[lane] + outcome[lane].omega + Alpha * outcome[lane].error
                      ELSE time[lane]
    BY <1>1, <1>2, <1>3 DEF Updated
  <2> QED
    BY <1>1, <1>3, <2>1, <2>2, <2>3 DEF Moved
<1>4. CASE lane \notin lanes
  BY <1>1, <1>2, <1>4 DEF Updated, StayedPut
<1> QED
  BY <1>3, <1>4

(* A symbol follows its predecessor.                                       *)
LEMMA StepForward ==
  ASSUME NumbersOK, NEW lane \in Lanes, NEW outcome \in Outcomes(lane), Moved(lane, outcome),
         poison'[lane] = "no"
  PROVE  Follows(lane, outcome) /\ time[lane] \in Int /\ time'[lane] \in Int /\ time'[lane] > time[lane]
<1>1. Follows(lane, outcome)
  <2>1. outcome.thrown = "no"
    BY DEF Moved
  <2>2. ~Throws(lane, outcome) /\ ~Lost(lane, outcome)
    BY <2>1, SizesFacts DEF Throws, Lost
  <2> QED
    BY <2>2, OutcomeKinds
<1>2. time[lane] \in Int /\ omega[lane] \in Int
  BY ConstantsFacts DEF NumbersOK
<1>3. outcome.omega \in OmegaMin .. OmegaMax /\ outcome.error \in Int
  BY <1>2, OutcomeFacts
<1>4. OmegaMin + Alpha * outcome.error > 0
  <2>1. CASE outcome.error \in Errors
    BY <2>1, ConstantsAssumption
  <2>2. CASE outcome.error \notin Errors
    <3>1. outcome.error = 0
      BY <1>1, <2>2 DEF Follows
    <3> QED
      BY <3>1, ConstantsFacts
  <2> QED
    BY <2>1, <2>2
<1> DEFINE correction == Alpha * outcome.error
<1>5. correction \in Int
  BY <1>3, ConstantsFacts
<1>6. time'[lane] = time[lane] + outcome.omega + correction
  BY <1>1 DEF Moved, Follows
<1> HIDE DEF correction
<1>7. OmegaMin + correction > 0
  BY <1>4 DEF correction
<1> QED
  BY <1>1, <1>2, <1>3, <1>5, <1>6, <1>7, ConstantsFacts

LEMMA OutcomeTypes ==
  ASSUME NEW lane \in Lanes, NEW outcome \in Outcomes(lane)
  PROVE  outcome.thrown \in {"no", "ahead", "behind"} /\ outcome.speaks \in BOOLEAN
<1>1. Follows(lane, outcome) \/ Throws(lane, outcome) \/ Lost(lane, outcome)
  BY OutcomeKinds
<1>2. outcome.thrown \in {"no", "ahead", "behind"}
  BY <1>1, SizesFacts DEF Follows, Throws, Lost
<1>3. outcome.speaks \in BOOLEAN
  <2>1. CASE Follows(lane, outcome)
    BY <2>1 DEF Follows
  <2>2. CASE Throws(lane, outcome) \/ Lost(lane, outcome)
    BY <2>2 DEF Throws, Lost
  <2> QED
    BY <1>1, <2>1, <2>2
<1> QED
  BY <1>2, <1>3

(* A lane that steps stays where nothing needs clamping.                   *)
LEMMA StaysUnclamped ==
  ASSUME NumbersOK, NEW lane \in Lanes, NEW outcome \in Outcomes(lane), Moved(lane, outcome),
         Unclamped(lane), poison'[lane] = "no"
  PROVE  Unclamped(lane)'
<1>1. time[lane] \in Int /\ time'[lane] \in Int /\ time'[lane] > time[lane]
  BY StepForward
<1>2. 2 * time'[lane] - OmegaMax >= 2 * Ticks
  BY <1>1, ConstantsFacts DEF Unclamped
<1> QED
  BY <1>2 DEF Unclamped

-----------------------------------------------------------------------------
(* Steps of the loops preserve the second invariant.                       *)

LEMMA AdvanceLoops ==
  ASSUME IInv, LInv, NEW lanes \in SUBSET Lanes, NEW outcome \in Steps(lanes), Advance(outcome)
  PROVE  /\ DOMAIN outcome = lanes
         /\ \A lane \in lanes : outcome[lane] \in Outcomes(lane) /\ outcome[lane].speaks \in BOOLEAN
         /\ poison' \in [Lanes -> {"no", "ahead", "behind"}]
         /\ have_previous' \in [Lanes -> BOOLEAN]
<1> DEFINE thrown == [l \in DOMAIN outcome |-> outcome[l].thrown]
           known == [l \in DOMAIN outcome |-> TRUE]
<1>1. DOMAIN outcome = lanes /\ \A l \in lanes : outcome[l] \in Outcomes(l)
  BY DEF Steps
<1>2. \A l \in lanes : /\ outcome[l].thrown \in {"no", "ahead", "behind"}
                       /\ outcome[l].speaks \in BOOLEAN
  <2> SUFFICES ASSUME NEW l \in lanes
               PROVE  outcome[l].thrown \in {"no", "ahead", "behind"} /\ outcome[l].speaks \in BOOLEAN
    OBVIOUS
  <2>1. l \in Lanes /\ outcome[l] \in Outcomes(l)
    BY <1>1
  <2> QED
    BY <2>1, OutcomeTypes
<1>3. poison' = Updated(poison, thrown) /\ have_previous' = Updated(have_previous, known)
  BY DEF Advance
<1>4. \A l \in DOMAIN thrown : thrown[l] \in {"no", "ahead", "behind"}
  BY <1>1, <1>2
<1>5. \A l \in DOMAIN known : known[l] \in BOOLEAN
  OBVIOUS
<1> HIDE DEF thrown, known
<1>6. poison' \in [Lanes -> {"no", "ahead", "behind"}]
  BY <1>3, <1>4, UpdatedType DEF LInv, LoopsOK
<1>7. have_previous' \in [Lanes -> BOOLEAN]
  BY <1>3, <1>5, UpdatedType DEF LInv, LoopsOK
<1> QED
  BY <1>1, <1>2, <1>6, <1>7

(* What a step on the general path does to one lane.                       *)
Stepped(lane, outcome) ==
  /\ ted'[lane] = IF AutoTed /\ have_previous[lane]
                  THEN Tracked(ted[lane], symbols[lane], outcome.speaks) ELSE ted[lane]
  /\ symbols'[lane] = symbols[lane] + 1 /\ room'[lane] = room[lane] - 1
  /\ symbol'[lane] = Interpolated(lane)

LEMMA StepLane ==
  ASSUME IInv, LInv, NEW lanes \in SUBSET Active, NEW outcome \in Steps(lanes), Step(outcome),
         NEW lane \in Lanes
  PROVE  /\ lane \in lanes => /\ InRange(lane) /\ room[lane] > 0
                              /\ outcome[lane] \in Outcomes(lane)
                              /\ Moved(lane, outcome[lane]) /\ Stepped(lane, outcome[lane])
         /\ lane \notin lanes =>
              /\ StayedPut(lane)
              /\ UNCHANGED <<ted[lane], symbols[lane], room[lane], symbol[lane]>>
<1> DEFINE judged == {l \in DOMAIN outcome : AutoTed /\ have_previous[l]}
           tracked == [l \in judged |-> Tracked(ted[l], symbols[l], outcome[l].speaks)]
           counted == [l \in DOMAIN outcome |-> symbols[l] + 1]
           left == [l \in DOMAIN outcome |-> room[l] - 1]
           made == [l \in DOMAIN outcome |-> Interpolated(l)]
<1>1. lanes \in SUBSET Lanes /\ \A l \in lanes : InRange(l) /\ room[l] > 0
  BY DEF Active
<1>2. Advance(outcome) /\ DOMAIN outcome = lanes
  BY <1>1 DEF Step, Steps
<1>3. /\ lane \in lanes => outcome[lane] \in Outcomes(lane) /\ Moved(lane, outcome[lane])
      /\ lane \notin lanes => StayedPut(lane)
  BY <1>1, <1>2, AdvanceLane DEF IInv, LInv
<1>4. /\ ted'[lane] = Updated(ted, tracked)[lane] /\ symbols'[lane] = Updated(symbols, counted)[lane]
      /\ room'[lane] = Updated(room, left)[lane]
  BY DEF Step
<1>5. symbol'[lane] = Updated(symbol, made)[lane]
  BY DEF Step
<1>6. CASE lane \in lanes
  <2>1. ted'[lane] = IF AutoTed /\ have_previous[lane]
                     THEN Tracked(ted[lane], symbols[lane], outcome[lane].speaks) ELSE ted[lane]
    BY <1>2, <1>4, <1>6 DEF Updated
  <2>2. symbols'[lane] = symbols[lane] + 1 /\ room'[lane] = room[lane] - 1
    BY <1>2, <1>4, <1>6 DEF Updated
  <2>3. symbol'[lane] = Interpolated(lane)
    BY <1>2, <1>5, <1>6 DEF Updated
  <2> QED
    BY <1>1, <1>3, <1>6, <2>1, <2>2, <2>3 DEF Stepped
<1>7. CASE lane \notin lanes
  <2>1. UNCHANGED <<ted[lane], symbols[lane], room[lane]>>
    BY <1>2, <1>4, <1>7 DEF Updated
  <2>2. UNCHANGED symbol[lane]
    BY <1>2, <1>5, <1>7 DEF Updated
  <2> QED
    BY <1>3, <1>7, <2>1, <2>2
<1> QED
  BY <1>6, <1>7

LEMMA StepDomains ==
  ASSUME NEW outcome, Step(outcome)
  PROVE  /\ \E f : ted' = [lane \in Lanes |-> f[lane]]
         /\ \E f : symbols' = [lane \in Lanes |-> f[lane]]
         /\ \E f : room' = [lane \in Lanes |-> f[lane]]
<1> DEFINE tracks == [lane \in {l \in DOMAIN outcome : AutoTed /\ have_previous[l]} |->
                         Tracked(ted[lane], symbols[lane], outcome[lane].speaks)]
           counts == [lane \in DOMAIN outcome |-> symbols[lane] + 1]
           rooms == [lane \in DOMAIN outcome |-> room[lane] - 1]
<1>1. ted' = Updated(ted, tracks) /\ symbols' = Updated(symbols, counts) /\ room' = Updated(room, rooms)
  BY DEF Step
<1> HIDE DEF tracks, counts, rooms
<1>2. \A values, new : Updated(values, new) = [lane \in Lanes |-> Updated(values, new)[lane]]
  BY DEF Updated
<1> QED
  BY <1>1, <1>2

LEMMA StepKeepsLInv ==
  ASSUME IInv, LInv, NEW lanes \in SUBSET Active, NEW outcome \in Steps(lanes), Step(outcome),
         batch = NoBatch
  PROVE  LInv'
<1>1. /\ UNCHANGED <<history, supplied, stage, input_count, batch, truncated>>
      /\ Advance(outcome) /\ lanes \in SUBSET Lanes
  BY DEF Step, kept, Active
<1>2. \A lane \in lanes : outcome[lane].speaks \in BOOLEAN
  BY <1>1, AdvanceLoops
<1>3. ASSUME NEW lane \in Lanes
      PROVE  /\ ted'[lane] \in Locks /\ Short(ted'[lane])
             /\ symbols'[lane] \in Nat /\ room'[lane] \in Nat
  <2>1. ted[lane] \in Locks /\ Short(ted[lane]) /\ symbols[lane] \in Nat /\ room[lane] \in Nat
    BY DEF LInv, LoopsOK, RunsOK, CallOK
  <2>2. CASE lane \notin lanes
    BY <2>1, <2>2, StepLane
  <2>3. CASE lane \in lanes
    <3>1. room[lane] > 0 /\ Stepped(lane, outcome[lane])
      BY <2>3, StepLane
    <3>2. symbols'[lane] \in Nat /\ room'[lane] \in Nat
      BY <2>1, <3>1 DEF Stepped
    <3>3. ted'[lane] = IF AutoTed /\ have_previous[lane]
                       THEN Tracked(ted[lane], symbols[lane], outcome[lane].speaks) ELSE ted[lane]
      BY <3>1 DEF Stepped
    <3>4. CASE AutoTed /\ have_previous[lane]
      BY <1>2, <2>1, <2>3, <3>2, <3>3, <3>4, TrackedFacts
    <3>5. CASE ~(AutoTed /\ have_previous[lane])
      BY <2>1, <3>2, <3>3, <3>5
    <3> QED
      BY <3>4, <3>5
  <2> QED
    BY <2>2, <2>3
<1>4. LoopsOK'
  <2>1. poison' \in [Lanes -> {"no", "ahead", "behind"}] /\ have_previous' \in [Lanes -> BOOLEAN]
    BY <1>1, AdvanceLoops
  <2>2. ted' \in [Lanes -> Locks] /\ symbols' \in [Lanes -> Nat]
    BY <1>3, StepDomains
  <2> QED
    BY <2>1, <2>2 DEF LoopsOK
<1>5. CallOK'
  <2>1. room' \in [Lanes -> Nat]
    BY <1>3, StepDomains
  <2> QED
    BY <1>1, <2>1 DEF LInv, CallOK
<1>6. RunsOK' /\ BatchOK'
  <2>1. BatchOK'
    BY <1>1 DEF BatchOK
  <2>2. RunsOK'
    BY <1>3 DEF RunsOK, Short, Switches
  <2> QED
    BY <2>1, <2>2
<1>7. PlacesOK'
  <2> SUFFICES ASSUME NEW lane \in Lanes
               PROVE  /\ stage' = "idle" => poison'[lane] = "no" /\ time'[lane] >= EarliestTime * Ticks
                      /\ stage' # "idle" /\ MayProduce(lane)' => Unclamped(lane)'
                      /\ stage' = "block" /\ ~Works(lane)' => Spent(lane)'
    BY DEF PlacesOK
  <2>1. /\ stage = "idle" => poison[lane] = "no" /\ time[lane] >= EarliestTime * Ticks
        /\ stage # "idle" /\ MayProduce(lane) => Unclamped(lane)
        /\ stage = "block" /\ ~Works(lane) => Spent(lane)
    BY DEF LInv, PlacesOK
  <2>2. Works(lane)' <=> Works(lane)
    BY <1>1 DEF Works
  <2>3. CASE lane \notin lanes
    <3>1. UNCHANGED <<time[lane], poison[lane], room[lane], stage, input_count>>
      BY <1>1, <2>3, StepLane DEF StayedPut
    <3>2. (MayProduce(lane)' <=> MayProduce(lane)) /\ (Unclamped(lane)' <=> Unclamped(lane))
          /\ (Spent(lane)' <=> Spent(lane))
      BY <2>2, <3>1 DEF MayProduce, Unclamped, Spent
    <3> QED
      BY <2>1, <2>2, <3>1, <3>2
  <2>4. CASE lane \in lanes
    <3>1. /\ InRange(lane) /\ room[lane] > 0
          /\ outcome[lane] \in Outcomes(lane) /\ Moved(lane, outcome[lane])
      BY <2>4, StepLane
    <3>2. Works(lane) /\ stage # "idle"
      BY <3>1, ConstantsFacts DEF InRange, Works, IInv, NumbersOK
    <3>3. ASSUME MayProduce(lane)'
          PROVE  Unclamped(lane)'
      <4>1. poison'[lane] = "no"
        BY <3>3 DEF MayProduce
      <4>2. poison[lane] = "no"
        <5>1. Follows(lane, outcome[lane])
          BY <3>1, <4>1, StepForward DEF IInv
        <5> QED
          BY <3>1, <5>1 DEF InRange, Follows
      <4>3. Unclamped(lane)
        BY <2>1, <3>1, <3>2, <4>2 DEF MayProduce
      <4> QED
        BY <3>1, <4>1, <4>3, StaysUnclamped DEF IInv
    <3> QED
      BY <1>1, <2>2, <3>2, <3>3
  <2> QED
    BY <2>3, <2>4
<1> QED
  BY <1>4, <1>5, <1>6, <1>7 DEF LInv

LEMMA LoopStepKeepsLInv ==
  ASSUME IInv, LInv, GenericStep \/ MaskedStep
  PROVE  LInv'
<1>1. batch = NoBatch
  BY DEF IInv, BatchInRange, GenericStep, MaskedStep
<1>2. \E lanes \in SUBSET Active : \E outcome \in Steps(lanes) : Step(outcome)
  <2>1. CASE GenericStep
    <3>1. PICK lane \in Active : \E outcome \in Steps({lane}) : Step(outcome)
      BY <2>1 DEF GenericStep
    <3>2. {lane} \in SUBSET Active
      BY <3>1
    <3> QED
      BY <3>1, <3>2
  <2>2. CASE MaskedStep
    BY <2>2 DEF MaskedStep
  <2> QED
    BY <2>1, <2>2
<1> QED
  BY <1>1, <1>2, StepKeepsLInv

-----------------------------------------------------------------------------
(* Batches preserve the second invariant.                                  *)

LEMMA BudgetFacts ==
  ASSUME IInv, LInv, BatchApplies
  PROVE  /\ Budget \in 1 .. BatchSteps
         /\ \A lane \in Lanes : /\ Budget <= room[lane]
                                /\ Switches(ted[lane]) => Run(ted[lane]) + Budget < Hold(ted[lane])
<1> DEFINE rooms == {room[lane] : lane \in Lanes}
           runs == {Run(ted[lane]) : lane \in Lanes}
           budget == Min({BatchSteps} \cup rooms)
           first == CHOOSE lane \in Lanes : TRUE
           lock == ted[first]
           run == Max(runs)
           unlimited == ~AutoTed \/ (lock.mueller_muller /\ ~Fallback) \/ Hold(lock) = 0
                          \/ Hold(lock) - run > budget
<1>1. Lanes # {} /\ IsFiniteSet(Lanes) /\ room \in [Lanes -> Nat] /\ ted \in [Lanes -> Locks]
  BY ConstantsAssumption DEF LInv, CallOK, LoopsOK
<1>2. \A lane \in Lanes : room[lane] > 0
  BY DEF BatchApplies, Active
<1>3. IsFiniteSet(rooms) /\ rooms \subseteq Int
  <2>1. [lane \in Lanes |-> room[lane]] \in Surjection(Lanes, rooms)
    BY DEF Surjection
  <2> QED
    BY <1>1, <2>1, FS_Surjection
<1>4. IsFiniteSet(runs) /\ runs \subseteq Int /\ runs # {}
  <2>1. [lane \in Lanes |-> Run(ted[lane])] \in Surjection(Lanes, runs)
    BY DEF Surjection
  <2>2. \A lane \in Lanes : Run(ted[lane]) \in Nat
    BY <1>1, RunFacts
  <2> QED
    BY <1>1, <2>1, <2>2, FS_Surjection
<1>5. budget \in {BatchSteps} \cup rooms /\ \A value \in {BatchSteps} \cup rooms : budget <= value
  <2>1. IsFiniteSet({BatchSteps} \cup rooms)
    <3> HIDE DEF rooms
    <3>1. IsFiniteSet(rooms \cup {BatchSteps})
      BY <1>3, FS_AddElement
    <3>2. rooms \cup {BatchSteps} = {BatchSteps} \cup rooms
      OBVIOUS
    <3> QED
      BY <3>1, <3>2
  <2>2. {BatchSteps} \cup rooms \subseteq Int /\ {BatchSteps} \cup rooms # {}
    BY <1>3 DEF BatchSteps
  <2> HIDE DEF rooms
  <2> QED
    BY <2>1, <2>2, MinFacts
<1>6. budget \in 1 .. BatchSteps /\ \A lane \in Lanes : budget <= room[lane]
  <2>1. budget <= BatchSteps /\ \A lane \in Lanes : budget <= room[lane]
    BY <1>5
  <2>2. budget = BatchSteps \/ \E lane \in Lanes : budget = room[lane]
    BY <1>5
  <2> HIDE DEF budget
  <2>3. budget \in Int /\ budget > 0
    BY <1>1, <1>2, <2>2 DEF BatchSteps
  <2> QED
    BY <2>1, <2>3 DEF BatchSteps
<1>7. run \in Int /\ \A lane \in Lanes : Run(ted[lane]) <= run
  <2>1. run \in runs /\ \A value \in runs : value <= run
    <3> HIDE DEF runs
    <3> QED
      BY <1>4, MaxFacts
  <2> QED
    BY <1>4, <2>1
<1>8. first \in Lanes /\ lock \in Locks /\ Hold(lock) \in Nat
  BY <1>1, HoldFacts
<1>9. \A lane \in Lanes : ted[lane].mueller_muller = lock.mueller_muller
                          /\ Hold(ted[lane]) = Hold(lock)
  BY <1>8 DEF BatchApplies, Hold
<1>10. Budget = IF unlimited THEN budget ELSE Max({0, Hold(lock) - run - 1})
  BY DEF Budget
<1> HIDE DEF budget, run, lock, first
<1>11. Budget # 0
  BY DEF BatchApplies
<1>12. CASE unlimited
  <2>1. Budget = budget
    BY <1>10, <1>12
  <2>2. ASSUME NEW lane \in Lanes, Switches(ted[lane])
        PROVE  Run(ted[lane]) + Budget < Hold(ted[lane])
    <3>1. Switches(lock)
      BY <1>9, <2>2 DEF Switches
    <3>2. Hold(lock) - run > budget
      BY <1>12, <3>1 DEF Switches
    <3>3. Run(ted[lane]) \in Nat /\ Run(ted[lane]) <= run /\ Hold(ted[lane]) = Hold(lock)
      BY <1>1, <1>7, <1>9, RunFacts
    <3> QED
      BY <1>6, <1>7, <1>8, <2>1, <3>2, <3>3
  <2> QED
    BY <1>6, <2>1, <2>2
<1>13. CASE ~unlimited
  <2>1. Hold(lock) - run <= budget
    BY <1>6, <1>7, <1>8, <1>13
  <2>2. Budget = Max({0, Hold(lock) - run - 1}) /\ Hold(lock) - run - 1 \in Int
    BY <1>7, <1>8, <1>10, <1>13
  <2>3. Budget = Hold(lock) - run - 1 /\ Budget > 0
    <3> DEFINE left == Hold(lock) - run - 1
    <3>1. left \in Int /\ Budget = Max({0, left})
      BY <2>2
    <3> HIDE DEF left
    <3>2. Budget = IF 0 >= left THEN 0 ELSE left
      BY <3>1, LargerFacts
    <3>3. Budget = left /\ left > 0
      BY <1>11, <3>1, <3>2
    <3> QED
      BY <3>3 DEF left
  <2>4. Budget \in Int /\ Budget < budget
    BY <1>6, <1>7, <1>8, <2>1, <2>3
  <2>5. Budget \in 1 .. BatchSteps
    <3>1. budget \in 1 .. 64
      BY <1>6 DEF BatchSteps
    <3>2. Budget > 0 /\ Budget \in Int /\ Budget < budget
      BY <2>3, <2>4
    <3> QED
      BY <3>1, <3>2 DEF BatchSteps
  <2>6. ASSUME NEW lane \in Lanes
        PROVE  Run(ted[lane]) + Budget < Hold(ted[lane]) /\ Budget <= room[lane]
    <3>1. Run(ted[lane]) \in Nat /\ Run(ted[lane]) <= run /\ Hold(ted[lane]) = Hold(lock)
      BY <1>1, <1>7, <1>9, RunFacts
    <3>2. room[lane] \in Nat /\ budget <= room[lane]
      BY <1>1, <1>6
    <3> QED
      BY <1>6, <1>7, <1>8, <2>3, <2>4, <3>1, <3>2
  <2> QED
    BY <2>5, <2>6
<1> QED
  BY <1>12, <1>13

LEMMA IndexType ==
  ASSUME NEW halves \in Int
  PROVE  Index(halves) \in Int
<1>1. 2 * Ticks \in Nat \ {0}
  BY ConstantsFacts
<1> DEFINE d == 2 * Ticks
<1> HIDE DEF d
<1>2. halves \div d \in Int
  BY <1>1 DEF d
<1> QED
  BY <1>2 DEF Index, d

LEMMA LaneNumbers ==
  ASSUME NumbersOK, NEW lane \in Lanes
  PROVE  /\ time[lane] \in Int /\ omega[lane] \in Int /\ omega[lane] >= OmegaMin
         /\ omega[lane] <= OmegaMax /\ supplied[lane] \in Nat /\ input_count[lane] \in Nat
BY ConstantsFacts DEF NumbersOK

LEMMA BatchBeginKeepsLInv ==
  ASSUME IInv, LInv, BatchBegin
  PROVE  LInv'
<1>1. /\ BatchApplies
      /\ UNCHANGED <<loops, kept, seam, stage, input_count, room, truncated, symbol>>
      /\ batch' = [steps |-> Budget,
                   base |-> [lane \in Lanes |-> Index(2 * time[lane])],
                   mid_base |-> [lane \in Lanes |-> Index(2 * time[lane] - omega[lane])],
                   log |-> [lane \in Lanes |-> << >>]]
  BY DEF BatchBegin
<1>2. LoopsOK' /\ CallOK'
  BY <1>1 DEF LInv, LoopsOK, CallOK, loops, kept
<1>3. RunsOK' /\ PlacesOK'
  BY <1>1 DEF LInv, RunsOK, Short, Switches, PlacesOK, Unclamped, MayProduce, Works, Spent, loops
<1>4. BatchOK'
  <2>1. batch' \in Batches
    <3>1. \A lane \in Lanes : Index(2 * time[lane]) \in Int
      <4> SUFFICES ASSUME NEW lane \in Lanes PROVE Index(2 * time[lane]) \in Int
        OBVIOUS
      <4>1. 2 * time[lane] \in Int
        BY LaneNumbers DEF IInv
      <4> QED
        BY <4>1, IndexType
    <3>2. \A lane \in Lanes : Index(2 * time[lane] - omega[lane]) \in Int
      <4> SUFFICES ASSUME NEW lane \in Lanes PROVE Index(2 * time[lane] - omega[lane]) \in Int
        OBVIOUS
      <4>1. 2 * time[lane] - omega[lane] \in Int
        BY LaneNumbers DEF IInv
      <4> QED
        BY <4>1, IndexType
    <3>3. [lane \in Lanes |-> << >>] \in [Lanes -> Seq(BOOLEAN)]
      OBVIOUS
    <3>4. Budget \in 1 .. BatchSteps
      BY <1>1, BudgetFacts
    <3> QED
      BY <1>1, <3>1, <3>2, <3>3, <3>4 DEF Batches
  <2>2. Done' = 0 /\ batch'.steps = Budget /\ \A lane \in Lanes : Len(batch'.log[lane]) = 0
    BY <1>1, ConstantsAssumption DEF Done
  <2>3. ASSUME NEW lane \in Lanes
        PROVE  /\ Works(lane)' /\ have_previous'[lane] /\ poison'[lane] = "no"
               /\ Len(batch'.log[lane]) = Done' /\ Done' < batch'.steps
               /\ batch'.steps <= room'[lane]
               /\ Switches(ted[lane])' => Run(ted[lane])' + batch'.steps < Hold(ted[lane])'
    <3>1. /\ Budget \in 1 .. BatchSteps /\ Budget <= room[lane]
          /\ Switches(ted[lane]) => Run(ted[lane]) + Budget < Hold(ted[lane])
      BY <1>1, BudgetFacts
    <3>2. Works(lane)'
      <4>1. Works(lane)
        BY <1>1 DEF BatchApplies, Active, InRange
      <4> QED
        BY <1>1, <4>1 DEF Works
    <3>3. have_previous'[lane] /\ poison'[lane] = "no"
      BY <1>1 DEF BatchApplies, loops
    <3>4. Switches(ted[lane])' => Run(ted[lane])' + batch'.steps < Hold(ted[lane])'
      BY <1>1, <2>2, <3>1 DEF loops, Switches, Run, Hold
    <3>5. Len(batch'.log[lane]) = Done' /\ Done' < batch'.steps /\ batch'.steps <= room'[lane]
      <4>1. 0 < Budget /\ room'[lane] = room[lane]
        <5>1. Budget \in 1 .. BatchSteps /\ room' = room
          BY <1>1, <3>1
        <5>2. 0 < Budget
          BY <5>1 DEF BatchSteps
        <5> QED
          BY <5>1, <5>2
      <4> QED
        BY <2>2, <3>1, <4>1
    <3> QED
      BY <3>2, <3>3, <3>4, <3>5
  <2> QED
    BY <2>1, <2>3 DEF BatchOK
<1> QED
  BY <1>2, <1>3, <1>4 DEF LInv

(* The log of a batch with one more symbol.                                *)
Longer(outcome) == [lane \in Lanes |-> Append(batch.log[lane], outcome[lane].speaks)]

(* What a step of a batch does: go on, or publish and end.                 *)
GoesOn(outcome) ==
  /\ Done + 1 < batch.steps
  /\ \A lane \in Lanes : poison'[lane] = "no" /\ BatchRange(lane, time'[lane])
  /\ batch' = [batch EXCEPT !.base = [lane \in Lanes |-> Index(2 * (time[lane] + omega[lane]))],
                            !.mid_base = [lane \in Lanes |-> Index(2 * time[lane] + omega[lane])],
                            !.log = Longer(outcome)]
  /\ UNCHANGED <<ted, symbols, room>>

Ends(outcome) ==
  /\ batch' = NoBatch
  /\ ted' = IF AutoTed
            THEN [lane \in Lanes |-> Replayed(ted[lane], symbols[lane], Longer(outcome)[lane])]
            ELSE ted
  /\ symbols' = [lane \in Lanes |-> symbols[lane] + Done + 1]
  /\ room' = [lane \in Lanes |-> room[lane] - (Done + 1)]

LEMMA BatchStepCases ==
  ASSUME BatchStep
  PROVE  \E outcome \in Steps(Lanes) :
           /\ Advance(outcome) /\ symbol' = [lane \in Lanes |-> Speculated(lane)]
           /\ GoesOn(outcome) \/ Ends(outcome)
<1>1. PICK outcome \in Steps(Lanes) :
       /\ Advance(outcome)
       /\ symbol' = [lane \in Lanes |-> Speculated(lane)]
       /\ LET log == [lane \in Lanes |-> Append(batch.log[lane], outcome[lane].speaks)]
              inside == \A lane \in Lanes : poison'[lane] = "no" /\ BatchRange(lane, time'[lane])
          IN  IF Done + 1 < batch.steps /\ inside
              THEN /\ batch' = [batch EXCEPT
                         !.base = [lane \in Lanes |-> Index(2 * (time[lane] + omega[lane]))],
                         !.mid_base = [lane \in Lanes |-> Index(2 * time[lane] + omega[lane])],
                         !.log = log]
                   /\ UNCHANGED <<ted, symbols, room>>
              ELSE /\ batch' = NoBatch
                   /\ ted' = IF AutoTed
                             THEN [lane \in Lanes |->
                                     Replayed(ted[lane], symbols[lane], log[lane])]
                             ELSE ted
                   /\ symbols' = [lane \in Lanes |-> symbols[lane] + Done + 1]
                   /\ room' = [lane \in Lanes |-> room[lane] - (Done + 1)]
  BY DEF BatchStep
<1>2. GoesOn(outcome) \/ Ends(outcome)
  BY <1>1 DEF GoesOn, Ends, Longer
<1> QED
  BY <1>1, <1>2

(* During a batch every lane is in range, and logs what its symbols say.   *)
LEMMA BatchFacts ==
  ASSUME IInv, LInv, batch # NoBatch, NEW outcome \in Steps(Lanes), Advance(outcome),
         NEW lane \in Lanes
  PROVE  /\ batch \in Batches /\ batch.steps \in 1 .. BatchSteps
         /\ Done \in Nat /\ Done < batch.steps /\ batch.steps <= room[lane]
         /\ Works(lane) /\ have_previous[lane] /\ poison[lane] = "no" /\ InRange(lane)
         /\ ted[lane] \in Locks /\ symbols[lane] \in Nat /\ room[lane] \in Nat
         /\ batch.log[lane] \in Seq(BOOLEAN) /\ Len(batch.log[lane]) = Done
         /\ Switches(ted[lane]) => Run(ted[lane]) + batch.steps < Hold(ted[lane])
         /\ outcome[lane] \in Outcomes(lane) /\ outcome[lane].speaks \in BOOLEAN
         /\ Moved(lane, outcome[lane])
         /\ Longer(outcome)[lane] = Append(batch.log[lane], outcome[lane].speaks)
         /\ Longer(outcome)[lane] \in Seq(BOOLEAN) /\ Len(Longer(outcome)[lane]) = Done + 1
<1>1. /\ batch \in Batches
      /\ Len(batch.log[lane]) = Done /\ Done < batch.steps /\ batch.steps <= room[lane]
      /\ Switches(ted[lane]) => Run(ted[lane]) + batch.steps < Hold(ted[lane])
  BY DEF LInv, BatchOK
<1>2. Works(lane) /\ have_previous[lane] /\ poison[lane] = "no"
  BY DEF LInv, BatchOK
<1>3. batch.steps \in 1 .. BatchSteps /\ batch.log[lane] \in Seq(BOOLEAN)
  BY <1>1 DEF Batches
<1>4. Done \in Nat
  BY <1>1, <1>3
<1>5. ted[lane] \in Locks /\ symbols[lane] \in Nat /\ room[lane] \in Nat
  BY DEF LInv, LoopsOK, CallOK
<1>6. InRange(lane)
  <2>1. BatchRange(lane, time[lane])
    BY DEF IInv, BatchInRange
  <2>2. time[lane] < Limit(lane)
    <3>1. time[lane] < Limit(lane) - OmegaMax - 2 * Ticks /\ OmegaMax \in Nat /\ Ticks \in Nat
      BY <2>1, ConstantsFacts DEF BatchRange
    <3>2. Limit(lane) \in Int /\ time[lane] \in Int
      <4>1. HistoryLength \in Nat /\ input_count[lane] \in Nat /\ time[lane] \in Int
        BY ConstantsFacts, LaneNumbers DEF IInv
      <4>2. SeamHead(lane) \in Int
        BY <4>1, SmallerFacts DEF SeamHead
      <4>3. Length(lane) \in Int
        BY <4>1, <4>2 DEF Length
      <4> QED
        BY <3>1, <4>1, <4>3 DEF Limit
    <3> QED
      BY <3>1, <3>2
  <2> QED
    BY <1>2, <2>2 DEF InRange
<1>7. /\ outcome[lane] \in Outcomes(lane) /\ outcome[lane].speaks \in BOOLEAN
      /\ Moved(lane, outcome[lane])
  BY AdvanceLoops, AdvanceLane DEF IInv, LInv
<1>8. /\ Longer(outcome)[lane] = Append(batch.log[lane], outcome[lane].speaks)
      /\ Longer(outcome)[lane] \in Seq(BOOLEAN) /\ Len(Longer(outcome)[lane]) = Done + 1
  <2>1. Longer(outcome)[lane] = Append(batch.log[lane], outcome[lane].speaks)
    BY DEF Longer
  <2>2. /\ Append(batch.log[lane], outcome[lane].speaks) \in Seq(BOOLEAN)
        /\ Len(Append(batch.log[lane], outcome[lane].speaks)) = Len(batch.log[lane]) + 1
    BY <1>3, <1>7
  <2> QED
    BY <1>1, <2>1, <2>2
<1> QED
  BY <1>1, <1>2, <1>3, <1>4, <1>5, <1>6, <1>7, <1>8

(* Replaying a batch leaves a detector short of its hold.                  *)
LEMMA EndingLock ==
  ASSUME IInv, LInv, batch # NoBatch, NEW outcome \in Steps(Lanes), Advance(outcome),
         NEW lane \in Lanes
  PROVE  LET after == Replayed(ted[lane], symbols[lane], Longer(outcome)[lane])
         IN  after \in Locks /\ Short(after)
<1> DEFINE after == Replayed(ted[lane], symbols[lane], Longer(outcome)[lane])
           was == ted[lane]
           done == Done + 1
<1>1. /\ was \in Locks /\ symbols[lane] \in Nat /\ Longer(outcome)[lane] \in Seq(BOOLEAN)
      /\ Len(Longer(outcome)[lane]) = done /\ done <= batch.steps /\ done \in Nat
      /\ batch.steps \in Nat
      /\ Switches(was) => Run(was) + batch.steps < Hold(was)
  <2>1. /\ was \in Locks /\ symbols[lane] \in Nat /\ Longer(outcome)[lane] \in Seq(BOOLEAN)
        /\ Len(Longer(outcome)[lane]) = done
        /\ Switches(was) => Run(was) + batch.steps < Hold(was)
    BY BatchFacts
  <2>2. Done \in Nat /\ Done < batch.steps /\ batch.steps \in 1 .. BatchSteps
    BY BatchFacts
  <2>3. done <= batch.steps /\ done \in Nat /\ batch.steps \in Nat
    BY <2>2 DEF BatchSteps
  <2> QED
    BY <2>1, <2>3
<1>2. /\ after \in Locks /\ after.mueller_muller = was.mueller_muller
      /\ Run(after) <= Run(was) + done
  BY <1>1, ReplayedBounds
<1> HIDE DEF after, was, done
<1>3. Hold(after) = Hold(was) /\ Hold(was) \in Nat /\ Run(after) \in Nat /\ Run(was) \in Nat
  BY <1>1, <1>2, HoldFacts, RunFacts DEF Hold
<1>4. Switches(after) => Run(after) < Hold(after)
  <2> SUFFICES ASSUME Switches(after) PROVE Run(after) < Hold(after)
    OBVIOUS
  <2>1. Switches(was)
    BY <1>2, <1>3 DEF Switches
  <2> QED
    BY <1>1, <1>2, <1>3, <2>1
<1> QED
  BY <1>2, <1>4 DEF after, Short

LEMMA BatchStepKeepsLInv ==
  ASSUME IInv, LInv, BatchStep
  PROVE  LInv'
<1>1. batch # NoBatch /\ UNCHANGED <<kept, seam, stage, input_count, truncated>>
  BY DEF BatchStep
<1>2. PICK outcome \in Steps(Lanes) : Advance(outcome) /\ (GoesOn(outcome) \/ Ends(outcome))
  BY BatchStepCases
<1>3. poison' \in [Lanes -> {"no", "ahead", "behind"}] /\ have_previous' \in [Lanes -> BOOLEAN]
  BY <1>2, AdvanceLoops
<1>4. \A lane \in Lanes : Works(lane)' <=> Works(lane)
  BY <1>1 DEF Works
<1>5. LoopsOK' /\ CallOK' /\ RunsOK'
  <2>1. CASE GoesOn(outcome)
    <3>1. UNCHANGED <<ted, symbols, room>>
      BY <2>1 DEF GoesOn
    <3>2. LoopsOK'
      BY <1>3, <3>1 DEF LInv, LoopsOK
    <3>3. CallOK'
      BY <1>1, <3>1 DEF LInv, CallOK, kept
    <3>4. RunsOK'
      BY <3>1 DEF LInv, RunsOK, Short, Switches
    <3> QED
      BY <3>2, <3>3, <3>4
  <2>2. CASE Ends(outcome)
    <3>1. /\ ted' = IF AutoTed
                    THEN [lane \in Lanes |->
                            Replayed(ted[lane], symbols[lane], Longer(outcome)[lane])]
                    ELSE ted
          /\ symbols' = [lane \in Lanes |-> symbols[lane] + Done + 1]
          /\ room' = [lane \in Lanes |-> room[lane] - (Done + 1)]
      BY <2>2 DEF Ends
    <3>2. ted' \in [Lanes -> Locks] /\ \A lane \in Lanes : Short(ted'[lane])
      <4>1. CASE AutoTed
        <5>1. \A lane \in Lanes :
                /\ Replayed(ted[lane], symbols[lane], Longer(outcome)[lane]) \in Locks
                /\ Short(Replayed(ted[lane], symbols[lane], Longer(outcome)[lane]))
          BY <1>1, <1>2, EndingLock
        <5> QED
          BY <3>1, <4>1, <5>1
      <4>2. CASE ~AutoTed
        BY <3>1, <4>2 DEF LInv, LoopsOK, RunsOK
      <4> QED
        BY <4>1, <4>2
    <3>3. symbols' \in [Lanes -> Nat] /\ room' \in [Lanes -> Nat]
      <4> SUFFICES ASSUME NEW lane \in Lanes
                   PROVE  symbols[lane] + Done + 1 \in Nat /\ room[lane] - (Done + 1) \in Nat
        BY <3>1
      <4>1. /\ symbols[lane] \in Nat /\ room[lane] \in Nat /\ Done \in Nat
            /\ Done < batch.steps /\ batch.steps <= room[lane] /\ batch.steps \in 1 .. BatchSteps
        BY <1>1, <1>2, BatchFacts
      <4> QED
        BY <4>1 DEF BatchSteps
    <3>4. LoopsOK'
      BY <1>3, <3>2, <3>3 DEF LoopsOK
    <3>5. CallOK'
      BY <1>1, <3>3 DEF LInv, CallOK, kept
    <3>6. RunsOK'
      BY <3>2 DEF RunsOK, Short, Switches
    <3> QED
      BY <3>4, <3>5, <3>6
  <2> QED
    BY <1>2, <2>1, <2>2
<1>6. BatchOK'
  <2>1. CASE Ends(outcome)
    BY <2>1 DEF Ends, BatchOK
  <2>2. CASE GoesOn(outcome)
    <3>1. /\ Done + 1 < batch.steps /\ \A lane \in Lanes : poison'[lane] = "no"
          /\ batch' = [batch EXCEPT
                 !.base = [lane \in Lanes |-> Index(2 * (time[lane] + omega[lane]))],
                 !.mid_base = [lane \in Lanes |-> Index(2 * time[lane] + omega[lane])],
                 !.log = Longer(outcome)]
          /\ UNCHANGED <<ted, symbols, room>>
      BY <2>2 DEF GoesOn
    <3>2. batch \in Batches
      BY <1>1 DEF LInv, BatchOK
    <3>3. batch'.steps = batch.steps /\ batch'.log = Longer(outcome)
      BY <3>1, <3>2 DEF Batches
    <3>4. batch' \in Batches
      <4>1. ASSUME NEW lane \in Lanes
            PROVE  /\ Index(2 * (time[lane] + omega[lane])) \in Int
                   /\ Index(2 * time[lane] + omega[lane]) \in Int
        <5>1. 2 * (time[lane] + omega[lane]) \in Int /\ 2 * time[lane] + omega[lane] \in Int
          BY LaneNumbers DEF IInv
        <5> QED
          BY <5>1, IndexType
      <4>2. \A lane \in Lanes : Longer(outcome)[lane] \in Seq(BOOLEAN)
        BY <1>1, <1>2, BatchFacts
      <4>3. Longer(outcome) \in [Lanes -> Seq(BOOLEAN)]
        BY <4>2 DEF Longer
      <4> QED
        BY <3>1, <3>2, <4>1, <4>3 DEF Batches
    <3>5. Done' = Done + 1 /\ \A lane \in Lanes : Len(batch'.log[lane]) = Done + 1
      <4>1. \A lane \in Lanes : Len(batch'.log[lane]) = Done + 1
        BY <1>1, <1>2, <3>3, BatchFacts
      <4> QED
        BY <4>1, ConstantsAssumption DEF Done
    <3>6. ASSUME NEW lane \in Lanes
          PROVE  /\ Works(lane)' /\ have_previous'[lane] /\ poison'[lane] = "no"
                 /\ Len(batch'.log[lane]) = Done' /\ Done' < batch'.steps
                 /\ batch'.steps <= room'[lane]
                 /\ Switches(ted[lane])' => Run(ted[lane])' + batch'.steps < Hold(ted[lane])'
      <4>1. /\ Works(lane) /\ batch.steps <= room[lane]
            /\ Switches(ted[lane]) => Run(ted[lane]) + batch.steps < Hold(ted[lane])
        BY <1>1, <1>2, BatchFacts
      <4>2. have_previous'[lane] /\ poison'[lane] = "no"
        <5>1. Moved(lane, outcome[lane])
          BY <1>1, <1>2, BatchFacts
        <5> QED
          BY <3>1, <5>1 DEF Moved
      <4>3. Switches(ted[lane])' => Run(ted[lane])' + batch'.steps < Hold(ted[lane])'
        BY <3>1, <3>3, <4>1 DEF Switches, Run, Hold
      <4>4. Works(lane)'
        BY <1>4, <4>1
      <4>5. Len(batch'.log[lane]) = Done' /\ Done' < batch'.steps /\ batch'.steps <= room'[lane]
        BY <3>1, <3>3, <3>5, <4>1
      <4> QED
        BY <4>2, <4>3, <4>4, <4>5
    <3> QED
      BY <3>4, <3>6 DEF BatchOK
  <2> QED
    BY <1>2, <2>1, <2>2
<1>7. PlacesOK'
  <2> SUFFICES ASSUME NEW lane \in Lanes
               PROVE  /\ stage' = "idle" => poison'[lane] = "no" /\ time'[lane] >= EarliestTime * Ticks
                      /\ stage' # "idle" /\ MayProduce(lane)' => Unclamped(lane)'
                      /\ stage' = "block" /\ ~Works(lane)' => Spent(lane)'
    BY DEF PlacesOK
  <2>1. stage # "idle" /\ stage' = stage
    BY <1>1 DEF IInv, BatchInRange
  <2>2. /\ Works(lane) /\ poison[lane] = "no" /\ room[lane] \in Nat /\ batch.steps <= room[lane]
        /\ batch.steps \in 1 .. BatchSteps
        /\ outcome[lane] \in Outcomes(lane) /\ Moved(lane, outcome[lane])
    BY <1>1, <1>2, BatchFacts
  <2>3. room[lane] > 0
    BY <2>2 DEF BatchSteps
  <2>4. Unclamped(lane)
    BY <2>1, <2>2, <2>3 DEF LInv, PlacesOK, MayProduce
  <2>5. MayProduce(lane)' => Unclamped(lane)'
    BY <2>2, <2>4, StaysUnclamped DEF MayProduce, IInv
  <2>6. Works(lane)'
    BY <1>4, <2>2
  <2> QED
    BY <2>1, <2>5, <2>6
<1> QED
  BY <1>5, <1>6, <1>7 DEF LInv

-----------------------------------------------------------------------------
(* Calls preserve the second invariant.                                    *)

LEMMA ExecuteKeepsLInv ==
  ASSUME IInv, LInv, NEW counts \in [Lanes -> Counts], NEW capacities \in [Lanes -> Capacities],
         Execute(counts, capacities)
  PROVE  LInv'
<1>1. /\ stage = "idle" /\ stage' = "seam" /\ input_count' = counts /\ room' = capacities
      /\ Forward(HistoryLength * Ticks) /\ truncated' = [lane \in Lanes |-> FALSE]
      /\ \A lane \in Lanes : supplied[lane] + counts[lane] <= MaxSupplied
      /\ UNCHANGED <<poison, omega, have_previous, symbols, ted, kept, batch, symbol>>
  BY DEF Execute
<1>2. LoopsOK' /\ RunsOK'
  BY <1>1 DEF LInv, LoopsOK, RunsOK, Short, Switches
<1>3. CallOK'
  BY <1>1, ConstantsFacts DEF LInv, CallOK, kept
<1>4. BatchOK'
  BY <1>1 DEF IInv, BatchInRange, BatchOK
<1>5. PlacesOK'
  <2> SUFFICES ASSUME NEW lane \in Lanes PROVE Unclamped(lane)'
    BY <1>1 DEF PlacesOK, Works
  <2>1. time[lane] \in Int /\ time[lane] >= EarliestTime * Ticks
    BY <1>1, LaneNumbers DEF LInv, PlacesOK, IInv
  <2>2. time'[lane] = time[lane] + HistoryLength * Ticks
    BY <1>1 DEF Forward
  <2>3. 2 * time'[lane] - OmegaMax >= 2 * Ticks
    <3> DEFINE e == EarliestTime * Ticks
               n == HistoryLength * Ticks
               h == HalfSymbolCeiling * Ticks
    <3>1. /\ e \in Int /\ n \in Int /\ h \in Int /\ e + n = h + 4 * Ticks /\ OmegaMax <= 2 * h
          /\ Ticks \in Nat /\ OmegaMax \in Int /\ time[lane] >= e /\ time'[lane] = time[lane] + n
      BY <2>1, <2>2, TicksFacts, ConstantsFacts
    <3> HIDE DEF e, n, h
    <3> QED
      BY <2>1, <3>1
  <2> QED
    BY <2>3 DEF Unclamped
<1> QED
  BY <1>2, <1>3, <1>4, <1>5 DEF LInv

LEMMA SeamLimit ==
  ASSUME IInv, NEW lane \in Lanes, stage = "seam"
  PROVE  /\ input_count[lane] \in Nat /\ input_count[lane] * Ticks \in Int
         /\ Limit(lane) = HistoryLength * Ticks
              + (IF input_count[lane] <= HistoryLength THEN input_count[lane] * Ticks
                 ELSE HistoryLength * Ticks) - 2 * Ticks
<1> DEFINE n == HistoryLength
           c == input_count[lane]
           head == IF c <= n THEN c ELSE n
<1>1. n \in Nat /\ c \in Nat /\ Ticks \in Nat
  BY ConstantsFacts, LaneNumbers DEF IInv
<1>2. SeamHead(lane) = head
  BY <1>1, SmallerFacts DEF SeamHead
<1>3. Limit(lane) = ((n + head) - 2) * Ticks
  BY <1>2 DEF Limit, Length, InSeam
<1> HIDE DEF n, c
<1>4. head \in Nat
  BY <1>1
<1> HIDE DEF head
<1>5. ((n + head) - 2) * Ticks = n * Ticks + head * Ticks - 2 * Ticks
  BY <1>1, <1>4
<1> QED
  BY <1>1, <1>3, <1>5 DEF n, c, head

LEMMA SeamDoneKeepsLInv ==
  ASSUME IInv, LInv, SeamDone
  PROVE  LInv'
<1>1. /\ stage = "seam" /\ stage' = "block" /\ Forward(-(HistoryLength * Ticks))
      /\ batch = NoBatch /\ Active = {}
      /\ UNCHANGED <<poison, omega, have_previous, symbols, ted, kept, seam, input_count, room,
                     batch, truncated, symbol>>
  BY DEF SeamDone, PassDone
<1>2. LoopsOK' /\ RunsOK'
  BY <1>1 DEF LInv, LoopsOK, RunsOK, Short, Switches
<1>3. CallOK' /\ BatchOK'
  BY <1>1 DEF LInv, CallOK, BatchOK, kept
<1>4. PlacesOK'
  <2> SUFFICES ASSUME NEW lane \in Lanes
               PROVE  /\ MayProduce(lane)' => Unclamped(lane)'
                      /\ ~Works(lane)' => Spent(lane)'
    BY <1>1 DEF PlacesOK
  <2> DEFINE n == HistoryLength * Ticks
             h == HalfSymbolCeiling * Ticks
             c == input_count[lane] * Ticks
             t == time[lane]
  <2>1. /\ room[lane] = 0 \/ poison[lane] = "ahead" \/ (poison[lane] = "no" /\ t >= Limit(lane))
    <3>1. ~(InRange(lane) /\ room[lane] > 0)
      BY <1>1 DEF Active
    <3>2. room[lane] \in Nat /\ poison[lane] \in {"no", "ahead", "behind"}
      BY DEF LInv, CallOK, LoopsOK
    <3>3. t \in Int /\ Limit(lane) \in Int
      BY <1>1, SeamLimit, LaneNumbers, ConstantsFacts, TicksFacts DEF IInv
    <3>4. room[lane] = 0 \/ ~InRange(lane)
      BY <3>1, <3>2
    <3>5. InRange(lane) \/ poison[lane] = "ahead" \/ (poison[lane] = "no" /\ ~(t < Limit(lane)))
      BY <1>1, <3>2 DEF InRange, Works
    <3> QED
      BY <3>3, <3>4, <3>5
  <2>2. time'[lane] = t - n /\ UNCHANGED <<input_count, room, poison>>
    <3>1. time'[lane] = t + (-(HistoryLength * Ticks))
      BY <1>1 DEF Forward
    <3> QED
      BY <1>1, <3>1, TicksFacts, LaneNumbers DEF IInv
  <2>3. /\ n \in Int /\ h \in Int /\ c \in Int /\ t \in Int /\ n >= h + 8 * Ticks
        /\ OmegaMax <= 2 * h /\ OmegaMax \in Int /\ Ticks \in Nat /\ Ticks > 0
        /\ Limit(lane) = n + (IF input_count[lane] <= HistoryLength THEN c ELSE n) - 2 * Ticks
    BY <1>1, TicksFacts, ConstantsFacts, SeamLimit, LaneNumbers DEF IInv
  <2>4. ASSUME MayProduce(lane)'
        PROVE  Unclamped(lane)'
    <3>1. input_count[lane] > HistoryLength /\ room[lane] > 0 /\ poison[lane] = "no"
      BY <1>1, <2>4 DEF MayProduce, Works
    <3>2. t >= Limit(lane)
      BY <2>1, <3>1
    <3>3. ~(input_count[lane] <= HistoryLength)
      BY <3>1, LaneNumbers, ConstantsFacts DEF IInv
    <3>4. Limit(lane) = n + n - 2 * Ticks
      BY <2>3, <3>3
    <3> HIDE DEF n, h, c, t
    <3>5. 2 * time'[lane] - OmegaMax >= 2 * Ticks
      BY <2>2, <2>3, <3>2, <3>4
    <3> QED
      BY <3>5 DEF Unclamped
  <2>5. ASSUME ~Works(lane)'
        PROVE  Spent(lane)'
    <3>1. input_count[lane] <= HistoryLength
      BY <1>1, <2>5, LaneNumbers, ConstantsFacts DEF Works, IInv
    <3>2. (input_count[lane] - 2) * Ticks = c - 2 * Ticks
      BY LaneNumbers, ConstantsFacts DEF IInv
    <3> HIDE DEF n, h, c, t
    <3>3. CASE room[lane] = 0 \/ poison[lane] = "ahead"
      BY <2>2, <3>3 DEF Spent
    <3>4. CASE poison[lane] = "no" /\ t >= Limit(lane)
      <4>1. time'[lane] >= (input_count[lane] - 2) * Ticks
        BY <2>2, <2>3, <3>1, <3>2, <3>4
      <4> QED
        BY <2>2, <3>4, <4>1 DEF Spent
    <3> QED
      BY <2>1, <3>3, <3>4
  <2> QED
    BY <2>4, <2>5
<1> QED
  BY <1>2, <1>3, <1>4 DEF LInv

(* What is kept is a number for every place of the history.                *)
LEMMA KeptIsNumbers ==
  ASSUME IInv', NEW f, history' = [lane \in Lanes |-> [i \in 0 .. HistoryLength - 1 |-> f[lane][i]]]
  PROVE  history' \in [Lanes -> [0 .. HistoryLength - 1 -> Int]]
<1> SUFFICES ASSUME NEW lane \in Lanes, NEW i \in 0 .. HistoryLength - 1
             PROVE  history'[lane][i] \in Int
  OBVIOUS
<1>1. history'[lane][i] = LET n == supplied'[lane] - HistoryLength + i
                          IN  IF n < 0 THEN Silence ELSE n
  BY DEF IInv, HistoryIsStream
<1>2. supplied'[lane] \in Nat
  BY DEF IInv, NumbersOK
<1> QED
  BY <1>1, <1>2, ConstantsFacts DEF Silence

LEMMA EarliestKept ==
  ASSUME NEW moved \in Int
  PROVE  Max({moved, EarliestTime * Ticks}) >= EarliestTime * Ticks
<1> DEFINE e == EarliestTime * Ticks
<1>1. e \in Int
  BY TicksFacts
<1> HIDE DEF e
<1> QED
  BY <1>1, LargerFacts DEF e

LEMMA ReturnKeepsLInv ==
  ASSUME IInv, LInv, Return
  PROVE  LInv'
<1>1. /\ stage' = "idle" /\ batch = NoBatch /\ batch' = batch
      /\ history' = [lane \in Lanes |-> KeptTail(lane)]
      /\ time' = [lane \in Lanes |-> Rebased(lane)]
      /\ poison' = [lane \in Lanes |-> "no"]
      /\ supplied' = [lane \in Lanes |-> supplied[lane] + input_count[lane]]
      /\ input_count' = [lane \in Lanes |-> 0] /\ room' = [lane \in Lanes |-> 0]
      /\ UNCHANGED <<symbols, ted>>
  BY DEF Return, PassDone
<1>2. IInv'
  BY ReturnKeeps
<1>3. LoopsOK'
  <2>1. have_previous' \in [Lanes -> BOOLEAN]
    BY DEF Return
  <2> QED
    BY <1>1, <2>1 DEF LInv, LoopsOK
<1>4. CallOK'
  <2>1. history' \in [Lanes -> [0 .. HistoryLength - 1 -> Int]]
    <3>1. history' = [lane \in Lanes |-> [i \in 0 .. HistoryLength - 1 |-> KeptTail(lane)[i]]]
      BY <1>1 DEF KeptTail
    <3> DEFINE f == [lane \in Lanes |-> KeptTail(lane)]
    <3>2. history' = [lane \in Lanes |-> [i \in 0 .. HistoryLength - 1 |-> f[lane][i]]]
      BY <3>1
    <3> HIDE DEF f
    <3> QED
      BY <1>2, <3>2, KeptIsNumbers
  <2>2. truncated' \in [Lanes -> BOOLEAN]
    BY DEF Return
  <2>3. \A lane \in Lanes : supplied'[lane] + input_count'[lane] <= MaxSupplied
    <3> SUFFICES ASSUME NEW lane \in Lanes PROVE supplied'[lane] + input_count'[lane] <= MaxSupplied
      OBVIOUS
    <3>1. supplied'[lane] = supplied[lane] + input_count[lane] /\ input_count'[lane] = 0
      BY <1>1
    <3>2. supplied[lane] + input_count[lane] <= MaxSupplied
      BY DEF LInv, CallOK
    <3> QED
      BY <3>1, <3>2, LaneNumbers DEF IInv
  <2> QED
    BY <1>1, <2>1, <2>2, <2>3 DEF CallOK
<1>5. RunsOK' /\ BatchOK'
  BY <1>1 DEF LInv, RunsOK, Short, Switches, BatchOK
<1>6. PlacesOK'
  <2> SUFFICES ASSUME NEW lane \in Lanes PROVE time'[lane] >= EarliestTime * Ticks
    BY <1>1 DEF PlacesOK
  <2>1. time[lane] - input_count[lane] * Ticks \in Int /\ EarliestTime * Ticks \in Int
    BY LaneNumbers, ConstantsFacts DEF IInv
  <2>2. time'[lane] = IF poison[lane] # "no" THEN EarliestTime * Ticks
                      ELSE Max({time[lane] - input_count[lane] * Ticks, EarliestTime * Ticks})
    BY <1>1 DEF Rebased
  <2> QED
    BY <2>1, <2>2, EarliestKept
<1> QED
  BY <1>3, <1>4, <1>5, <1>6 DEF LInv

(* A loop that coasts takes as many whole symbols as reach the end.        *)
LEMMA CoastedFacts ==
  ASSUME NumbersOK, NEW lane \in Lanes, NEW count \in Nat
  PROVE  LET coasted == Coasted(lane, count)
         IN  /\ coasted \in Nat
             /\ time[lane] + coasted * omega[lane] >= count * Ticks
             /\ coasted > 0 => time[lane] + coasted * omega[lane] - omega[lane] < count * Ticks
<1> DEFINE o == omega[lane]
           way == count * Ticks - time[lane]
           m == way + o - 1
           q == m \div o
<1>1. o \in Nat \ {0} /\ time[lane] \in Int /\ count * Ticks \in Int /\ way \in Int
  BY LaneNumbers, ConstantsFacts
<1>2. Coasted(lane, count) = IF time[lane] < count * Ticks THEN q ELSE 0
  BY DEF Coasted
<1>3. CASE time[lane] < count * Ticks
  <2>1. way > 0
    BY <1>1, <1>3
  <2> HIDE DEF way
  <2>2. m \in Nat /\ m >= o /\ m = way + o - 1
    BY <1>1, <2>1
  <2> HIDE DEF o, m
  <2>3. q \in Int /\ q * o <= m /\ m < q * o + o
    BY <1>1, <2>2
  <2>4. q \in Nat
    <3> HIDE DEF q
    <3>1. SUFFICES ASSUME q + 1 <= 0 PROVE FALSE
      BY <2>3
    <3>2. (q + 1) * o <= 0 * o
      BY <1>1, <2>3, <3>1, Scaled
    <3>3. (q + 1) * o = q * o + o /\ 0 * o = 0
      BY <1>1, <2>3
    <3> QED
      BY <1>1, <2>2, <2>3, <3>2, <3>3
  <2>5. q * o >= way /\ q * o - o < way
    <3> HIDE DEF q
    <3>1. q * o \in Int
      BY <1>1, <2>3
    <3> QED
      BY <1>1, <2>2, <2>3, <3>1
  <2>6. Coasted(lane, count) = q
    BY <1>2, <1>3
  <2> HIDE DEF q
  <2>7. q * o \in Int
    BY <1>1, <2>4
  <2>8. time[lane] + q * o >= count * Ticks /\ time[lane] + q * o - o < count * Ticks
    BY <1>1, <2>5, <2>7 DEF way
  <2> QED
    BY <2>4, <2>6, <2>8 DEF o
<1>4. CASE ~(time[lane] < count * Ticks)
  <2>1. Coasted(lane, count) = 0 /\ 0 * o = 0
    BY <1>1, <1>2, <1>4
  <2> QED
    BY <1>1, <1>4, <2>1
<1> QED
  BY <1>3, <1>4

LEMMA SkipKeepsLInv ==
  ASSUME IInv, LInv, NEW counts \in [Lanes -> Counts], Skip(counts)
  PROVE  LInv'
<1> DEFINE coasted(lane) == time[lane] + Coasted(lane, counts[lane]) * omega[lane]
           moved(lane) == coasted(lane) - counts[lane] * Ticks
           earliest == EarliestTime * Ticks
<1>1. /\ stage = "idle" /\ UNCHANGED <<poison, omega, ted, call, symbol>>
      /\ \A lane \in Lanes : supplied[lane] + counts[lane] <= MaxSupplied
      /\ history' = [lane \in Lanes |-> SkippedHistory(lane, counts[lane])]
      /\ supplied' = [lane \in Lanes |-> supplied[lane] + counts[lane]]
      /\ symbols' = [lane \in Lanes |-> symbols[lane] + Coasted(lane, counts[lane])]
      /\ have_previous' = [lane \in Lanes |-> FALSE]
  BY DEF Skip
<1>1a. time' = [lane \in Lanes |-> Max({moved(lane), earliest})]
  BY DEF Skip
<1>2. IInv' /\ \A lane \in Lanes : counts[lane] \in Nat /\ Coasted(lane, counts[lane]) \in Nat
  <2>1. \A lane \in Lanes : counts[lane] \in Nat
    BY ConstantsFacts
  <2> QED
    BY <2>1, SkipKeeps, CoastedFacts DEF IInv
<1>3. LoopsOK'
  BY <1>1, <1>2 DEF LInv, LoopsOK
<1>4. CallOK'
  <2>1. history' \in [Lanes -> [0 .. HistoryLength - 1 -> Int]]
    <3>1. history' = [lane \in Lanes |->
                        [i \in 0 .. HistoryLength - 1 |-> SkippedHistory(lane, counts[lane])[i]]]
      BY <1>1 DEF SkippedHistory
    <3> DEFINE f == [lane \in Lanes |-> SkippedHistory(lane, counts[lane])]
    <3>2. history' = [lane \in Lanes |-> [i \in 0 .. HistoryLength - 1 |-> f[lane][i]]]
      BY <3>1
    <3> HIDE DEF f
    <3> QED
      BY <1>2, <3>2, KeptIsNumbers
  <2>2. \A lane \in Lanes : supplied'[lane] + input_count'[lane] <= MaxSupplied
    <3> SUFFICES ASSUME NEW lane \in Lanes PROVE supplied'[lane] + input_count'[lane] <= MaxSupplied
      OBVIOUS
    <3>1. /\ supplied'[lane] = supplied[lane] + counts[lane] /\ input_count'[lane] = 0
          /\ supplied[lane] + counts[lane] <= MaxSupplied
      BY <1>1 DEF IInv, NumbersOK, call
    <3> QED
      BY <1>2, <3>1, LaneNumbers DEF IInv
  <2> QED
    BY <1>1, <2>1, <2>2 DEF LInv, CallOK, call
<1>5. RunsOK' /\ BatchOK'
  BY <1>1 DEF LInv, RunsOK, Short, Switches, IInv, BatchInRange, BatchOK, call
<1>6. PlacesOK'
  <2> SUFFICES ASSUME NEW lane \in Lanes
               PROVE  poison[lane] = "no" /\ time'[lane] >= EarliestTime * Ticks
    BY <1>1 DEF PlacesOK, call
  <2>1. moved(lane) \in Int
    BY <1>2, LaneNumbers, ConstantsFacts DEF IInv
  <2>2. time'[lane] = Max({moved(lane), earliest})
    BY <1>1a
  <2>3. poison[lane] = "no"
    BY <1>1 DEF LInv, PlacesOK
  <2> HIDE DEF moved
  <2> QED
    BY <2>1, <2>2, <2>3, EarliestKept
<1> QED
  BY <1>3, <1>4, <1>5, <1>6 DEF LInv

(* A fresh lane.                                                           *)
LEMMA InitiallyFacts ==
  ASSUME NEW lane \in Lanes
  PROVE  /\ Initially(lane).ted \in Locks /\ Short(Initially(lane).ted)
         /\ Run(Initially(lane).ted) = 0
         /\ Initially(lane).ted.mueller_muller = StartsMuellerMuller
         /\ Initially(lane).history \in [0 .. HistoryLength - 1 -> Int]
         /\ Initially(lane).time = Ticks /\ Initially(lane).omega = Omega
<1>1. Initially(lane).ted = [mueller_muller |-> StartsMuellerMuller, lock_run |-> 0,
                             unlock_run |-> 0]
  BY DEF Initially
<1>2. Initially(lane).ted \in Locks /\ Run(Initially(lane).ted) = 0
  BY <1>1, SizesFacts DEF Locks, Run
<1>3. Hold(Initially(lane).ted) \in Nat
  BY <1>2, HoldFacts
<1>4. Initially(lane).history \in [0 .. HistoryLength - 1 -> Int]
  BY DEF Initially, Silence
<1> QED
  BY <1>1, <1>2, <1>3, <1>4 DEF Initially, Short, Switches

LEMMA EarliestIsEarly == Ticks >= EarliestTime * Ticks
BY TicksFacts, ConstantsFacts

LEMMA ResetKeepsLInv ==
  ASSUME IInv, LInv, Reset
  PROVE  LInv'
<1>1. /\ stage = "idle" /\ UNCHANGED <<symbol, poison, seam, stage, input_count, room, batch>>
      /\ time' = [lane \in Lanes |-> Initially(lane).time]
      /\ ted' = [lane \in Lanes |-> Initially(lane).ted]
      /\ history' = [lane \in Lanes |-> Initially(lane).history]
      /\ have_previous' = [lane \in Lanes |-> FALSE] /\ symbols' = [lane \in Lanes |-> 0]
      /\ supplied' = [lane \in Lanes |-> 0] /\ truncated' = [lane \in Lanes |-> FALSE]
  BY DEF Reset
<1>2. LoopsOK' /\ RunsOK'
  <2>1. ted' \in [Lanes -> Locks] /\ \A lane \in Lanes : Short(ted'[lane])
    BY <1>1, InitiallyFacts
  <2>2. LoopsOK'
    BY <1>1, <2>1 DEF LInv, LoopsOK
  <2>3. RunsOK'
    BY <2>1 DEF RunsOK, Short, Switches
  <2> QED
    BY <2>2, <2>3
<1>3. CallOK'
  <2>1. \A lane \in Lanes : supplied'[lane] + input_count'[lane] <= MaxSupplied
    BY <1>1, SizesFacts DEF IInv, NumbersOK
  <2>2. history' \in [Lanes -> [0 .. HistoryLength - 1 -> Int]]
    BY <1>1, InitiallyFacts
  <2> QED
    BY <1>1, <2>1, <2>2 DEF LInv, CallOK
<1>4. BatchOK' /\ PlacesOK'
  <2>1. BatchOK'
    BY <1>1 DEF IInv, BatchInRange, BatchOK
  <2>2. \A lane \in Lanes : time'[lane] = Ticks
    BY <1>1, InitiallyFacts
  <2>3. PlacesOK'
    BY <1>1, <2>2, EarliestIsEarly DEF LInv, PlacesOK
  <2> QED
    BY <2>1, <2>3
<1> QED
  BY <1>2, <1>3, <1>4 DEF LInv

LEMMA InitiallyLInv == Init => LInv
<1> SUFFICES ASSUME Init PROVE LInv
  OBVIOUS
<1>1. /\ stage = "idle" /\ batch = NoBatch
      /\ time = [lane \in Lanes |-> Initially(lane).time]
      /\ ted = [lane \in Lanes |-> Initially(lane).ted]
      /\ history = [lane \in Lanes |-> Initially(lane).history]
      /\ poison = [lane \in Lanes |-> "no"] /\ have_previous = [lane \in Lanes |-> FALSE]
      /\ symbols = [lane \in Lanes |-> 0] /\ supplied = [lane \in Lanes |-> 0]
      /\ input_count = [lane \in Lanes |-> 0] /\ room = [lane \in Lanes |-> 0]
      /\ truncated = [lane \in Lanes |-> FALSE]
  BY DEF Init
<1>2. LoopsOK /\ RunsOK
  BY <1>1, InitiallyFacts DEF LoopsOK, RunsOK
<1>3. CallOK
  BY <1>1, InitiallyFacts, SizesFacts DEF CallOK
<1>4. BatchOK /\ PlacesOK
  BY <1>1, InitiallyFacts, EarliestIsEarly DEF BatchOK, PlacesOK
<1> QED
  BY <1>2, <1>3, <1>4 DEF LInv

LEMMA NextKeepsLInv == IInv /\ LInv /\ [Next]_vars => LInv'
<1> SUFFICES ASSUME IInv, LInv, [Next]_vars
             PROVE  LInv'
  OBVIOUS
<1>1. CASE GenericStep \/ MaskedStep
  BY <1>1, LoopStepKeepsLInv
<1>2. CASE BatchBegin
  BY <1>2, BatchBeginKeepsLInv
<1>3. CASE BatchStep
  BY <1>3, BatchStepKeepsLInv
<1>4. CASE SeamDone
  BY <1>4, SeamDoneKeepsLInv
<1>5. CASE Return
  BY <1>5, ReturnKeepsLInv
<1>6. CASE Reset
  BY <1>6, ResetKeepsLInv
<1>7. CASE \E counts \in [Lanes -> Counts], capacities \in [Lanes -> Capacities] :
             Execute(counts, capacities)
  BY <1>7, ExecuteKeepsLInv
<1>8. CASE \E counts \in [Lanes -> Counts] : Skip(counts)
  BY <1>8, SkipKeepsLInv
<1>9. CASE UNCHANGED vars
  BY <1>9 DEF LInv, LoopsOK, CallOK, RunsOK, Short, Switches, BatchOK, Done, PlacesOK, Unclamped,
              MayProduce, Works, Spent, vars, loops, kept, call
<1> QED
  BY <1>1, <1>2, <1>3, <1>4, <1>5, <1>6, <1>7, <1>8, <1>9 DEF Next

LEMMA AlsoInductive == Spec => []LInv
<1> QED
  BY InitiallyLInv, NextKeepsLInv, Inductive, PTL DEF Spec

-----------------------------------------------------------------------------
(* No lane falls behind the samples that are kept for it.                  *)

TimesOK == \A lane \in Lanes : time[lane] >= Oldest * Ticks

(* A loop only moves forward; an error that is not finite leaves the time  *)
(* to poison.                                                              *)
LEMMA LoopsKeepTimes ==
  ASSUME IInv, LInv, TimesOK, NEW lanes \in SUBSET Lanes, NEW outcome \in Steps(lanes),
         Advance(outcome), UNCHANGED stage
  PROVE  TimesOK'
<1> SUFFICES ASSUME NEW lane \in Lanes PROVE time'[lane] >= Oldest' * Ticks
  BY DEF TimesOK
<1> DEFINE oldest == Oldest * Ticks
<1>1. time[lane] \in Int /\ oldest \in Int /\ time[lane] >= oldest /\ Oldest' * Ticks = oldest
  BY LaneNumbers, ConstantsFacts DEF IInv, TimesOK, Oldest
<1> HIDE DEF oldest
<1>2. CASE lane \in lanes
  <2>1. outcome[lane] \in Outcomes(lane) /\ Moved(lane, outcome[lane])
    BY <1>2, AdvanceLane DEF IInv, LInv
  <2>2. CASE poison'[lane] = "no"
    <3>1. time'[lane] \in Int /\ time'[lane] > time[lane]
      BY <2>1, <2>2, StepForward DEF IInv
    <3> QED
      BY <1>1, <3>1
  <2>3. CASE poison'[lane] # "no"
    BY <1>1, <2>1, <2>3 DEF Moved
  <2> QED
    BY <2>2, <2>3
<1>3. CASE lane \notin lanes
  BY <1>1, <1>3, AdvanceLane DEF IInv, LInv, StayedPut
<1> QED
  BY <1>2, <1>3

(* Both passes count from their own first sample.                          *)
LEMMA PassesKeepTimes ==
  ASSUME IInv, LInv, TimesOK, NEW lane \in Lanes,
         \/ stage = "idle" /\ stage' = "seam" /\ Forward(HistoryLength * Ticks)
         \/ stage = "seam" /\ stage' = "block" /\ Forward(-(HistoryLength * Ticks))
  PROVE  time'[lane] >= Oldest' * Ticks
<1> DEFINE t == time[lane]
           e == EarliestTime * Ticks
           n == HistoryLength * Ticks
           b == (HistoryLength + EarliestTime) * Ticks
<1>1. t \in Int /\ e \in Int /\ n \in Int /\ b = n + e
  BY LaneNumbers, ConstantsFacts DEF IInv
<1>2. CASE stage = "idle" /\ stage' = "seam" /\ Forward(HistoryLength * Ticks)
  <2>1. t >= e /\ time'[lane] = t + n /\ Oldest' * Ticks = b
    BY <1>2 DEF TimesOK, Oldest, Forward
  <2> HIDE DEF t, e, n, b
  <2> QED
    BY <1>1, <2>1
<1>3. CASE stage = "seam" /\ stage' = "block" /\ Forward(-(HistoryLength * Ticks))
  <2>1. t >= b /\ time'[lane] = t + (-n) /\ Oldest' * Ticks = e
    BY <1>3 DEF TimesOK, Oldest, Forward
  <2> HIDE DEF t, e, n, b
  <2> QED
    BY <1>1, <2>1
<1> QED
  BY <1>2, <1>3

(* Between calls PlacesOK already says it.                                 *)
LEMMA IdleTimes == ASSUME LInv, stage = "idle" PROVE TimesOK
BY DEF LInv, PlacesOK, TimesOK, Oldest

LEMMA NextKeepsTimes == IInv /\ LInv /\ TimesOK /\ [Next]_vars => TimesOK'
<1> SUFFICES ASSUME IInv, LInv, TimesOK, [Next]_vars
             PROVE  TimesOK'
  OBVIOUS
<1>1. LInv'
  BY NextKeepsLInv
<1>2. CASE GenericStep
  <2>1. PICK lane \in Active : \E outcome \in Steps({lane}) : Step(outcome)
    BY <1>2 DEF GenericStep
  <2>2. PICK outcome \in Steps({lane}) : Step(outcome)
    BY <2>1
  <2>3. Advance(outcome) /\ UNCHANGED stage /\ {lane} \in SUBSET Lanes
    BY <2>2 DEF Step, Active
  <2> QED
    BY <2>3, LoopsKeepTimes
<1>3. CASE MaskedStep
  <2>1. PICK outcome \in Steps(Active) : Step(outcome)
    BY <1>3 DEF MaskedStep
  <2>2. Advance(outcome) /\ UNCHANGED stage /\ Active \in SUBSET Lanes
    BY <2>1 DEF Step, Active
  <2> QED
    BY <2>2, LoopsKeepTimes
<1>4. CASE BatchStep
  <2>1. PICK outcome \in Steps(Lanes) : Advance(outcome)
    BY <1>4 DEF BatchStep
  <2>2. UNCHANGED stage
    BY <1>4 DEF BatchStep
  <2> QED
    BY <2>1, <2>2, LoopsKeepTimes
<1>5. CASE \E counts \in [Lanes -> Counts], capacities \in [Lanes -> Capacities] :
             Execute(counts, capacities)
  <2>1. stage = "idle" /\ stage' = "seam" /\ Forward(HistoryLength * Ticks)
    BY <1>5 DEF Execute
  <2> QED
    BY <2>1, PassesKeepTimes DEF TimesOK
<1>6. CASE SeamDone
  <2>1. stage = "seam" /\ stage' = "block" /\ Forward(-(HistoryLength * Ticks))
    BY <1>6 DEF SeamDone
  <2> QED
    BY <2>1, PassesKeepTimes DEF TimesOK
<1>7. CASE Return \/ Reset \/ \E counts \in [Lanes -> Counts] : Skip(counts)
  <2>1. stage' = "idle"
    BY <1>7 DEF Return, Reset, Skip, call
  <2> QED
    BY <1>1, <2>1 DEF LInv, PlacesOK, TimesOK, Oldest
<1>8. CASE BatchBegin \/ UNCHANGED vars
  <2>1. UNCHANGED <<time, stage>>
    BY <1>8 DEF BatchBegin, vars, loops, call
  <2> QED
    BY <2>1 DEF TimesOK, Oldest
<1> QED
  BY <1>2, <1>3, <1>4, <1>5, <1>6, <1>7, <1>8 DEF Next

LEMMA TimesInductive == Spec => []TimesOK
<1>1. Init => TimesOK
  BY InitiallyLInv, IdleTimes DEF Init
<1> QED
  BY <1>1, NextKeepsTimes, Inductive, AlsoInductive, PTL DEF Spec

(* Every lane's numbers stay in their ranges: its next symbol never lies   *)
(* before the samples kept for it, omega stays in its bounds, and what is  *)
(* kept is among the samples supplied.                                     *)
THEOREM TypeCorrect == Spec => []TypeOK
<1>1. IInv /\ LInv /\ TimesOK => TypeOK
  <2> SUFFICES ASSUME IInv, LInv, TimesOK PROVE TypeOK
    OBVIOUS
  <2>1. supplied \in [Lanes -> 0 .. MaxSupplied]
    <3> SUFFICES ASSUME NEW lane \in Lanes PROVE supplied[lane] \in 0 .. MaxSupplied
      BY DEF IInv, NumbersOK
    <3>1. supplied[lane] + input_count[lane] <= MaxSupplied
      BY DEF LInv, CallOK
    <3> QED
      BY <3>1, LaneNumbers, SizesFacts DEF IInv
  <2>2. history \in [Lanes -> [0 .. HistoryLength - 1 -> {Silence} \cup 0 .. MaxSupplied - 1]]
    <3>1. history \in [Lanes -> [0 .. HistoryLength - 1 -> Int]]
      BY DEF LInv, CallOK
    <3> SUFFICES ASSUME NEW lane \in Lanes, NEW i \in 0 .. HistoryLength - 1
                 PROVE  history[lane][i] \in {Silence} \cup 0 .. MaxSupplied - 1
      BY <3>1
    <3>2. history[lane][i] = LET n == supplied[lane] - HistoryLength + i
                             IN  IF n < 0 THEN Silence ELSE n
      BY DEF IInv, HistoryIsStream
    <3>3. supplied[lane] \in 0 .. MaxSupplied
      BY <2>1
    <3> QED
      BY <3>2, <3>3, ConstantsFacts, SizesFacts
  <2> QED
    BY <2>1, <2>2 DEF TypeOK, TimesOK, IInv, LInv, NumbersOK, LoopsOK, CallOK
<1> QED
  BY Inductive, AlsoInductive, TimesInductive, <1>1, PTL

(* SymbolSync4_avx2: a batch loads only inside the data, writes only what  *)
(* the output buffer of every lane has room for, and logs it in its array. *)
THEOREM BatchInsideCorrect == Spec => []BatchStaysInside
<1>1. IInv /\ LInv => BatchStaysInside
  <2> SUFFICES ASSUME IInv, LInv, batch # NoBatch, NEW lane \in Lanes
               PROVE  /\ StencilInside(lane, Index(2 * time[lane]))
                      /\ StencilInside(lane, Index(2 * (time[lane] + omega[lane])))
                      /\ StencilInside(lane, Index(2 * time[lane] - omega[lane]))
                      /\ StencilInside(lane, Index(2 * time[lane] + omega[lane]))
                      /\ Len(batch.log[lane]) < BatchSteps /\ Len(batch.log[lane]) < room[lane]
    BY DEF BatchStaysInside
  <2> DEFINE done == Len(batch.log[lane])
             steps == batch.steps
  <2>1. done = Done /\ Done < steps /\ steps <= room[lane]
    BY DEF LInv, BatchOK
  <2>2. steps \in 1 .. BatchSteps /\ done \in Nat
    BY DEF LInv, BatchOK, Batches
  <2>3. room[lane] \in Nat
    BY DEF LInv, CallOK
  <2>4. done < BatchSteps /\ done < room[lane]
    <3> HIDE DEF done, steps
    <3> QED
      BY <2>1, <2>2, <2>3 DEF BatchSteps
  <2> QED
    BY <2>4, BatchReads
<1> QED
  BY Inductive, AlsoInductive, <1>1, PTL

(* BatchBudget: whatever the symbols of a batch have left say, no lane can *)
(* reach its hold before the batch ends, so that lock tracking replayed    *)
(* after it switches nothing that a symbol of the batch depended on.       *)
THEOREM ReplayCorrect == Spec => []ReplayIsLate
<1>1. IInv /\ LInv => ReplayIsLate
  <2> SUFFICES ASSUME LInv, batch # NoBatch, NEW lane \in Lanes, NEW lock,
                      lock = Replayed(ted[lane], symbols[lane], batch.log[lane]),
                      AutoTed, lock.mueller_muller => Fallback, Hold(lock) # 0
               PROVE  Run(lock) + batch.steps - Len(batch.log[lane]) < Hold(lock)
    BY DEF ReplayIsLate
  <2> DEFINE was == ted[lane]
             n == Len(batch.log[lane])
             steps == batch.steps
  <2>1. /\ was \in Locks /\ symbols[lane] \in Nat /\ batch.log[lane] \in Seq(BOOLEAN)
    BY DEF LInv, LoopsOK, BatchOK, Batches
  <2>2. lock \in Locks /\ lock.mueller_muller = was.mueller_muller /\ Run(lock) <= Run(was) + n
    BY <2>1, ReplayedBounds
  <2>3. n \in Nat /\ steps \in 1 .. BatchSteps
    BY <2>1 DEF LInv, BatchOK, Batches
  <2>4. Switches(was) => Run(was) + steps < Hold(was)
    BY DEF LInv, BatchOK
  <2> HIDE DEF was, n, steps
  <2>5. Hold(lock) = Hold(was) /\ Hold(was) \in Nat /\ Run(lock) \in Nat /\ Run(was) \in Nat
    BY <2>1, <2>2, HoldFacts, RunFacts DEF Hold
  <2>6. Switches(was)
    BY <2>2, <2>5 DEF Switches
  <2>7. steps \in Nat
    BY <2>3 DEF BatchSteps
  <2>8. Run(lock) + steps - n < Hold(lock)
    BY <2>2, <2>3, <2>4, <2>5, <2>6, <2>7
  <2> QED
    BY <2>8 DEF n, steps
<1> QED
  BY Inductive, AlsoInductive, <1>1, PTL

-----------------------------------------------------------------------------
(* Every lane is the timing loop of SymbolLane.                            *)

(* Positions.                                                              *)

LEMMA QuotientUnique ==
  ASSUME NEW d \in Nat \ {0}, NEW q \in Int, NEW r \in 0 .. d - 1
  PROVE  (q * d + r) \div d = q
<1> DEFINE m == q * d + r
           p == m \div d
<1>1. m \in Int /\ p \in Int /\ p * d <= m /\ m < p * d + d
  OBVIOUS
<1>2. q * d <= m /\ m < q * d + d /\ q * d \in Int
  OBVIOUS
<1> HIDE DEF p, m
<1>3. ~(p + 1 <= q)
  <2> SUFFICES ASSUME p + 1 <= q PROVE FALSE
    OBVIOUS
  <2>1. (p + 1) * d <= q * d /\ (p + 1) * d = p * d + d
    BY <1>1, Scaled
  <2> QED
    BY <1>1, <1>2, <2>1
<1>4. ~(q + 1 <= p)
  <2> SUFFICES ASSUME q + 1 <= p PROVE FALSE
    OBVIOUS
  <2>1. (q + 1) * d <= p * d /\ (q + 1) * d = q * d + d
    BY <1>1, Scaled
  <2>2. p * d \in Int
    BY <1>1
  <2> QED
    BY <1>1, <1>2, <2>1, <2>2
<1>5. p = q
  BY <1>1, <1>3, <1>4
<1> QED
  BY <1>5 DEF p, m

(* Whole samples come out of a quotient.                                   *)
LEMMA IndexShift ==
  ASSUME NEW origin \in Int, NEW halves \in Int
  PROVE  (2 * (origin * Ticks) + halves) \div (2 * Ticks) = origin + Index(halves)
<1> DEFINE d == 2 * Ticks
           q == halves \div d
           r == halves % d
           moved == 2 * (origin * Ticks) + halves
<1>1. d \in Nat \ {0} /\ Ticks \in Nat
  BY ConstantsFacts
<1>2. q \in Int /\ r \in 0 .. d - 1 /\ halves = q * d + r
  <2> HIDE DEF d
  <2> QED
    BY <1>1
<1>3. origin * d = 2 * (origin * Ticks) /\ (origin + q) * d = origin * d + q * d
  <2>1. origin * d = 2 * (origin * Ticks)
    BY <1>1
  <2> HIDE DEF q, d
  <2> QED
    BY <1>1, <1>2, <2>1
<1>4. moved = (origin + q) * d + r /\ origin + q \in Int
  <2>1. origin * d \in Int /\ q * d \in Int
    BY <1>1, <1>2
  <2> HIDE DEF q, r, d
  <2> QED
    BY <1>2, <1>3, <2>1
<1>5. ((origin + q) * d + r) \div d = origin + q
  <2> HIDE DEF q, r, d
  <2> QED
    BY <1>1, <1>2, <1>4, QuotientUnique
<1> HIDE DEF moved
<1>6. moved \div d = origin + q
  BY <1>4, <1>5
<1> QED
  BY <1>6 DEF moved, Index

LEMMA LengthFacts ==
  ASSUME IInv, NEW lane \in Lanes
  PROVE  Length(lane) \in Nat /\ Limit(lane) \in Int /\ Origin(lane) \in Int
<1>1. HistoryLength \in Nat /\ input_count[lane] \in Nat /\ supplied[lane] \in Nat /\ Ticks \in Nat
  BY ConstantsFacts, LaneNumbers DEF IInv
<1>2. SeamHead(lane) \in Nat
  BY <1>1, SmallerFacts DEF SeamHead
<1>3. Length(lane) \in Nat
  BY <1>1, <1>2 DEF Length
<1> QED
  BY <1>1, <1>3 DEF Limit, Origin

(* A segment is a piece of the stream.                                     *)
LEMMA DataIsStream ==
  ASSUME IInv, stage # "idle", NEW lane \in Lanes, Works(lane), NEW i \in 0 .. Length(lane) - 1
  PROVE  Data(lane, i) = Lane(lane)!Sample(Origin(lane) + i)
<1>1. HistoryLength \in Nat /\ input_count[lane] \in Nat /\ supplied[lane] \in Nat
  BY ConstantsFacts, LaneNumbers DEF IInv
<1>2. CASE stage = "seam"
  <2>1. /\ Data(lane, i) = seam[lane][i] /\ Origin(lane) = supplied[lane] - HistoryLength
        /\ i \in 0 .. HistoryLength + SeamHead(lane) - 1
    <3>1. InSeam(lane)
      BY <1>2 DEF InSeam
    <3>2. Length(lane) = HistoryLength + SeamHead(lane)
      BY <3>1 DEF Length
    <3>3. Data(lane, i) = seam[lane][i]
      BY <3>1 DEF Data
    <3>4. SeamHead(lane) \in Int
      BY <1>1, SmallerFacts DEF SeamHead
    <3>5. i \in 0 .. HistoryLength + SeamHead(lane) - 1
      BY <1>1, <3>2, <3>4
    <3> QED
      BY <1>2, <3>3, <3>5 DEF Origin
  <2>2. seam[lane][i] = IF i < HistoryLength THEN history[lane][i]
                        ELSE Input(lane, i - HistoryLength)
    BY <2>1 DEF IInv, SeamIsStream
  <2>3. CASE i < HistoryLength
    <3>1. i \in 0 .. HistoryLength - 1
      BY <1>1, <2>1, <2>3
    <3>2. history[lane][i] = LET n == supplied[lane] - HistoryLength + i
                             IN  IF n < 0 THEN Silence ELSE n
      BY <3>1 DEF IInv, HistoryIsStream
    <3> QED
      BY <2>1, <2>2, <2>3, <3>2 DEF Lane!Sample, Lane!Silence, Silence
  <2>4. CASE ~(i < HistoryLength)
    <3>1. Data(lane, i) = supplied[lane] + (i - HistoryLength)
      BY <2>1, <2>2, <2>4 DEF Input
    <3>2. supplied[lane] + (i - HistoryLength) = supplied[lane] - HistoryLength + i
          /\ ~(supplied[lane] - HistoryLength + i < 0)
      BY <1>1, <2>4
    <3> QED
      BY <2>1, <3>1, <3>2 DEF Lane!Sample
  <2> QED
    BY <2>3, <2>4
<1>3. CASE stage # "seam"
  <2>1. input_count[lane] > HistoryLength
    BY <1>3 DEF Works
  <2>2. ~InSeam(lane)
    BY <1>1, <1>3, <2>1 DEF InSeam
  <2>3. Data(lane, i) = supplied[lane] + i /\ Origin(lane) = supplied[lane]
    BY <1>3, <2>2 DEF Data, Origin, Input
  <2>4. ~(supplied[lane] + i < 0)
    <3>1. i \in Nat
      BY LengthFacts
    <3> QED
      BY <1>1, <3>1
  <2> QED
    BY <2>3, <2>4 DEF Lane!Sample
<1> QED
  BY <1>2, <1>3

(* A stencil that needs no clamping holds the four samples around its      *)
(* position in the stream.                                                 *)
LEMMA StencilIsAround ==
  ASSUME IInv, stage # "idle", NEW lane \in Lanes, Works(lane), NEW halves \in Int,
         Index(halves) >= 1, Index(halves) + 2 < Length(lane)
  PROVE  Stencil(lane, Index(halves))
           = Lane(lane)!Around(2 * (Origin(lane) * Ticks) + halves)
<1> DEFINE index == Index(halves)
           origin == Origin(lane)
<1>1. index \in Int /\ origin \in Int /\ Length(lane) \in Nat
  BY IndexType, LengthFacts
<1>2. (2 * (origin * Ticks) + halves) \div (2 * Ticks) = origin + index
  BY <1>1, IndexShift
<1>3. Lane(lane)!Around(2 * (Origin(lane) * Ticks) + halves)
        = [tap \in 0 .. 3 |-> Lane(lane)!Sample((origin + index) - 1 + tap)]
  BY <1>2 DEF Lane!Around
<1>4. Stencil(lane, Index(halves)) = [tap \in 0 .. 3 |-> Data(lane, index - 1 + tap)]
  BY DEF Stencil
<1>5. ASSUME NEW tap \in 0 .. 3
      PROVE  Data(lane, index - 1 + tap) = Lane(lane)!Sample((origin + index) - 1 + tap)
  <2> HIDE DEF index
  <2>1. index - 1 + tap \in 0 .. Length(lane) - 1
    BY <1>1 DEF index
  <2>2. origin + (index - 1 + tap) = (origin + index) - 1 + tap
    BY <1>1
  <2>3. Data(lane, index - 1 + tap) = Lane(lane)!Sample(origin + (index - 1 + tap))
    BY <2>1, DataIsStream
  <2> QED
    BY <2>2, <2>3
<1> HIDE DEF index, origin
<1> QED
  BY <1>3, <1>4, <1>5

(* A lane that can step has the four samples of its symbol.                *)
LEMMA SymbolInside ==
  ASSUME IInv, LInv, NEW lane \in Lanes, InRange(lane), room[lane] > 0, poison[lane] = "no"
  PROVE  /\ stage # "idle" /\ Works(lane)
         /\ \A halves \in {2 * time[lane], 2 * time[lane] - omega[lane]} :
              halves \in Int /\ Index(halves) >= 1 /\ Index(halves) + 2 < Length(lane)
<1> DEFINE t == time[lane]
           o == omega[lane]
           length == Length(lane)
<1>1. /\ t \in Int /\ o \in Int /\ OmegaMin <= o /\ o <= OmegaMax /\ length \in Int
      /\ Ticks \in Nat /\ Ticks > 0 /\ OmegaMin \in Nat /\ OmegaMax \in Int
  BY ConstantsFacts, LaneNumbers, LengthFacts DEF IInv
<1>2. Works(lane) /\ t < (length - 2) * Ticks
  BY DEF InRange, Limit
<1>3. stage # "idle"
  BY <1>2, ConstantsFacts DEF Works, IInv, NumbersOK
<1>4. 2 * t - OmegaMax >= 2 * Ticks
  <2>1. MayProduce(lane)
    BY <1>2 DEF MayProduce
  <2> QED
    BY <1>3, <2>1 DEF LInv, PlacesOK, Unclamped
<1> HIDE DEF t, o, length
<1>5. ASSUME NEW halves \in {2 * t, 2 * t - o}
      PROVE  halves \in Int /\ Index(halves) >= 1 /\ Index(halves) + 2 < length
  <2>1. (length - 2) * Ticks \in Int /\ (length - 2) * (2 * Ticks) = 2 * ((length - 2) * Ticks)
    BY <1>1
  <2>2. halves \in Int /\ halves >= 2 * Ticks /\ halves < 2 * ((length - 2) * Ticks)
    BY <1>1, <1>2, <1>4, <2>1
  <2> QED
    BY <1>1, <2>1, <2>2, IndexFacts
<1> QED
  BY <1>2, <1>3, <1>5 DEF t, o, length

(* The lock tracking of a lane, as far as it has been replayed.            *)
LEMMA LockFacts ==
  ASSUME LInv, NEW lane \in Lanes
  PROVE  /\ Log(lane) \in Seq(BOOLEAN) /\ LockOf(lane) \in Locks
         /\ LockOf(lane).mueller_muller = ted[lane].mueller_muller
<1>1. Log(lane) \in Seq(BOOLEAN)
  <2>1. CASE batch = NoBatch
    BY <2>1 DEF Log
  <2>2. CASE batch # NoBatch
    BY <2>2 DEF LInv, BatchOK, Batches, Log
  <2> QED
    BY <2>1, <2>2
<1>2. ted[lane] \in Locks /\ symbols[lane] \in Nat
  BY DEF LInv, LoopsOK
<1>3. CASE AutoTed
  BY <1>1, <1>2, <1>3, ReplayedBounds DEF LockOf
<1>4. CASE ~AutoTed
  BY <1>1, <1>2, <1>4 DEF LockOf
<1> QED
  BY <1>3, <1>4

(* The symbol a lane makes of stencils loaded at its exact positions.      *)
Exact(lane) ==
  [at  |-> Stencil(lane, Index(2 * time[lane])),
   mid |-> Mid(lane, Stencil(lane, Index(2 * time[lane] - omega[lane])))]

LEMMA ExactIsSymbol ==
  ASSUME IInv, LInv, NEW lane \in Lanes, InRange(lane), room[lane] > 0, poison[lane] = "no"
  PROVE  Exact(lane) = Lane(lane)!Symbol
<1> DEFINE origin == Origin(lane)
           t == time[lane]
           o == omega[lane]
           base == 2 * (origin * Ticks)
           clock == origin * Ticks + t
<1>1. t \in Int /\ o \in Int /\ origin \in Int /\ origin * Ticks \in Int
  BY ConstantsFacts, LaneNumbers, LengthFacts DEF IInv
<1>2. /\ Stencil(lane, Index(2 * t)) = Lane(lane)!Around(base + 2 * t)
      /\ Stencil(lane, Index(2 * t - o)) = Lane(lane)!Around(base + (2 * t - o))
  <2>1. /\ stage # "idle" /\ Works(lane)
        /\ \A halves \in {2 * t, 2 * t - o} :
             halves \in Int /\ Index(halves) >= 1 /\ Index(halves) + 2 < Length(lane)
    BY SymbolInside
  <2> QED
    BY <2>1, StencilIsAround
<1>3. base + 2 * t = 2 * clock /\ base + (2 * t - o) = 2 * clock - o
  <2> DEFINE place == origin * Ticks
  <2>1. place \in Int
    BY <1>1
  <2> HIDE DEF place, t, o
  <2> QED
    BY <1>1, <2>1
<1>4. Exact(lane) = [at  |-> Lane(lane)!Around(2 * clock),
                     mid |-> IF ted[lane].mueller_muller THEN "none"
                             ELSE Lane(lane)!Around(2 * clock - o)]
  <2> HIDE DEF base, clock
  <2> QED
    BY <1>2, <1>3 DEF Exact, Mid, NoStencil
<1>5. LockOf(lane).mueller_muller = ted[lane].mueller_muller
  BY LockFacts
<1> QED
  BY <1>4, <1>5 DEF Lane!Symbol

LEMMA InterpolatedIsSymbol ==
  ASSUME IInv, LInv, NEW lane \in Lanes, InRange(lane), room[lane] > 0
  PROVE  Interpolated(lane) = IF poison[lane] = "behind" THEN Lane(lane)!Garbage
                              ELSE Lane(lane)!Symbol
<1>1. CASE poison[lane] = "behind"
  BY <1>1 DEF Interpolated, Garbage, Lane!Garbage
<1>2. CASE poison[lane] # "behind"
  <2>1. poison[lane] = "no"
    BY <1>2 DEF InRange
  <2>2. ASSUME NEW halves \in {2 * time[lane], 2 * time[lane] - omega[lane]}
        PROVE  Within(Index(halves), lane) = Index(halves)
    <3> DEFINE index == Index(halves)
               length == Length(lane)
    <3>1. index \in Int /\ index >= 1 /\ index + 2 < length /\ length \in Int
      BY <2>1, SymbolInside, IndexType, LengthFacts
    <3>2. Within(index, lane) = Min({Max({index, 1}), length - 3})
      BY DEF Within
    <3> HIDE DEF index, length
    <3>3. Max({index, 1}) = index
      BY <3>1, LargerFacts
    <3>4. index <= length - 3 /\ length - 3 \in Int
      BY <3>1
    <3>5. Min({index, length - 3}) = index
      BY <3>1, <3>4, SmallerFacts
    <3> QED
      BY <3>2, <3>3, <3>5 DEF index
  <2>3. Interpolated(lane) = Exact(lane)
    BY <1>2, <2>2 DEF Interpolated, Exact
  <2> QED
    BY <1>2, <2>1, <2>3, ExactIsSymbol
<1> QED
  BY <1>1, <1>2

(* A batch makes its symbols of the exact positions, loaded ahead or not.  *)
LEMMA SpeculatedIsExact ==
  ASSUME NEW lane \in Lanes
  PROVE  Speculated(lane) = Exact(lane)
<1>1. CASE Outside
  BY <1>1 DEF Speculated, Exact
<1>2. CASE ~Outside
  <2>1. Index(2 * time[lane]) = batch.base[lane]
    BY <1>2 DEF Outside
  <2>2. CASE ted[lane].mueller_muller
    BY <1>2, <2>1, <2>2 DEF Speculated, Exact, Mid
  <2>3. CASE ~ted[lane].mueller_muller
    <3>1. Index(2 * time[lane] - omega[lane]) = batch.mid_base[lane]
      BY <1>2, <2>3 DEF Outside
    <3> QED
      BY <1>2, <2>1, <3>1 DEF Speculated, Exact
  <2> QED
    BY <2>2, <2>3
<1> QED
  BY <1>1, <1>2

(* A lane that can step has a symbol left in its samples.                  *)
LEMMA InRangeIsPending ==
  ASSUME IInv, NEW lane \in Lanes, InRange(lane)
  PROVE  Lane(lane)!Pending
<1>1. CASE poison[lane] = "behind"
  BY <1>1 DEF Lane!Pending
<1>2. CASE poison[lane] # "behind"
  <2> DEFINE t == time[lane]
             n == HistoryLength
             c == input_count[lane]
             s == supplied[lane]
  <2>1. /\ t \in Int /\ n \in Nat /\ c \in Nat /\ s \in Nat /\ Ticks \in Nat
        /\ c * Ticks \in Int /\ n * Ticks \in Int /\ s * Ticks \in Int
    BY ConstantsFacts, LaneNumbers DEF IInv
  <2>2. poison[lane] = "no" /\ t < Limit(lane) /\ Works(lane)
    BY <1>2 DEF InRange
  <2>3. (s + c - 2) * Ticks = s * Ticks + c * Ticks - 2 * Ticks
        /\ (s - n) * Ticks = s * Ticks - n * Ticks /\ (c - 2) * Ticks = c * Ticks - 2 * Ticks
    <3> HIDE DEF s, c, n
    <3> QED
      BY <2>1
  <2>4. Origin(lane) * Ticks + t < (s + c - 2) * Ticks
    <3>1. CASE stage = "seam"
      <4>1. Origin(lane) = s - n
        BY <3>1 DEF Origin
      <4>2. Limit(lane) = n * Ticks + (IF c <= n THEN c * Ticks ELSE n * Ticks) - 2 * Ticks
        BY <3>1, SeamLimit
      <4>3. c > n => n * Ticks <= c * Ticks
        <5> HIDE DEF c, n
        <5> QED
          BY <2>1, Scaled
      <4> HIDE DEF t, s, c, n
      <4> QED
        BY <2>1, <2>2, <2>3, <4>1, <4>2, <4>3
    <3>2. CASE stage # "seam"
      <4>1. Origin(lane) = s
        BY <3>2 DEF Origin
      <4>2. ~(c <= n)
        BY <2>1, <2>2, <3>2 DEF Works
      <4>3. Limit(lane) = (c - 2) * Ticks
        BY <3>2, <4>2 DEF Limit, Length, InSeam
      <4> HIDE DEF t, s, c, n
      <4> QED
        BY <2>1, <2>2, <2>3, <4>1, <4>3
    <3> QED
      BY <3>1, <3>2
  <2>5. Origin(lane) * Ticks + t < Lane(lane)!Limit
    <3>1. Lane(lane)!Limit = ((s + c) - 2) * Ticks
      BY DEF Lane!Limit
    <3>2. (s + c) - 2 = s + c - 2
      BY <2>1
    <3> HIDE DEF s, c
    <3> QED
      BY <2>4, <3>1, <3>2
  <2>6. poison[lane] = "no"
    BY <2>2
  <2> QED
    BY <2>5, <2>6 DEF Lane!Pending
<1> QED
  BY <1>1, <1>2

(* One symbol's worth of lock tracking, as a lane on its own does it.      *)
Watched(lock, count, previous) ==
  /\ AutoTed /\ previous
  /\ IF lock.mueller_muller THEN Fallback ELSE count >= MinSymbols

Tracks(before, count, previous, speaks, after) ==
  LET watched == Watched(before, count, previous)
      same == after.mueller_muller = before.mueller_muller
  IN  \/ ~watched /\ same /\ Run(after) = Run(before)
      \/ watched /\ ~speaks /\ same /\ Run(after) = 0
      \/ watched /\ speaks /\ Run(before) + 1 = Hold(before)
           /\ Run(after) = 0 /\ after.mueller_muller = ~before.mueller_muller
      \/ watched /\ speaks /\ Run(before) + 1 # Hold(before)
           /\ same /\ Run(after) = Run(before) + 1

LEMMA UntrackedTracks ==
  ASSUME NEW lock, NEW count, NEW previous \in BOOLEAN, NEW speaks, ~(AutoTed /\ previous)
  PROVE  Tracks(lock, count, previous, speaks, lock)
BY DEF Tracks, Watched

LEMMA TrackedTracks ==
  ASSUME NEW lock \in Locks, NEW count \in Nat, NEW speaks \in BOOLEAN, AutoTed, Short(lock)
  PROVE  Tracks(lock, count, TRUE, speaks, Tracked(lock, count, speaks))
<1> DEFINE run == IF speaks THEN Run(lock) + 1 ELSE 0
           after == Tracked(lock, count, speaks)
<1> SUFFICES Tracks(lock, count, TRUE, speaks, after)
  OBVIOUS
<1>1. Run(lock) \in Nat /\ Hold(lock) \in Nat
  BY RunFacts, HoldFacts
<1>2. Watched(lock, count, TRUE) <=> Counting(lock, count)
  BY SizesFacts DEF Counting, Watched
<1>3. CASE ~Counting(lock, count)
  <2>1. after = lock
    BY <1>3 DEF Tracked
  <2> HIDE DEF after
  <2> QED
    BY <1>2, <1>3, <2>1 DEF Tracks
<1>4. CASE Counting(lock, count) /\ Hold(lock) # 0 /\ run >= Hold(lock)
  <2>1. after = Switched(lock)
    BY <1>4 DEF Tracked
  <2>2. speaks
    BY <1>1, <1>4
  <2>3. Run(lock) < Hold(lock)
    <3>1. Switches(lock)
      BY <1>4, SizesFacts DEF Switches, Counting
    <3> QED
      BY <3>1 DEF Short
  <2>4. Run(lock) + 1 = Hold(lock)
    <3>1. Run(lock) + 1 >= Hold(lock)
      BY <1>4, <2>2
    <3> QED
      BY <1>1, <2>3, <3>1
  <2>5. Run(after) = 0 /\ after.mueller_muller = ~lock.mueller_muller
    BY <2>1, HoldFacts DEF Switched
  <2> HIDE DEF after, run
  <2> QED
    BY <1>2, <1>4, <2>2, <2>4, <2>5 DEF Tracks
<1>5. CASE Counting(lock, count) /\ ~(Hold(lock) # 0 /\ run >= Hold(lock))
  <2>1. after = WithRun(lock, run)
    BY <1>5 DEF Tracked
  <2>2. run \in Nat
    BY <1>1
  <2>3. Run(after) = run /\ after.mueller_muller = lock.mueller_muller
    <3> HIDE DEF after, run
    <3> QED
      BY <2>1, <2>2, RunFacts
  <2>4. CASE speaks
    <3>1. run = Run(lock) + 1
      BY <2>4
    <3>2. Run(lock) + 1 # Hold(lock)
      BY <1>1, <1>5, <3>1
    <3> HIDE DEF after, run
    <3> QED
      BY <1>2, <1>5, <2>3, <2>4, <3>1, <3>2 DEF Tracks
  <2>5. CASE ~speaks
    <3>1. run = 0
      BY <2>5
    <3> HIDE DEF after, run
    <3> QED
      BY <1>2, <1>5, <2>3, <2>5, <3>1 DEF Tracks
  <2> QED
    BY <2>4, <2>5
<1> QED
  BY <1>3, <1>4, <1>5

(* Replaying does what tracking would have done, short of the hold.        *)
LEMMA ReplayTracks ==
  ASSUME NEW lock \in Locks, NEW was \in Locks, was.mueller_muller = lock.mueller_muller,
         NEW count \in Nat, NEW speaks \in BOOLEAN, AutoTed,
         Switches(lock) => Run(was) + 1 < Hold(lock)
  PROVE  Tracks(was, count, TRUE, speaks, OneMore(lock, count, speaks, was))
<1> DEFINE run == IF speaks THEN Run(was) + 1 ELSE 0
           after == OneMore(lock, count, speaks, was)
<1> SUFFICES Tracks(was, count, TRUE, speaks, after)
  OBVIOUS
<1>1. Run(was) \in Nat /\ Hold(lock) \in Nat /\ Hold(was) = Hold(lock)
  BY RunFacts, HoldFacts DEF Hold
<1>2. Watched(was, count, TRUE) <=> Counting(lock, count)
  BY SizesFacts DEF Counting, Watched
<1>3. CASE ~Counting(lock, count)
  <2>1. after = was
    BY <1>3 DEF OneMore
  <2> HIDE DEF after
  <2> QED
    BY <1>2, <1>3, <2>1 DEF Tracks
<1>4. CASE Counting(lock, count)
  <2>1. after = WithRun(lock, run)
    BY <1>4 DEF OneMore
  <2>2. run \in Nat
    BY <1>1
  <2>3. Run(after) = run /\ after.mueller_muller = was.mueller_muller
    <3> HIDE DEF after, run
    <3> QED
      BY <2>1, <2>2, RunFacts
  <2>4. Run(was) + 1 # Hold(was)
    <3>1. CASE Hold(lock) = 0
      BY <1>1, <3>1
    <3>2. CASE Hold(lock) # 0
      <4>1. Switches(lock)
        BY <1>4, <3>2, SizesFacts DEF Switches, Counting
      <4>2. Run(was) + 1 < Hold(lock)
        BY <4>1
      <4> QED
        BY <1>1, <4>2
    <3> QED
      BY <3>1, <3>2
  <2>5. CASE speaks
    <3>1. run = Run(was) + 1
      BY <2>5
    <3> HIDE DEF after, run
    <3> QED
      BY <1>2, <1>4, <2>3, <2>4, <2>5, <3>1 DEF Tracks
  <2>6. CASE ~speaks
    <3>1. run = 0
      BY <2>6
    <3> HIDE DEF after, run
    <3> QED
      BY <1>2, <1>4, <2>3, <2>6, <3>1 DEF Tracks
  <2> QED
    BY <2>5, <2>6
<1> QED
  BY <1>3, <1>4

LEMMA LaneTracks ==
  ASSUME NEW lane \in Lanes, NEW speaks,
         Tracks(LockOf(lane), symbols[lane] + Len(Log(lane)), have_previous[lane], speaks,
                LockOf(lane)')
  PROVE  Lane(lane)!Track(speaks)
BY DEF Tracks, Watched, Lane!Track, Lane!Watched, Lane!Hold, Hold, Run

(* Whether a batch runs does not show in what a lane is seen as.           *)
LEMMA NoLog ==
  ASSUME LInv, batch = NoBatch, NEW lane \in Lanes
  PROVE  Log(lane) = << >> /\ Len(Log(lane)) = 0 /\ LockOf(lane) = ted[lane]
<1>1. Log(lane) = << >> /\ Len(Log(lane)) = 0
  BY DEF Log
<1>2. ted[lane] \in Locks /\ symbols[lane] \in Nat
  BY DEF LInv, LoopsOK
<1> QED
  BY <1>1, <1>2, ReplayedEmpty DEF LockOf

LEMMA NoLogAfter ==
  ASSUME LInv', batch' = NoBatch, NEW lane \in Lanes
  PROVE  Log(lane)' = << >> /\ Len(Log(lane))' = 0 /\ LockOf(lane)' = ted'[lane]
<1>1. Log(lane)' = << >> /\ Len(Log(lane))' = 0
  BY DEF Log
<1>2. ted'[lane] \in Locks /\ symbols'[lane] \in Nat
  BY DEF LInv, LoopsOK
<1>3. LockOf(lane)' = IF AutoTed THEN Replayed(ted'[lane], symbols'[lane], Log(lane)')
                      ELSE ted'[lane]
  BY DEF LockOf, Replayed, Counting, WithRun, Run
<1>4. Replayed(ted'[lane], symbols'[lane], << >>) = ted'[lane]
  BY <1>2, ReplayedEmpty
<1> QED
  BY <1>1, <1>3, <1>4

(* A step of a lane, on the general path or in a batch, is a symbol of the *)
(* timing loop.                                                            *)
Counted(lane) ==
  /\ (room[lane] - Len(Log(lane)))' = (room[lane] - Len(Log(lane))) - 1
  /\ (symbols[lane] + Len(Log(lane)))' = (symbols[lane] + Len(Log(lane))) + 1
  /\ UNCHANGED <<stage, input_count, supplied, truncated>>

Made(lane, outcome) ==
  /\ symbol'[lane] = IF poison[lane] = "behind" THEN Lane(lane)!Garbage ELSE Lane(lane)!Symbol
  /\ Tracks(LockOf(lane), symbols[lane] + Len(Log(lane)), have_previous[lane], outcome.speaks,
            LockOf(lane)')

LEMMA LaneProduces ==
  ASSUME IInv, LInv, NEW lane \in Lanes, NEW outcome \in Outcomes(lane), InRange(lane),
         stage # "idle", room[lane] - Len(Log(lane)) > 0,
         Moved(lane, outcome), Counted(lane), Made(lane, outcome)
  PROVE  Lane(lane)!Next
<1>1. Lane(lane)!Produce
  <2>1. Lane(lane)!Pending
    BY InRangeIsPending
  <2>2. /\ (room[lane] - Len(Log(lane)))' = (room[lane] - Len(Log(lane))) - 1
        /\ (symbols[lane] + Len(Log(lane)))' = (symbols[lane] + Len(Log(lane))) + 1
        /\ UNCHANGED <<stage # "idle", supplied[lane] + input_count[lane], truncated[lane]>>
    BY DEF Counted
  <2>3. have_previous'[lane] = TRUE
    BY DEF Moved
  <2> QED
    BY <2>1, <2>2, <2>3 DEF Lane!Produce
<1>2. Lane(lane)!Track(outcome.speaks) /\ outcome.speaks \in BOOLEAN
  BY LaneTracks, OutcomeTypes DEF Made
<1>3. /\ symbol'[lane] = IF poison[lane] = "behind" THEN Lane(lane)!Garbage ELSE Lane(lane)!Symbol
      /\ omega'[lane] = outcome.omega /\ poison'[lane] = outcome.thrown
      /\ time'[lane] = IF outcome.thrown = "no"
                       THEN time[lane] + outcome.omega + Alpha * outcome.error ELSE time[lane]
  BY DEF Made, Moved
<1>4. UNCHANGED Origin(lane)
  BY DEF Counted, Origin
<1> DEFINE place == Origin(lane) * Ticks
<1>5. place \in Int /\ time[lane] \in Int /\ outcome.omega \in Int /\ Alpha * outcome.error \in Int
  <2>1. time[lane] \in Int /\ omega[lane] \in Int /\ Origin(lane) \in Int
    BY LaneNumbers, LengthFacts DEF IInv
  <2>2. outcome.omega \in OmegaMin .. OmegaMax /\ outcome.error \in Int
    BY <2>1, OutcomeFacts
  <2> QED
    BY <2>1, <2>2, ConstantsFacts
<1>6. CASE Follows(lane, outcome)
  <2>1. poison[lane] = "no" /\ outcome.thrown = "no"
    BY <1>6 DEF InRange, Follows
  <2>2. outcome.error \in Errors \cup {0} /\ (~have_previous[lane] => outcome.error = 0)
    BY <1>6 DEF Follows
  <2>3. omega'[lane] = Lane(lane)!Clamped(omega[lane] + Beta * outcome.error)
    BY <1>3, <1>6 DEF Follows, Clamped, Lane!Clamped
  <2>4. (place + time[lane])' = place + time[lane] + omega'[lane] + Alpha * outcome.error
    <3>1. (place + time[lane])' = place + time'[lane]
      BY <1>4
    <3>2. time'[lane] = time[lane] + outcome.omega + Alpha * outcome.error
      BY <1>3, <2>1
    <3> DEFINE correction == Alpha * outcome.error
               was == time[lane]
               is == time'[lane]
               o == outcome.omega
    <3>3. place + is = place + was + o + correction
      <4>1. is = was + o + correction /\ correction \in Int /\ was \in Int /\ o \in Int
        BY <1>5, <3>2
      <4> HIDE DEF place, correction, was, is, o
      <4> QED
        BY <1>5, <4>1
    <3> QED
      BY <1>3, <3>1, <3>3
  <2>5. symbol'[lane] = Lane(lane)!Symbol /\ UNCHANGED poison[lane]
    BY <1>3, <2>1
  <2>6. Lane(lane)!ProduceSymbol(outcome.error, outcome.speaks)
    BY <1>1, <1>2, <2>1, <2>2, <2>3, <2>4, <2>5 DEF Lane!ProduceSymbol
  <2> QED
    BY <1>2, <2>2, <2>6 DEF Lane!Next
<1>7. CASE Throws(lane, outcome)
  <2>1. /\ poison[lane] = "no" /\ have_previous[lane] /\ outcome.thrown \in Poisons
        /\ outcome.thrown # "no" /\ outcome.omega \in {OmegaMin, OmegaMax}
    BY <1>7, SizesFacts DEF InRange, Throws
  <2>2. outcome.speaks = FALSE
    BY <1>7 DEF Throws
  <2>3. /\ symbol'[lane] = Lane(lane)!Symbol /\ poison'[lane] = outcome.thrown
        /\ omega'[lane] \in {OmegaMin, OmegaMax}
        /\ UNCHANGED (place + time[lane])
    BY <1>3, <1>4, <2>1
  <2>4. Lane(lane)!Track(FALSE)
    BY <1>2, <2>2
  <2>5. Lane(lane)!ProducePoisoned(outcome.thrown)
    BY <1>1, <2>1, <2>3, <2>4 DEF Lane!ProducePoisoned
  <2> QED
    BY <2>1, <2>5 DEF Lane!Next
<1>8. CASE Lost(lane, outcome)
  <2>1. poison[lane] = "behind" /\ outcome.thrown = "ahead" /\ outcome.omega \in {OmegaMin, OmegaMax}
    BY <1>8 DEF Lost
  <2>2. outcome.speaks = FALSE
    BY <1>8 DEF Lost
  <2>3. /\ symbol'[lane] = Lane(lane)!Garbage /\ poison'[lane] = "ahead"
        /\ omega'[lane] \in {OmegaMin, OmegaMax}
        /\ UNCHANGED (place + time[lane])
    BY <1>3, <1>4, <2>1
  <2>4. Lane(lane)!Track(FALSE)
    BY <1>2, <2>2
  <2>5. Lane(lane)!ProduceGarbage
    BY <1>1, <2>1, <2>3, <2>4 DEF Lane!ProduceGarbage
  <2> QED
    BY <2>5 DEF Lane!Next
<1> QED
  BY <1>6, <1>7, <1>8, OutcomeKinds

(* Nothing a lane shows changes.                                           *)
Unseen(lane) ==
  /\ UNCHANGED <<stage # "idle", supplied[lane] + input_count[lane], truncated[lane], symbol[lane]>>
  /\ UNCHANGED <<Origin(lane) * Ticks + time[lane], poison[lane], omega[lane], have_previous[lane]>>
  /\ UNCHANGED <<symbols[lane] + Len(Log(lane)), room[lane] - Len(Log(lane)), LockOf(lane)>>

LEMMA LaneStays ==
  ASSUME NEW lane \in Lanes, Unseen(lane)
  PROVE  LaneStep(lane)
<1>1. UNCHANGED <<Run(LockOf(lane)), LockOf(lane).mueller_muller>>
  BY DEF Unseen, Run
<1>2. UNCHANGED Lane(lane)!vars
  BY <1>1 DEF Unseen, Lane!vars
<1> QED
  BY <1>2 DEF LaneStep

(* A step on the general path is a symbol of each lane that takes it.      *)
LEMMA StepIsLanes ==
  ASSUME IInv, LInv, NEW lanes \in SUBSET Active, NEW outcome \in Steps(lanes), Step(outcome),
         batch = NoBatch, NEW lane \in Lanes
  PROVE  LaneStep(lane)
<1>1. LInv' /\ batch' = NoBatch /\ UNCHANGED <<supplied, stage, input_count, truncated>>
  BY StepKeepsLInv DEF Step, kept
<1>2. /\ Log(lane) = << >> /\ Len(Log(lane)) = 0 /\ LockOf(lane) = ted[lane]
      /\ Log(lane)' = << >> /\ Len(Log(lane))' = 0 /\ LockOf(lane)' = ted'[lane]
  BY <1>1, NoLog, NoLogAfter
<1>3. ted[lane] \in Locks /\ Short(ted[lane]) /\ symbols[lane] \in Nat /\ room[lane] \in Nat
      /\ have_previous[lane] \in BOOLEAN
  BY DEF LInv, LoopsOK, CallOK, RunsOK
<1>4. CASE lane \notin lanes
  <2>1. /\ StayedPut(lane)
        /\ UNCHANGED <<ted[lane], symbols[lane], room[lane], symbol[lane]>>
    BY <1>4, StepLane
  <2>2. UNCHANGED Origin(lane)
    BY <1>1 DEF Origin
  <2>3. Unseen(lane)
    BY <1>1, <1>2, <2>1, <2>2 DEF Unseen, StayedPut
  <2> QED
    BY <2>3, LaneStays
<1>5. CASE lane \in lanes
  <2>1. /\ InRange(lane) /\ room[lane] > 0 /\ outcome[lane] \in Outcomes(lane)
        /\ Moved(lane, outcome[lane]) /\ Stepped(lane, outcome[lane])
    BY <1>5, StepLane
  <2>2. outcome[lane].speaks \in BOOLEAN
    BY <2>1, OutcomeTypes
  <2>3. stage # "idle"
    <3>1. HistoryLength \in Nat /\ (stage = "idle" => input_count[lane] = 0)
      BY ConstantsFacts DEF IInv, NumbersOK
    <3>2. stage = "seam" \/ input_count[lane] > HistoryLength
      BY <2>1 DEF InRange, Works
    <3> QED
      BY <3>1, <3>2
  <2>4. room[lane] - Len(Log(lane)) > 0
    BY <1>2, <1>3, <2>1
  <2>5. Counted(lane)
    <3>1. symbols'[lane] = symbols[lane] + 1 /\ room'[lane] = room[lane] - 1
      BY <2>1 DEF Stepped
    <3>2. /\ (room[lane] - Len(Log(lane)))' = (room[lane] - Len(Log(lane))) - 1
          /\ (symbols[lane] + Len(Log(lane)))' = (symbols[lane] + Len(Log(lane))) + 1
      BY <1>2, <1>3, <3>1
    <3> QED
      BY <1>1, <3>2 DEF Counted
  <2>6. Tracks(ted[lane], symbols[lane], have_previous[lane], outcome[lane].speaks, ted'[lane])
    <3>1. CASE AutoTed /\ have_previous[lane]
      <4>1. ted'[lane] = Tracked(ted[lane], symbols[lane], outcome[lane].speaks)
        BY <2>1, <3>1 DEF Stepped
      <4>2. have_previous[lane] = TRUE
        BY <1>3, <3>1
      <4> QED
        BY <1>3, <2>2, <3>1, <4>1, <4>2, TrackedTracks
    <3>2. CASE ~(AutoTed /\ have_previous[lane])
      <4>1. ted'[lane] = ted[lane]
        BY <2>1, <3>2 DEF Stepped
      <4> QED
        BY <1>3, <3>2, <4>1, UntrackedTracks
    <3> QED
      BY <3>1, <3>2
  <2>7. Made(lane, outcome[lane])
    <3>1. symbol'[lane] = IF poison[lane] = "behind" THEN Lane(lane)!Garbage ELSE Lane(lane)!Symbol
      BY <2>1, InterpolatedIsSymbol DEF Stepped
    <3>2. symbols[lane] + Len(Log(lane)) = symbols[lane]
      BY <1>2, <1>3
    <3>3. Tracks(LockOf(lane), symbols[lane] + Len(Log(lane)), have_previous[lane],
                 outcome[lane].speaks, LockOf(lane)')
      BY <1>2, <2>6, <3>2
    <3> QED
      BY <3>1, <3>3 DEF Made
  <2> QED
    BY <2>1, <2>3, <2>4, <2>5, <2>7, LaneProduces DEF LaneStep
<1> QED
  BY <1>4, <1>5

LEMMA LoopStepIsLanes ==
  ASSUME IInv, LInv, GenericStep \/ MaskedStep, NEW lane \in Lanes
  PROVE  LaneStep(lane)
<1>1. batch = NoBatch
  BY DEF IInv, BatchInRange, GenericStep, MaskedStep
<1>2. \E lanes \in SUBSET Active : \E outcome \in Steps(lanes) : Step(outcome)
  <2>1. CASE GenericStep
    <3>1. PICK active \in Active : \E outcome \in Steps({active}) : Step(outcome)
      BY <2>1 DEF GenericStep
    <3>2. {active} \in SUBSET Active
      BY <3>1
    <3> QED
      BY <3>1, <3>2
  <2>2. CASE MaskedStep
    BY <2>2 DEF MaskedStep
  <2> QED
    BY <2>1, <2>2
<1> QED
  BY <1>1, <1>2, StepIsLanes

(* Entering a batch shows nothing.                                         *)
LEMMA BatchBeginIsUnseen ==
  ASSUME IInv, LInv, BatchBegin, NEW lane \in Lanes
  PROVE  LaneStep(lane)
<1>1. /\ batch = NoBatch /\ batch'.log = [l \in Lanes |-> << >>]
      /\ UNCHANGED <<loops, kept, seam, stage, input_count, room, truncated, symbol>>
  BY DEF BatchBegin
<1>2. LInv'
  BY BatchBeginKeepsLInv
<1>3. Log(lane)' = << >>
  BY <1>1 DEF Log
<1>4. UNCHANGED <<Log(lane), Origin(lane)>>
  BY <1>1, <1>3, NoLog DEF Origin, kept
<1>5. UNCHANGED LockOf(lane)
  BY <1>1, <1>4 DEF LockOf, loops, Replayed, Counting, WithRun, Run
<1>6. Unseen(lane)
  BY <1>1, <1>4, <1>5 DEF Unseen, loops, kept
<1> QED
  BY <1>6, LaneStays

(* What a step of a batch does to the log, the counts and the lock a lane  *)
(* shows, whether or not the batch ends with it.                           *)
LEMMA BatchCounts ==
  ASSUME IInv, LInv, BatchStep, NEW outcome \in Steps(Lanes), Advance(outcome),
         GoesOn(outcome) \/ Ends(outcome), batch # NoBatch, NEW lane \in Lanes
  PROVE  /\ Counted(lane)
         /\ LockOf(lane)' = IF AutoTed
                            THEN Replayed(ted[lane], symbols[lane], Longer(outcome)[lane])
                            ELSE ted[lane]
<1>1. UNCHANGED <<stage, input_count, supplied, truncated>>
  BY DEF BatchStep, kept
<1>2. /\ Done \in Nat /\ Len(batch.log[lane]) = Done /\ batch.steps \in 1 .. BatchSteps
      /\ batch \in Batches /\ symbols[lane] \in Nat /\ room[lane] \in Nat
      /\ Len(Longer(outcome)[lane]) = Done + 1
  BY BatchFacts
<1>3. Log(lane) = batch.log[lane] /\ Len(Log(lane)) = Done
  BY <1>2 DEF Log
<1>4. CASE GoesOn(outcome)
  <2>1. batch'.steps = batch.steps /\ batch'.log = Longer(outcome)
        /\ UNCHANGED <<ted, symbols, room>>
    BY <1>2, <1>4 DEF GoesOn, Batches
  <2>2. batch' # NoBatch
    BY <1>2, <2>1 DEF NoBatch
  <2>3. Log(lane)' = Longer(outcome)[lane] /\ Len(Log(lane))' = Done + 1
    BY <1>2, <2>1, <2>2 DEF Log
  <2>4. LockOf(lane)' = IF AutoTed
                        THEN Replayed(ted[lane], symbols[lane], Longer(outcome)[lane])
                        ELSE ted[lane]
    <3>1. LockOf(lane)' = IF AutoTed THEN Replayed(ted'[lane], symbols'[lane], Log(lane)')
                          ELSE ted'[lane]
      BY DEF LockOf, Replayed, Counting, WithRun, Run
    <3> QED
      BY <2>1, <2>3, <3>1
  <2>5. /\ (room[lane] - Len(Log(lane)))' = (room[lane] - Len(Log(lane))) - 1
        /\ (symbols[lane] + Len(Log(lane)))' = (symbols[lane] + Len(Log(lane))) + 1
    <3> DEFINE s == symbols[lane]
               r == room[lane]
               d == Done
    <3>1. r - (d + 1) = (r - d) - 1 /\ s + (d + 1) = (s + d) + 1
      <4>1. d \in Nat /\ s \in Nat /\ r \in Nat
        BY <1>2
      <4> HIDE DEF s, r, d
      <4> QED
        BY <4>1
    <3>2. Len(Log(lane)) = d
      BY <1>3
    <3>3. (room[lane] - Len(Log(lane)))' = r - (d + 1)
          /\ (symbols[lane] + Len(Log(lane)))' = s + (d + 1)
      BY <2>1, <2>3
    <3> QED
      BY <3>1, <3>2, <3>3
  <2> QED
    BY <1>1, <2>4, <2>5 DEF Counted
<1>5. CASE Ends(outcome)
  <2>1. /\ batch' = NoBatch
        /\ ted'[lane] = IF AutoTed THEN Replayed(ted[lane], symbols[lane], Longer(outcome)[lane])
                        ELSE ted[lane]
        /\ symbols'[lane] = symbols[lane] + Done + 1 /\ room'[lane] = room[lane] - (Done + 1)
    BY <1>5 DEF Ends
  <2>2. LInv'
    BY BatchStepKeepsLInv
  <2>3. Len(Log(lane))' = 0 /\ LockOf(lane)' = ted'[lane]
    BY <2>1, <2>2, NoLogAfter
  <2>4. /\ (room[lane] - Len(Log(lane)))' = (room[lane] - Len(Log(lane))) - 1
        /\ (symbols[lane] + Len(Log(lane)))' = (symbols[lane] + Len(Log(lane))) + 1
    <3> DEFINE s == symbols[lane]
               r == room[lane]
               d == Done
    <3>1. (r - (d + 1)) - 0 = (r - d) - 1 /\ (s + d + 1) + 0 = (s + d) + 1
      <4>1. d \in Nat /\ s \in Nat /\ r \in Nat
        BY <1>2
      <4> HIDE DEF s, r, d
      <4> QED
        BY <4>1
    <3>2. Len(Log(lane)) = d
      BY <1>3
    <3>3. (room[lane] - Len(Log(lane)))' = room'[lane] - 0
          /\ (symbols[lane] + Len(Log(lane)))' = symbols'[lane] + 0
      BY <2>3
    <3> QED
      BY <2>1, <3>1, <3>2, <3>3
  <2> QED
    BY <1>1, <2>1, <2>3, <2>4 DEF Counted
<1> QED
  BY <1>4, <1>5

(* A step of a batch is a symbol of every lane, tracked as if right away.  *)
LEMMA BatchStepIsLanes ==
  ASSUME IInv, LInv, BatchStep, NEW lane \in Lanes
  PROVE  LaneStep(lane)
<1>1. batch # NoBatch
  BY DEF BatchStep
<1>2. PICK outcome \in Steps(Lanes) :
        /\ Advance(outcome) /\ symbol' = [l \in Lanes |-> Speculated(l)]
        /\ GoesOn(outcome) \/ Ends(outcome)
  BY BatchStepCases
<1> DEFINE speaks == outcome[lane].speaks
           lock == ted[lane]
           count == symbols[lane] + Done
<1>3. /\ Done \in Nat /\ Done < batch.steps /\ batch.steps <= room[lane] /\ batch.steps \in Nat
      /\ room[lane] \in Nat /\ symbols[lane] \in Nat /\ Len(batch.log[lane]) = Done
  BY <1>1, <1>2, BatchFacts
<1>4. /\ have_previous[lane] /\ poison[lane] = "no" /\ InRange(lane) /\ lock \in Locks
      /\ outcome[lane] \in Outcomes(lane) /\ speaks \in BOOLEAN /\ Moved(lane, outcome[lane])
  BY <1>1, <1>2, BatchFacts
<1>5. /\ batch.log[lane] \in Seq(BOOLEAN)
      /\ Longer(outcome)[lane] = Append(batch.log[lane], speaks)
      /\ Switches(lock) => Run(lock) + batch.steps < Hold(lock)
  BY <1>1, <1>2, BatchFacts
<1>6. /\ Counted(lane)
      /\ LockOf(lane)' = IF AutoTed THEN Replayed(lock, symbols[lane], Longer(outcome)[lane])
                         ELSE lock
  BY <1>1, <1>2, BatchCounts
<1>7. Log(lane) = batch.log[lane]
      /\ LockOf(lane) = IF AutoTed THEN Replayed(lock, symbols[lane], batch.log[lane]) ELSE lock
  BY <1>1 DEF Log, LockOf
<1>8. have_previous[lane] = TRUE
  BY <1>4 DEF LInv, LoopsOK
<1>9. Tracks(LockOf(lane), count, have_previous[lane], speaks, LockOf(lane)')
  <2>1. CASE ~AutoTed
    BY <1>6, <1>7, <1>8, <2>1, UntrackedTracks
  <2>2. CASE AutoTed
    <3> DEFINE was == Replayed(lock, symbols[lane], batch.log[lane])
    <3>1. /\ was \in Locks /\ was.mueller_muller = lock.mueller_muller
          /\ Run(was) <= Run(lock) + Done
      BY <1>3, <1>4, <1>5, ReplayedBounds
    <3>2. LockOf(lane)' = OneMore(lock, count, speaks, was)
      BY <1>3, <1>4, <1>5, <1>6, <2>2, ReplayedStep
    <3>3. LockOf(lane) = was
      BY <1>7, <2>2
    <3>4. ASSUME Switches(lock) PROVE Run(was) + 1 < Hold(lock)
      <4>1. Run(lock) + batch.steps < Hold(lock)
        BY <1>5, <3>4
      <4>2. Run(lock) \in Nat /\ Run(was) \in Nat /\ Hold(lock) \in Nat
        BY <1>4, <3>1, RunFacts, HoldFacts
      <4> HIDE DEF was, lock
      <4> QED
        BY <1>3, <3>1, <4>1, <4>2
    <3>5. count \in Nat
      BY <1>3
    <3> HIDE DEF was, count, lock, speaks
    <3>6. Tracks(was, count, TRUE, speaks, OneMore(lock, count, speaks, was))
      BY <1>4, <2>2, <3>1, <3>4, <3>5, ReplayTracks
    <3> QED
      BY <1>8, <3>2, <3>3, <3>6
  <2> QED
    BY <2>1, <2>2
<1>10. stage # "idle"
  BY <1>1 DEF IInv, BatchInRange
<1>11. Len(Log(lane)) = Done /\ symbols[lane] + Len(Log(lane)) = count
       /\ room[lane] - Len(Log(lane)) > 0 /\ room[lane] > 0
  BY <1>3, <1>7
<1>12. symbol'[lane] = Lane(lane)!Symbol
  <2>1. symbol'[lane] = Speculated(lane)
    BY <1>2
  <2>2. Speculated(lane) = Lane(lane)!Symbol
    BY <1>4, <1>11, SpeculatedIsExact, ExactIsSymbol
  <2> QED
    BY <2>1, <2>2
<1>13. Made(lane, outcome[lane])
  <2>1. symbol'[lane] = IF poison[lane] = "behind" THEN Lane(lane)!Garbage ELSE Lane(lane)!Symbol
    BY <1>4, <1>12
  <2> HIDE DEF count
  <2> QED
    BY <1>9, <1>11, <2>1 DEF Made
<1> QED
  BY <1>4, <1>6, <1>10, <1>11, <1>13, LaneProduces DEF LaneStep

(* Changing to the block only moves the origin.                            *)
LEMMA SeamDoneIsUnseen ==
  ASSUME IInv, LInv, SeamDone, NEW lane \in Lanes
  PROVE  LaneStep(lane)
<1>1. /\ stage = "seam" /\ stage' = "block" /\ batch = NoBatch /\ batch' = NoBatch
      /\ UNCHANGED <<poison, omega, have_previous, symbols, ted, kept, input_count, room,
                     truncated, symbol>>
      /\ time'[lane] = time[lane] + (-(HistoryLength * Ticks))
  BY DEF SeamDone, PassDone, Forward
<1>2. LInv'
  BY SeamDoneKeepsLInv
<1>3. /\ Log(lane) = << >> /\ LockOf(lane) = ted[lane]
      /\ Log(lane)' = << >> /\ LockOf(lane)' = ted'[lane]
  BY <1>1, <1>2, NoLog, NoLogAfter
<1>4. UNCHANGED (Origin(lane) * Ticks + time[lane])
  <2>1. Origin(lane) = supplied[lane] - HistoryLength /\ Origin(lane)' = supplied[lane]
    BY <1>1 DEF Origin, kept
  <2> DEFINE s == supplied[lane]
             n == HistoryLength
             t == time[lane]
  <2>2. s \in Nat /\ n \in Nat /\ t \in Int /\ Ticks \in Nat /\ n * Ticks \in Int /\ s * Ticks \in Int
    BY LaneNumbers, ConstantsFacts DEF IInv
  <2>3. s * Ticks + (t + (-(n * Ticks))) = (s - n) * Ticks + t
    <3> HIDE DEF s, n, t
    <3>1. (s - n) * Ticks = s * Ticks - n * Ticks
      BY <2>2
    <3> DEFINE st == s * Ticks
               nt == n * Ticks
    <3> HIDE DEF st, nt
    <3>2. st + (t + (-nt)) = (st - nt) + t
      BY <2>2 DEF st, nt
    <3> QED
      BY <3>1, <3>2 DEF st, nt
  <2>4. (Origin(lane) * Ticks + time[lane])' = s * Ticks + (t + (-(n * Ticks)))
    BY <1>1, <2>1
  <2> QED
    BY <2>1, <2>3, <2>4
<1>5. Unseen(lane)
  BY <1>1, <1>3, <1>4 DEF Unseen, kept
<1> QED
  BY <1>5, LaneStays

(* A call that begins feeds each lane its block.                           *)
LEMMA ExecuteIsFeed ==
  ASSUME IInv, LInv, NEW counts \in [Lanes -> Counts], NEW capacities \in [Lanes -> Capacities],
         Execute(counts, capacities), NEW lane \in Lanes
  PROVE  LaneStep(lane)
<1>1. /\ stage = "idle" /\ stage' = "seam" /\ input_count' = counts /\ room' = capacities
      /\ supplied[lane] + counts[lane] <= MaxSupplied
      /\ time'[lane] = time[lane] + HistoryLength * Ticks
      /\ truncated'[lane] = FALSE
      /\ UNCHANGED <<poison, omega, have_previous, symbols, ted, kept, batch, symbol>>
  BY DEF Execute, Forward
<1>2. batch = NoBatch /\ batch' = NoBatch
  BY <1>1 DEF IInv, BatchInRange
<1>3. LInv'
  BY ExecuteKeepsLInv
<1>4. /\ Log(lane) = << >> /\ LockOf(lane) = ted[lane]
      /\ Log(lane)' = << >> /\ LockOf(lane)' = ted'[lane]
  BY <1>2, <1>3, NoLog, NoLogAfter
<1>5. /\ supplied[lane] \in Nat /\ input_count[lane] = 0 /\ time[lane] \in Int
      /\ counts[lane] \in Counts /\ counts[lane] \in Nat
      /\ capacities[lane] \in Capacities /\ capacities[lane] \in Nat
      /\ Ticks \in Nat /\ HistoryLength \in Nat
  BY <1>1, LaneNumbers, ConstantsFacts DEF IInv, NumbersOK
<1>6. UNCHANGED (Origin(lane) * Ticks + time[lane])
  <2>1. Origin(lane) = supplied[lane] /\ Origin(lane)' = supplied[lane] - HistoryLength
    BY <1>1 DEF Origin, kept
  <2> DEFINE s == supplied[lane]
             n == HistoryLength
             t == time[lane]
  <2>2. (s - n) * Ticks + (t + n * Ticks) = s * Ticks + t
    <3> HIDE DEF s, n, t
    <3>1. s \in Nat /\ n \in Nat /\ t \in Int /\ n * Ticks \in Int /\ s * Ticks \in Int
      BY <1>5 DEF s, n, t
    <3>2. (s - n) * Ticks = s * Ticks - n * Ticks
      BY <1>5, <3>1
    <3> DEFINE st == s * Ticks
               nt == n * Ticks
    <3> HIDE DEF st, nt
    <3>3. (st - nt) + (t + nt) = st + t
      BY <3>1 DEF st, nt
    <3> QED
      BY <3>2, <3>3 DEF st, nt
  <2>3. (Origin(lane) * Ticks + time[lane])' = (s - n) * Ticks + (t + n * Ticks)
    BY <1>1, <2>1
  <2> QED
    BY <2>1, <2>2, <2>3
<1>7. /\ (supplied[lane] + input_count[lane]) + counts[lane] <= MaxSupplied
      /\ (supplied[lane] + input_count[lane])' = (supplied[lane] + input_count[lane]) + counts[lane]
      /\ (room[lane] - Len(Log(lane)))' = capacities[lane]
  <2>1. /\ (supplied[lane] + input_count[lane])' = supplied[lane] + counts[lane]
        /\ (room[lane] - Len(Log(lane)))' = capacities[lane] - Len(<< >>)
    BY <1>1, <1>4 DEF kept
  <2>2. Len(<< >>) = 0
    OBVIOUS
  <2> HIDE DEF kept
  <2> QED
    BY <1>1, <1>5, <2>1, <2>2
<1>8. UNCHANGED <<symbols[lane] + Len(Log(lane)), LockOf(lane).mueller_muller, Run(LockOf(lane))>>
  BY <1>1, <1>4 DEF Run
<1>9. Lane(lane)!Feed(counts[lane], capacities[lane])
  BY <1>1, <1>6, <1>7, <1>8 DEF Lane!Feed
<1> QED
  BY <1>5, <1>9 DEF LaneStep, Lane!Next

(* A reset resets every lane.                                              *)
LEMMA ResetIsReset ==
  ASSUME IInv, LInv, Reset, NEW lane \in Lanes
  PROVE  LaneStep(lane)
<1>1. /\ stage = "idle" /\ supplied'[lane] = 0 /\ symbols'[lane] = 0
      /\ time'[lane] = Initially(lane).time /\ omega'[lane] = Initially(lane).omega
      /\ ted'[lane] = Initially(lane).ted
      /\ have_previous'[lane] = FALSE /\ truncated'[lane] = FALSE
      /\ UNCHANGED <<symbol, poison, stage, input_count, room, batch>>
  BY DEF Reset
<1>2. batch = NoBatch /\ batch' = NoBatch /\ input_count[lane] = 0
  BY <1>1 DEF IInv, BatchInRange, NumbersOK
<1>3. LInv'
  BY ResetKeepsLInv
<1>4. /\ Log(lane) = << >> /\ Log(lane)' = << >> /\ LockOf(lane)' = ted'[lane]
  BY <1>2, <1>3, NoLog, NoLogAfter
<1>5. /\ (supplied[lane] + input_count[lane])' = 0 /\ (symbols[lane] + Len(Log(lane)))' = 0
      /\ UNCHANGED (room[lane] - Len(Log(lane)))
  BY <1>1, <1>2, <1>4
<1>6. (Origin(lane) * Ticks + time[lane])' = Ticks
  <2>1. Origin(lane)' = 0 /\ time'[lane] = Ticks /\ Ticks \in Nat
    BY <1>1, InitiallyFacts, ConstantsFacts DEF Origin
  <2> QED
    BY <2>1
<1>7. LockOf(lane)'.mueller_muller = StartsMuellerMuller /\ Run(LockOf(lane)') = 0
      /\ omega'[lane] = Omega
  BY <1>1, <1>4, InitiallyFacts
<1>8. (LockOf(lane).mueller_muller)' = StartsMuellerMuller /\ Run(LockOf(lane))' = 0
  BY <1>7 DEF Run
<1>9. Lane(lane)!Reset
  BY <1>1, <1>5, <1>6, <1>7, <1>8 DEF Lane!Reset
<1> QED
  BY <1>9 DEF LaneStep, Lane!Next

LEMMA LanesBegin ==
  ASSUME Init, NEW lane \in Lanes
  PROVE  Lane(lane)!Init
<1>1. /\ stage = "idle" /\ supplied[lane] = 0 /\ symbols[lane] = 0 /\ input_count[lane] = 0
      /\ time[lane] = Initially(lane).time /\ omega[lane] = Initially(lane).omega
      /\ ted[lane] = Initially(lane).ted /\ poison[lane] = "no" /\ batch = NoBatch
      /\ have_previous[lane] = FALSE /\ truncated[lane] = FALSE /\ room[lane] = 0
      /\ symbol[lane] = NoSymbol
  BY DEF Init
<1>2. LInv
  BY InitiallyLInv
<1>3. Log(lane) = << >> /\ Len(Log(lane)) = 0 /\ LockOf(lane) = ted[lane]
  BY <1>1, <1>2, NoLog
<1>4. /\ supplied[lane] + input_count[lane] = 0 /\ symbols[lane] + Len(Log(lane)) = 0
      /\ room[lane] - Len(Log(lane)) = 0
  <2>1. supplied[lane] = 0 /\ input_count[lane] = 0 /\ symbols[lane] = 0 /\ room[lane] = 0
    BY <1>1
  <2>2. Len(Log(lane)) = 0
    BY <1>3
  <2> QED
    BY <2>1, <2>2
<1>5. Origin(lane) * Ticks + time[lane] = Ticks
  <2>1. Origin(lane) = 0 /\ time[lane] = Ticks /\ Ticks \in Nat
    BY <1>1, InitiallyFacts, ConstantsFacts DEF Origin
  <2> QED
    BY <2>1
<1>6. LockOf(lane).mueller_muller = StartsMuellerMuller /\ Run(LockOf(lane)) = 0
      /\ omega[lane] = Omega
  BY <1>1, <1>3, InitiallyFacts
<1> QED
  BY <1>1, <1>4, <1>5, <1>6 DEF Lane!Init, Lane!NoSymbol, NoSymbol, NoStencil

(* A call that returns finishes every lane's block.                        *)
Left(lane) ==
  \/ poison[lane] = "behind"
  \/ poison[lane] = "no" /\ time[lane] < (input_count[lane] - 2) * Ticks

LEMMA LeftIsPending ==
  ASSUME IInv, NEW lane \in Lanes, stage = "block"
  PROVE  Lane(lane)!Pending <=> Left(lane)
<1> DEFINE s == supplied[lane]
           c == input_count[lane]
           t == time[lane]
<1>1. s \in Nat /\ c \in Nat /\ t \in Int /\ Ticks \in Nat /\ s * Ticks \in Int /\ c * Ticks \in Int
  BY LaneNumbers, ConstantsFacts DEF IInv
<1>2. Origin(lane) * Ticks + t = s * Ticks + t
  BY DEF Origin
<1>3. ((s + c) - 2) * Ticks = s * Ticks + (c - 2) * Ticks /\ (c - 2) * Ticks \in Int
  <2> HIDE DEF s, c
  <2>1. ((s + c) - 2) * Ticks = (s * Ticks + c * Ticks) - 2 * Ticks
        /\ (c - 2) * Ticks = c * Ticks - 2 * Ticks
    BY <1>1
  <2> DEFINE st == s * Ticks
             ct == c * Ticks
             tt == 2 * Ticks
  <2>2. st \in Int /\ ct \in Int /\ tt \in Int
    BY <1>1
  <2> HIDE DEF st, ct, tt
  <2>3. (st + ct) - tt = st + (ct - tt) /\ ct - tt \in Int
    BY <2>2
  <2> QED
    BY <2>1, <2>3 DEF st, ct, tt
<1>4. s * Ticks + t < ((s + c) - 2) * Ticks <=> t < (c - 2) * Ticks
  <2> DEFINE st == s * Ticks
             l == (c - 2) * Ticks
  <2>1. st \in Int /\ l \in Int
    BY <1>1, <1>3
  <2> HIDE DEF st, l, t
  <2>2. st + t < st + l <=> t < l
    BY <1>1, <2>1
  <2> QED
    BY <1>3, <2>2 DEF st, l
<1>5. Origin(lane) * Ticks + t < Lane(lane)!Limit <=> t < (c - 2) * Ticks
  <2>1. Lane(lane)!Limit = ((s + c) - 2) * Ticks
    BY DEF Lane!Limit
  <2> QED
    BY <1>2, <1>4, <2>1
<1> QED
  BY <1>5 DEF Lane!Pending, Left

LEMMA ReturnIsFinish ==
  ASSUME IInv, LInv, Return, NEW lane \in Lanes
  PROVE  LaneStep(lane)
<1> DEFINE s == supplied[lane]
           c == input_count[lane]
           t == time[lane]
           e == EarliestTime
<1>1. /\ stage = "block" /\ stage' = "idle" /\ batch = NoBatch /\ batch' = NoBatch /\ Active = {}
      /\ time'[lane] = Rebased(lane) /\ poison'[lane] = "no"
      /\ omega'[lane] = IF poison[lane] = "no" THEN omega[lane] ELSE Omega
      /\ supplied'[lane] = s + c /\ input_count'[lane] = 0 /\ room'[lane] = 0
      /\ symbol'[lane] = NoSymbol /\ UNCHANGED <<symbols, ted>>
  BY DEF Return, PassDone
<1>2. /\ truncated'[lane] = (room[lane] = 0 /\ Left(lane))
      /\ have_previous'[lane] = (have_previous[lane] /\ poison[lane] = "no")
  BY DEF Return, Left
<1>3. LInv'
  BY ReturnKeepsLInv
<1>4. /\ Log(lane) = << >> /\ Len(Log(lane)) = 0 /\ LockOf(lane) = ted[lane]
      /\ Log(lane)' = << >> /\ Len(Log(lane))' = 0 /\ LockOf(lane)' = ted'[lane]
  BY <1>1, <1>3, NoLog, NoLogAfter
<1>5. /\ s \in Nat /\ c \in Nat /\ t \in Int /\ e \in Int /\ Ticks \in Nat
      /\ s * Ticks \in Int /\ c * Ticks \in Int /\ e * Ticks \in Int
      /\ room[lane] \in Nat
  BY LaneNumbers, ConstantsFacts DEF IInv, LInv, CallOK
<1>6. ASSUME Left(lane) PROVE room[lane] = 0
  <2>1. CASE Works(lane)
    <3>1. c > HistoryLength
      BY <1>1, <2>1 DEF Works
    <3>2. Limit(lane) = (c - 2) * Ticks
      <4>1. ~InSeam(lane)
        BY <1>1, <1>5, <3>1, ConstantsFacts DEF InSeam
      <4> QED
        BY <4>1 DEF Limit, Length
    <3>3. InRange(lane)
      BY <1>6, <2>1, <3>2 DEF InRange, Left
    <3>4. ~(room[lane] > 0)
      BY <1>1, <3>3 DEF Active
    <3> QED
      BY <1>5, <3>4
  <2>2. CASE ~Works(lane)
    <3>1. Spent(lane)
      BY <1>1, <2>2 DEF LInv, PlacesOK
    <3>2. (c - 2) * Ticks \in Int
      BY <1>5
    <3>3. ~(t < (c - 2) * Ticks /\ t >= (c - 2) * Ticks)
      <4> DEFINE l == (c - 2) * Ticks
      <4> HIDE DEF l, t
      <4> QED
        BY <1>5, <3>2 DEF l
    <3> QED
      BY <1>6, <3>1, <3>3 DEF Spent, Left
  <2> QED
    BY <2>1, <2>2
<1>7. /\ Lane(lane)!Pending => room[lane] - Len(Log(lane)) = 0
      /\ truncated'[lane] = Lane(lane)!Pending
  <2>1. Lane(lane)!Pending <=> Left(lane)
    BY <1>1, LeftIsPending
  <2>2. room[lane] - Len(Log(lane)) = room[lane]
    BY <1>4, <1>5
  <2>3. truncated'[lane] \in BOOLEAN
    BY <1>3 DEF LInv, CallOK
  <2>4. truncated'[lane] <=> Lane(lane)!Pending
    BY <1>2, <1>6, <2>1
  <2>5. Lane(lane)!Pending \in BOOLEAN
    BY DEF Lane!Pending
  <2> QED
    BY <1>6, <2>1, <2>2, <2>3, <2>4, <2>5
<1> DEFINE oldest == ((s + c) - (-e)) * Ticks
           clock == Origin(lane) * Ticks + t
<1>8. oldest = (s + c) * Ticks + e * Ticks /\ clock = s * Ticks + t
      /\ (s + c) * Ticks = s * Ticks + c * Ticks
  <2>1. Origin(lane) = s
    BY <1>1 DEF Origin
  <2>2. clock = s * Ticks + t
    BY <2>1
  <2>3. (s + c) * Ticks = s * Ticks + c * Ticks
        /\ ((s + c) - (-e)) * Ticks = (s + c) * Ticks + e * Ticks
    <3> HIDE DEF s, c, e
    <3>1. (s + c) - (-e) = (s + c) + e
      BY <1>5
    <3> QED
      BY <1>5, <3>1
  <2> QED
    BY <2>2, <2>3
<1>9. clock' = (s + c) * Ticks + time'[lane]
  <2>1. Origin(lane)' = s + c
    BY <1>1 DEF Origin
  <2>2. (Origin(lane) * Ticks + time[lane])' = (s + c) * Ticks + time'[lane]
    BY <2>1
  <2> QED
    BY <2>2
<1>10. poison[lane] # "no" => clock' = oldest
  BY <1>1, <1>8, <1>9 DEF Rebased
<1>11. poison[lane] = "no" => clock' = IF clock < oldest THEN oldest ELSE clock
  <2> SUFFICES ASSUME poison[lane] = "no"
               PROVE  clock' = IF clock < oldest THEN oldest ELSE clock
    OBVIOUS
  <2> DEFINE st == s * Ticks
             ct == c * Ticks
             et == e * Ticks
             moved == t - ct
  <2>1. st \in Int /\ ct \in Int /\ et \in Int /\ moved \in Int
    BY <1>5
  <2>2. time'[lane] = Max({moved, et})
    BY <1>1 DEF Rebased
  <2>3. time'[lane] = IF moved >= et THEN moved ELSE et
    <3> HIDE DEF moved, et
    <3> QED
      BY <2>1, <2>2, LargerFacts
  <2>4. clock' = (st + ct) + time'[lane] /\ oldest = (st + ct) + et /\ clock = st + t
    BY <1>8, <1>9
  <2>5. moved = t - ct
    OBVIOUS
  <2> HIDE DEF st, ct, et, moved, t, clock, oldest
  <2>6. CASE moved >= et
    <3>1. clock' = (st + ct) + (t - ct) /\ t - ct >= et
      BY <2>3, <2>4, <2>5, <2>6
    <3>2. (st + ct) + (t - ct) = st + t /\ ~(st + t < (st + ct) + et)
      BY <1>5, <2>1, <3>1
    <3> QED
      BY <2>4, <3>1, <3>2
  <2>7. CASE ~(moved >= et)
    <3>1. clock' = (st + ct) + et /\ ~(t - ct >= et)
      BY <2>3, <2>4, <2>5, <2>7
    <3>2. st + t < (st + ct) + et
      BY <1>5, <2>1, <3>1
    <3> QED
      BY <2>4, <3>1, <3>2
  <2> QED
    BY <2>6, <2>7
<1>12. /\ UNCHANGED <<supplied[lane] + input_count[lane], symbols[lane] + Len(Log(lane)),
                      LockOf(lane).mueller_muller, Run(LockOf(lane))>>
       /\ (room[lane] - Len(Log(lane)))' = 0
  <2>1. UNCHANGED (supplied[lane] + input_count[lane])
    BY <1>1, <1>5
  <2>2. UNCHANGED <<symbols[lane] + Len(Log(lane)), LockOf(lane).mueller_muller, Run(LockOf(lane))>>
    BY <1>1, <1>4 DEF Run
  <2>3. (room[lane] - Len(Log(lane)))' = 0
    <3>1. room'[lane] = 0 /\ Len(Log(lane))' = 0
      BY <1>1, <1>4
    <3>2. (room[lane] - Len(Log(lane)))' = room'[lane] - Len(Log(lane))'
      OBVIOUS
    <3> QED
      BY <3>1, <3>2
  <2> QED
    BY <2>1, <2>2, <2>3
<1>13. IF poison[lane] # "no"
       THEN clock' = oldest /\ omega'[lane] = Omega /\ have_previous'[lane] = FALSE
       ELSE /\ clock' = IF clock < oldest THEN oldest ELSE clock
            /\ UNCHANGED <<omega[lane], have_previous[lane]>>
  <2>1. have_previous'[lane] = IF poison[lane] # "no" THEN FALSE ELSE have_previous[lane]
    <3>1. have_previous[lane] \in BOOLEAN
      BY DEF LInv, LoopsOK
    <3> QED
      BY <1>2, <3>1
  <2>2. omega'[lane] = IF poison[lane] = "no" THEN omega[lane] ELSE Omega
    BY <1>1
  <2> HIDE DEF clock, oldest
  <2> QED
    BY <1>10, <1>11, <2>1, <2>2
<1>14. Lane(lane)!Finish
  <2>1. symbol'[lane] = Lane(lane)!NoSymbol
    BY <1>1 DEF Lane!NoSymbol, NoSymbol, NoStencil
  <2>2. stage # "idle" /\ (stage # "idle")' = FALSE
    BY <1>1
  <2> QED
    BY <1>1, <1>7, <1>12, <1>13, <2>1, <2>2 DEF Lane!Finish
<1> QED
  BY <1>14 DEF LaneStep, Lane!Next

(* A lane coasts no further than its samples reach.                        *)
LEMMA CoastedBound ==
  ASSUME IInv, LInv, stage = "idle", NEW lane \in Lanes, NEW count \in Nat,
         supplied[lane] + count <= MaxSupplied
  PROVE  Coasted(lane, count) \in 0 .. MaxSupplied + (-EarliestTime)
<1> DEFINE k == Coasted(lane, count)
           o == omega[lane]
           t == time[lane]
           e == EarliestTime
<1>1. /\ o \in Nat /\ t \in Int /\ Ticks \in Nat /\ Ticks > 0 /\ Ticks <= o /\ e \in Int /\ e < 0
      /\ supplied[lane] \in Nat /\ MaxSupplied \in Nat
  <2>1. OmegaMin >= Ticks /\ OmegaMin \in Nat
    BY ConstantsAssumption, ConstantsFacts
  <2>2. o \in Int /\ o >= OmegaMin
    BY LaneNumbers DEF IInv
  <2> HIDE DEF o
  <2>3. o \in Nat /\ Ticks <= o
    BY <2>1, <2>2, ConstantsFacts
  <2> QED
    BY <2>3, LaneNumbers, ConstantsFacts, WindowFacts, SizesFacts DEF IInv
<1>2. k \in Nat /\ (k > 0 => t + k * o - o < count * Ticks)
  BY CoastedFacts DEF IInv
<1>3. t >= e * Ticks
  BY DEF LInv, PlacesOK
<1> HIDE DEF k, o, t, e
<1>4. CASE k > 0
  <2> DEFINE p == k - 1
             far == count + (-e)
  <2>1. p \in Nat /\ far \in Nat /\ k = p + 1
    BY <1>1, <1>2, <1>4
  <2>2. p * o < count * Ticks - e * Ticks
    <3>1. k * o = p * o + o
      <4> HIDE DEF p
      <4> QED
        BY <1>1, <2>1
    <3> DEFINE po == p * o
               ct == count * Ticks
               et == e * Ticks
               ko == k * o
    <3>2. po \in Int /\ ct \in Int /\ et \in Int /\ ko \in Int
      BY <1>1, <1>2, <2>1
    <3>3. t + ko - o < ct /\ t >= et /\ ko = po + o
      BY <1>2, <1>3, <1>4, <3>1
    <3> HIDE DEF po, ct, et, ko
    <3>4. po < ct - et
      BY <1>1, <3>2, <3>3
    <3> QED
      BY <3>4 DEF po, ct, et
  <2>3. count * Ticks - e * Ticks = far * Ticks
    BY <1>1
  <2>4. p * Ticks <= p * o
    <3> HIDE DEF p
    <3>1. Ticks * p <= o * p
      BY <1>1, <2>1, Scaled
    <3>2. Ticks * p = p * Ticks /\ o * p = p * o
      BY <1>1, <2>1
    <3> QED
      BY <3>1, <3>2
  <2>5. p * Ticks < far * Ticks
    <3> DEFINE pt == p * Ticks
               ft == far * Ticks
               po == p * o
    <3>1. pt \in Int /\ ft \in Int /\ po \in Int /\ po < ft /\ pt <= po
      <4> HIDE DEF p, far
      <4> QED
        BY <1>1, <2>1, <2>2, <2>3, <2>4
    <3> HIDE DEF pt, ft, po
    <3>2. pt < ft
      BY <3>1
    <3> QED
      BY <3>2 DEF pt, ft
  <2>6. p < far
    <3> HIDE DEF p, far
    <3> SUFFICES ASSUME far <= p PROVE FALSE
      BY <2>1
    <3>1. far * Ticks <= p * Ticks
      BY <1>1, <2>1, Scaled
    <3> DEFINE pt == p * Ticks
               ft == far * Ticks
    <3>2. pt \in Int /\ ft \in Int /\ pt < ft /\ ft <= pt
      BY <1>1, <2>1, <2>5, <3>1
    <3> HIDE DEF pt, ft
    <3> QED
      BY <3>2
  <2> QED
    BY <1>1, <1>2, <2>1, <2>6 DEF k, e
<1>5. CASE ~(k > 0)
  <2>1. k = 0 /\ 0 <= MaxSupplied + (-e)
    BY <1>1, <1>2, <1>5
  <2> QED
    BY <1>1, <2>1 DEF k, e
<1> QED
  BY <1>4, <1>5

(* Skipped samples make every lane coast.                                  *)
LEMMA SkipIsSkip ==
  ASSUME IInv, LInv, NEW counts \in [Lanes -> Counts], Skip(counts), NEW lane \in Lanes
  PROVE  LaneStep(lane)
<1> DEFINE k == Coasted(lane, counts[lane])
           o == omega[lane]
           t == time[lane]
           s == supplied[lane]
           n == counts[lane]
           clock == Origin(lane) * Ticks + t
<1>1. /\ stage = "idle" /\ s + n <= MaxSupplied
      /\ time'[lane] = Max({(t + k * o) - n * Ticks, EarliestTime * Ticks})
      /\ symbols'[lane] = symbols[lane] + k /\ have_previous'[lane] = FALSE
      /\ supplied'[lane] = s + n
      /\ UNCHANGED <<poison, omega, ted, call, symbol>>
  BY DEF Skip
<1>2. batch = NoBatch /\ batch' = NoBatch /\ input_count[lane] = 0
  BY <1>1 DEF IInv, BatchInRange, NumbersOK, call
<1>3. LInv'
  BY SkipKeepsLInv
<1>4. /\ Log(lane) = << >> /\ Len(Log(lane)) = 0 /\ LockOf(lane) = ted[lane]
      /\ Log(lane)' = << >> /\ Len(Log(lane))' = 0 /\ LockOf(lane)' = ted'[lane]
  BY <1>2, <1>3, NoLog, NoLogAfter
<1>5. n \in Counts /\ n \in Nat /\ s \in Nat /\ t \in Int /\ o \in Int /\ Ticks \in Nat
      /\ symbols[lane] \in Nat
  BY LaneNumbers, ConstantsFacts DEF IInv, LInv, LoopsOK
<1>6. /\ k \in Nat /\ t + k * o >= n * Ticks
      /\ k > 0 => t + k * o - o < n * Ticks
  BY <1>5, CoastedFacts DEF IInv
<1>7. k \in 0 .. MaxSupplied + (-EarliestTime)
  BY <1>1, <1>5, CoastedBound
<1> DEFINE ko == k * o
           nt == n * Ticks
           st == s * Ticks
           et == EarliestTime * Ticks
<1>8. ko \in Int /\ nt \in Int /\ st \in Int /\ et \in Int /\ et <= 0
  BY <1>5, <1>6, TicksFacts
<1>9. time'[lane] = (t + ko) - nt
  <2> DEFINE moved == (t + ko) - nt
  <2>1. moved \in Int /\ moved >= et
    <3>1. t + ko >= nt
      BY <1>6
    <3> HIDE DEF ko, nt, et, t
    <3> QED
      BY <1>5, <1>8, <3>1
  <2>2. time'[lane] = Max({moved, et})
    BY <1>1
  <2> HIDE DEF moved, et
  <2>3. time'[lane] = moved
    BY <1>8, <2>1, <2>2, LargerFacts
  <2> QED
    BY <2>3 DEF moved
<1>10. clock = st + t /\ clock' = (s + n) * Ticks + time'[lane]
       /\ (s + n) * Ticks = st + nt
  <2>1. Origin(lane) = s /\ Origin(lane)' = s + n
    BY <1>1 DEF Origin, call
  <2>2. clock = st + t
    BY <2>1
  <2>3. (Origin(lane) * Ticks + time[lane])' = (s + n) * Ticks + time'[lane]
    BY <2>1
  <2>4. (s + n) * Ticks = st + nt
    <3> HIDE DEF s, n
    <3> QED
      BY <1>5
  <2> QED
    BY <2>2, <2>3, <2>4
<1>11. /\ clock' = clock + ko /\ clock' >= (s + n) * Ticks
       /\ k > 0 => clock' - o < (s + n) * Ticks
  <2>1. t + ko >= nt /\ (k > 0 => t + ko - o < nt)
    BY <1>6
  <2> HIDE DEF clock, ko, nt, st, t, o
  <2>2. clock' = (st + nt) + ((t + ko) - nt)
    BY <1>9, <1>10
  <2>3. clock' = st + t + ko
    BY <1>5, <1>8, <2>2
  <2>4. k > 0 => (st + t + ko) - o < st + nt
    BY <1>5, <1>8, <2>1
  <2>5. st + t + ko >= st + nt /\ (st + t) + ko = st + t + ko
    BY <1>5, <1>8, <2>1
  <2> QED
    BY <1>10, <2>3, <2>4, <2>5
<1>12. /\ (supplied[lane] + input_count[lane]) + n <= MaxSupplied
       /\ supplied[lane] + input_count[lane] = s
       /\ (supplied[lane] + input_count[lane])' = (supplied[lane] + input_count[lane]) + n
       /\ (supplied[lane] + input_count[lane])' = s + n
  <2>1. supplied'[lane] = s + n /\ input_count'[lane] = 0 /\ input_count[lane] = 0
    BY <1>1, <1>2 DEF call
  <2>2. (supplied[lane] + input_count[lane])' = s + n
    BY <1>5, <2>1
  <2>3. supplied[lane] + input_count[lane] = s
    BY <1>5, <2>1
  <2> HIDE DEF s, n
  <2> QED
    BY <1>1, <2>2, <2>3
<1>13. (symbols[lane] + Len(Log(lane)))' = (symbols[lane] + Len(Log(lane))) + k
  <2>1. symbols'[lane] = symbols[lane] + k /\ Len(Log(lane)) = 0 /\ Len(Log(lane))' = 0
    BY <1>1, <1>4
  <2>2. (symbols[lane] + Len(Log(lane)))' = (symbols[lane] + k) + 0
    BY <2>1
  <2> HIDE DEF k
  <2> QED
    BY <1>5, <1>6, <2>1, <2>2
<1>14. /\ UNCHANGED <<stage # "idle", LockOf(lane).mueller_muller, Run(LockOf(lane))>>
       /\ UNCHANGED <<room[lane] - Len(Log(lane)), poison[lane], omega[lane], truncated[lane],
                      symbol[lane]>>
  BY <1>1, <1>4 DEF Run, call
<1>15. Lane(lane)!Skip(n)
  <2>1. ~(stage # "idle") /\ have_previous'[lane] = FALSE
    BY <1>1
  <2>2. \E coasted \in 0 .. MaxSupplied + (-EarliestTime) :
          /\ (Origin(lane) * Ticks + time[lane])'
               = (Origin(lane) * Ticks + time[lane]) + coasted * omega[lane]
          /\ (symbols[lane] + Len(Log(lane)))' = (symbols[lane] + Len(Log(lane))) + coasted
          /\ (Origin(lane) * Ticks + time[lane])' >= (supplied[lane] + input_count[lane])' * Ticks
          /\ coasted > 0 => (Origin(lane) * Ticks + time[lane])' - omega[lane]
                              < (supplied[lane] + input_count[lane])' * Ticks
    <3> HIDE DEF k
    <3> WITNESS k \in 0 .. MaxSupplied + (-EarliestTime)
    <3> QED
      BY <1>11, <1>12, <1>13
  <2> QED
    BY <1>12, <1>14, <2>1, <2>2 DEF Lane!Skip
<1> QED
  BY <1>5, <1>15 DEF LaneStep, Lane!Next

-----------------------------------------------------------------------------
(* Every lane is the timing loop SymbolLane describes, on its own: block   *)
(* boundaries, the seam, the other lanes, batches and their replayed lock  *)
(* tracking leave no trace in its symbols.                                 *)
THEOREM LanesAreLanes == Spec => AreLanes
<1>1. Init => \A lane \in Lanes : Lane(lane)!Init
  BY LanesBegin
<1>2. ASSUME IInv, LInv, [Next]_vars
      PROVE  [\A lane \in Lanes : LaneStep(lane)]_vars
  <2>1. CASE UNCHANGED vars
    BY <2>1
  <2>2. CASE Next
    <3> SUFFICES ASSUME NEW lane \in Lanes PROVE LaneStep(lane)
      OBVIOUS
    <3>1. CASE GenericStep \/ MaskedStep
      BY <1>2, <3>1, LoopStepIsLanes
    <3>2. CASE BatchBegin
      BY <1>2, <3>2, BatchBeginIsUnseen
    <3>3. CASE BatchStep
      BY <1>2, <3>3, BatchStepIsLanes
    <3>4. CASE SeamDone
      BY <1>2, <3>4, SeamDoneIsUnseen
    <3>5. CASE Return
      BY <1>2, <3>5, ReturnIsFinish
    <3>6. CASE Reset
      BY <1>2, <3>6, ResetIsReset
    <3>7. ASSUME NEW counts \in [Lanes -> Counts], NEW capacities \in [Lanes -> Capacities],
                 Execute(counts, capacities)
          PROVE  LaneStep(lane)
      BY <1>2, <3>7, ExecuteIsFeed
    <3>8. ASSUME NEW counts \in [Lanes -> Counts], Skip(counts)
          PROVE  LaneStep(lane)
      BY <1>2, <3>8, SkipIsSkip
    <3> QED
      BY <2>2, <3>1, <3>2, <3>3, <3>4, <3>5, <3>6, <3>7, <3>8 DEF Next
  <2> QED
    BY <1>2, <2>1, <2>2
<1> QED
  BY <1>1, <1>2, Inductive, AlsoInductive, PTL DEF Spec, AreLanes
=============================================================================
