----------------------------- MODULE CostasLane ------------------------------
(***************************************************************************)
(* What one lane of the QPSK Costas loop promises.                         *)
(*                                                                         *)
(* The lane turns every sample back by the angle of its oscillator.  The   *)
(* phase error it finds corrects the oscillator's frequency and decides a  *)
(* step, which the oscillator makes Delay samples later.  Neither the cut  *)
(* of the stream into blocks nor the other lanes have an influence.        *)
(*                                                                         *)
(* Angles are whole units, Turn of them to a full turn.                    *)
(***************************************************************************)
EXTENDS Integers, Sequences

CONSTANTS
  Turn, Delay,
  Alpha, Beta, Clip,           \* loop gains, bound of the error or 0
  Phase, Frequency,            \* where the loop starts
  Errors,                      \* what the detector may find
  Limits, Overrides,           \* frequency bounds or 0, and frequencies to impose
  SkipCounts, QuarterTurns,
  Copies,                      \* states a lane may take over
  MaxFrequency                 \* bound on the frequencies that are explored

VARIABLES
  busy, limit,                 \* a block is processed, with this frequency bound
  angle, frequency, last_error,
  decided                      \* the next Delay steps of the oscillator

vars == <<busy, limit, angle, frequency, last_error, decided>>

-----------------------------------------------------------------------------
Bounded(value, bound) ==
  IF bound = 0 THEN value
  ELSE IF value < -bound THEN -bound ELSE IF value > bound THEN bound ELSE value

Still == [step \in 1 .. Delay |-> 0]

Init ==
  /\ ~busy /\ limit = 0 /\ last_error = 0
  /\ angle = Phase % Turn /\ frequency = Frequency /\ decided = Still

Begin(bound) ==
  /\ ~busy /\ busy' = TRUE /\ limit' = bound
  /\ frequency' \in {frequency} \cup Overrides
  /\ UNCHANGED <<angle, last_error, decided>>

Sample(error) ==
  /\ busy
  /\ last_error' = Bounded(error, Clip)
  /\ frequency' = Bounded(frequency + Beta * last_error', limit)
  /\ frequency' \in -MaxFrequency .. MaxFrequency
  /\ angle' = (angle + Head(decided)) % Turn
  /\ decided' = Append(Tail(decided), frequency' + Alpha * last_error')
  /\ UNCHANGED <<busy, limit>>

End == busy /\ busy' = FALSE /\ limit' = 0 /\ UNCHANGED <<angle, frequency, last_error, decided>>

(* The oscillator coasts: it moves on as it would without an error.        *)
Coast(loop) ==
  [angle |-> (loop.angle + Head(loop.decided)) % Turn,
   decided |-> Append(Tail(loop.decided), frequency)]

Coasting(count) ==
  LET after[n \in 0 .. count] ==
        IF n = 0 THEN [angle |-> angle, decided |-> decided] ELSE Coast(after[n - 1])
  IN  after[count]

Skip(count) ==
  /\ ~busy /\ count > 0
  /\ angle' = Coasting(count).angle /\ decided' = Coasting(count).decided
  /\ last_error' = 0
  /\ UNCHANGED <<busy, limit, frequency>>

Rotate(turns) ==
  /\ ~busy
  /\ angle' = (angle + turns * (Turn \div 4)) % Turn
  /\ UNCHANGED <<busy, limit, frequency, last_error, decided>>

Reset ==
  /\ ~busy
  /\ angle' = Phase % Turn /\ frequency' = Frequency /\ decided' = Still /\ last_error' = 0
  /\ UNCHANGED <<busy, limit>>

(* Go on from where another lane is.                                       *)
Copy(other) ==
  /\ ~busy
  /\ [angle |-> angle', frequency |-> frequency', last_error |-> last_error',
      decided |-> decided'] = other
  /\ UNCHANGED <<busy, limit>>

Next ==
  \/ \E bound \in Limits : Begin(bound)
  \/ \E error \in Errors : Sample(error)
  \/ End \/ Reset
  \/ \E count \in SkipCounts : Skip(count)
  \/ \E turns \in QuarterTurns : Rotate(turns)
  \/ \E other \in Copies : Copy(other)

Spec == Init /\ [][Next]_vars
=============================================================================
