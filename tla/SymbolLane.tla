----------------------------- MODULE SymbolLane ------------------------------
(***************************************************************************)
(* What one lane of the symbol synchronizer promises.                      *)
(*                                                                         *)
(* A lane is a timing loop over an endless sequence of samples, numbered   *)
(* from 0.  Each symbol is interpolated from the four samples around its   *)
(* position, with a Gardner detector also from those half a symbol before; *)
(* the next symbol follows omega later, corrected by the detector's error. *)
(* How the samples were cut into blocks, and what the other lanes do, has  *)
(* no influence.                                                           *)
(*                                                                         *)
(* Positions and omega are in ticks, Ticks of them to a sample.            *)
(***************************************************************************)
EXTENDS Integers

CONSTANTS
  Ticks,
  Omega, OmegaMin, OmegaMax,  \* ticks per symbol at the start, least and most
  Alpha, Beta,                \* loop gains
  Errors,                     \* finite detector errors
  Poisons,                    \* how a non-finite error can throw the loop off
  StartsMuellerMuller, AutoTed, Fallback,
  MinSymbols, MmHold, FallbackHold,
  Reach,                      \* samples behind the newest a symbol may lie
  Counts, Capacities,         \* sizes of the blocks and output buffers
  MaxSupplied                 \* bound on the length of the stream

VARIABLES
  busy,             \* a call is running
  supplied,         \* samples given to the lane so far
  clock,            \* position of the next symbol
  thrown,           \* "no", or where a non-finite error threw the clock
  omega,
  previous,         \* there is a symbol to compare with
  symbols,          \* symbols produced or skipped
  mueller_muller,   \* the detector in use
  run,              \* consecutive symbols that speak for the other one
  room,             \* symbols that still fit into the output buffer
  truncated,        \* the last call dropped the rest of its block
  symbol            \* the samples the last symbol was made from

vars == <<busy, supplied, clock, thrown, omega, previous, symbols, mueller_muller, run,
          room, truncated, symbol>>

-----------------------------------------------------------------------------
Silence == -1
Sample(n) == IF n < 0 THEN Silence ELSE n

(* The four samples around a position, given in halves of a tick.          *)
Around(halves) == [tap \in 0 .. 3 |-> Sample((halves \div (2 * Ticks)) - 1 + tap)]

NoSymbol == [at |-> "none", mid |-> "none"]
Garbage == [at |-> "not a number", mid |-> "not a number"]

Symbol == [at  |-> Around(2 * clock),
           mid |-> IF mueller_muller THEN "none" ELSE Around(2 * clock - omega)]

Clamped(value) == IF value < OmegaMin THEN OmegaMin
                  ELSE IF value > OmegaMax THEN OmegaMax ELSE value

(* The last position whose four samples have all been supplied is just     *)
(* before this one.                                                        *)
Limit == (supplied - 2) * Ticks
Pending == thrown = "behind" \/ (thrown = "no" /\ clock < Limit)

Init ==
  /\ ~busy /\ supplied = 0 /\ clock = Ticks /\ thrown = "no" /\ omega = Omega
  /\ ~previous /\ symbols = 0 /\ mueller_muller = StartsMuellerMuller /\ run = 0
  /\ room = 0 /\ ~truncated /\ symbol = NoSymbol

Feed(count, capacity) ==
  /\ ~busy /\ supplied + count <= MaxSupplied
  /\ busy' = TRUE /\ supplied' = supplied + count /\ room' = capacity
  /\ truncated' = FALSE
  /\ UNCHANGED <<clock, thrown, omega, previous, symbols, mueller_muller, run, symbol>>

(* The detector is replaced after Hold consecutive symbols that speak for  *)
(* the other one.                                                          *)
Hold == IF mueller_muller THEN FallbackHold ELSE MmHold
Watched == /\ AutoTed /\ previous
           /\ IF mueller_muller THEN Fallback ELSE symbols >= MinSymbols

Track(speaks) ==
  \/ ~Watched /\ UNCHANGED <<mueller_muller, run>>
  \/ Watched /\ ~speaks /\ run' = 0 /\ UNCHANGED mueller_muller
  \/ /\ Watched /\ speaks
     /\ IF run + 1 = Hold
        THEN run' = 0 /\ mueller_muller' = ~mueller_muller
        ELSE run' = run + 1 /\ UNCHANGED mueller_muller

Produce ==
  /\ busy /\ Pending /\ room > 0
  /\ room' = room - 1 /\ symbols' = symbols + 1 /\ previous' = TRUE
  /\ UNCHANGED <<busy, supplied, truncated>>

ProduceSymbol(error, speaks) ==
  /\ Produce /\ thrown = "no" /\ (~previous => error = 0)
  /\ symbol' = Symbol
  /\ omega' = Clamped(omega + Beta * error)
  /\ clock' = clock + omega' + Alpha * error
  /\ Track(speaks) /\ UNCHANGED thrown

(* A symbol made from a non-finite sample throws the clock off.            *)
ProducePoisoned(poison) ==
  /\ Produce /\ thrown = "no" /\ previous
  /\ symbol' = Symbol
  /\ thrown' = poison /\ omega' \in {OmegaMin, OmegaMax}
  /\ Track(FALSE) /\ UNCHANGED clock

ProduceGarbage ==
  /\ Produce /\ thrown = "behind"
  /\ symbol' = Garbage /\ thrown' = "ahead" /\ omega' \in {OmegaMin, OmegaMax}
  /\ Track(FALSE) /\ UNCHANGED clock

(* A call ends when nothing more can be made of its samples or no output   *)
(* fits.  What was dropped is out of reach for the next call.              *)
Finish ==
  /\ busy /\ (Pending => room = 0)
  /\ busy' = FALSE /\ truncated' = Pending
  /\ LET oldest == (supplied - Reach) * Ticks
     IN  IF thrown # "no"
         THEN clock' = oldest /\ omega' = Omega /\ previous' = FALSE
         ELSE /\ clock' = IF clock < oldest THEN oldest ELSE clock
              /\ UNCHANGED <<omega, previous>>
  /\ thrown' = "no" /\ room' = 0 /\ symbol' = NoSymbol
  /\ UNCHANGED <<supplied, symbols, mueller_muller, run>>

(* Skipped samples move the clock along the grid of the current omega, at  *)
(* least a sample at a time.                                               *)
Skip(count) ==
  /\ ~busy /\ supplied + count <= MaxSupplied
  /\ supplied' = supplied + count
  /\ \E coasted \in 0 .. MaxSupplied + Reach :
       /\ clock' = clock + coasted * omega /\ symbols' = symbols + coasted
       /\ clock' >= supplied' * Ticks
       /\ coasted > 0 => clock' - omega < supplied' * Ticks
  /\ previous' = FALSE
  /\ UNCHANGED <<busy, thrown, omega, mueller_muller, run, room, truncated, symbol>>

Reset ==
  /\ ~busy
  /\ supplied' = 0 /\ clock' = Ticks /\ omega' = Omega /\ ~previous'
  /\ symbols' = 0 /\ mueller_muller' = StartsMuellerMuller /\ run' = 0
  /\ ~truncated' /\ UNCHANGED <<busy, thrown, room, symbol>>

Next ==
  \/ \E count \in Counts, capacity \in Capacities : Feed(count, capacity)
  \/ \E error \in Errors \cup {0}, speaks \in BOOLEAN : ProduceSymbol(error, speaks)
  \/ \E poison \in Poisons : ProducePoisoned(poison)
  \/ ProduceGarbage \/ Finish \/ Reset
  \/ \E count \in Counts : Skip(count)

Spec == Init /\ [][Next]_vars
=============================================================================
