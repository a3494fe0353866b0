--------------------------- MODULE StreamingKernel ---------------------------
(***************************************************************************)
(* What a kernel with streaming state promises to its caller: the first    *)
(* call that succeeds creates the state from the configuration that is     *)
(* set, later ones continue the stream, and a call that is refused has not *)
(* happened.                                                               *)
(*                                                                         *)
(* Parameters change only in calls that set them, and not at all when such *)
(* a call is refused.  Commands among them are for one execution: the next *)
(* one, whatever becomes of it.                                            *)
(***************************************************************************)
EXTENDS Integers

CONSTANTS
  NoState,       \* no state has been created yet
  CreationIds,   \* parameters the state is created from
  Positions,     \* lengths a stream can have
  Failures       \* results of a call that is refused

VARIABLES
  stream,        \* NoState, or the configuration and the samples consumed
  settings,      \* the parameters the caller has set
  answer         \* the last call, its result and the samples it was given

vars == <<stream, settings, answer>>

-----------------------------------------------------------------------------
Executions == {"process", "restart", "query"}

(* What the next execution is asked to do.                                 *)
Requested == IF settings["query"] = "on" THEN "query"
             ELSE IF settings["reset"] = "on" THEN "restart" ELSE "process"

CommandsConsumed == settings' = [settings EXCEPT !["reset"] = "off", !["query"] = "off"]

Answered(call) == answer'.call = call /\ answer'.result = "SUCCESS"

At(config, position) == [config |-> config, position |-> position]

Consumed == IF stream = NoState THEN 0 ELSE stream.position

(* The stream an execution works on: the first one creates it.             *)
Config == IF stream = NoState THEN settings["config"] ELSE stream.config

Init ==
  /\ stream = NoState /\ Requested = "process"
  /\ answer = [call |-> "none", result |-> "SUCCESS", count |-> 0]

(* A call that is refused has not happened, only that an execution uses up *)
(* its commands.                                                           *)
Refuse ==
  /\ answer'.result \in Failures /\ UNCHANGED stream
  /\ IF answer'.call \in Executions
     THEN answer'.call = Requested /\ CommandsConsumed
     ELSE UNCHANGED settings

(* A live stream keeps the parameters it was created from.                 *)
Configure ==
  /\ Answered("configure") /\ UNCHANGED stream
  /\ DOMAIN settings' = DOMAIN settings
  /\ stream # NoState => \A id \in CreationIds : settings'[id] = settings[id]

Executed(call, position) ==
  /\ Answered(call) /\ call = Requested /\ CommandsConsumed
  /\ stream' = At(Config, position) /\ stream' # NoState

(* Consume a block.                                                        *)
Process == Executed("process", Consumed + answer'.count)

(* Consume a block as the first one of a new stream.                       *)
Restart == Executed("restart", answer'.count)

(* Ask what a block would produce.                                         *)
Query == Executed("query", Consumed)

(* Consume a block without output.                                         *)
Pass ==
  /\ stream # NoState /\ Answered("pass") /\ UNCHANGED settings
  /\ stream' = At(stream.config, Consumed + answer'.count)

(* Turn what has been consumed, and stay where it ends.                    *)
Rotate == stream # NoState /\ Answered("rotate") /\ UNCHANGED <<stream, settings>>

(* Start again at once; a command to do so would have nothing left to do.  *)
Reset ==
  /\ stream # NoState /\ Answered("reset")
  /\ stream' = At(stream.config, 0)
  /\ settings' = [settings EXCEPT !["reset"] = "off"]

(* Take over the position of a kernel with the same configuration.         *)
Copy(position) ==
  /\ stream # NoState /\ Answered("copy") /\ UNCHANGED settings
  /\ stream' = At(stream.config, position)

Next ==
  \/ Refuse \/ Configure \/ Process \/ Restart \/ Query \/ Pass \/ Rotate \/ Reset
  \/ \E position \in Positions : Copy(position)

Spec == Init /\ [][Next]_vars
=============================================================================
