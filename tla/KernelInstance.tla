--------------------------- MODULE KernelInstance ----------------------------
(***************************************************************************)
(* One kernel instance with streaming state behind the C API: its          *)
(* parameters, the creation of its state by the first execution, and every *)
(* operation that moves the state.                                         *)
(*                                                                         *)
(* An execution is a sequence of steps, each of which may refuse it.  The  *)
(* stream itself is abstracted to the samples consumed, from which a       *)
(* channelizer knows the outputs of the next block (PfbRing).              *)
(*                                                                         *)
(* A definition whose comment starts with Fault is no part of the model:   *)
(* it is the definition that follows it with a plausible mistake, which a  *)
(* property below must notice.                                             *)
(***************************************************************************)
EXTENDS Integers

CONSTANTS
  Kinds,          \* kernel ids explored
  Configs,        \* creation parameters that are complete and accepted
  Blind,          \* those of Configs that select no channelizer outputs
  Rejected,       \* creation parameters that are complete and rejected
  NoState,
  Decimation,
  BlockSizes,     \* sizes of the blocks callers pass
  Capacities,     \* sizes of the output buffers callers pass
  MaxPosition     \* bound on the length of the stream that is explored

ASSUME ConstantsAssumption ==
  /\ Decimation \in Nat \ {0} /\ MaxPosition \in Nat
  /\ BlockSizes \subseteq 0 .. MaxPosition /\ Capacities \subseteq Nat
  /\ Blind \subseteq Configs
  /\ "unset" \notin Configs /\ Configs \cap Rejected = {}

-----------------------------------------------------------------------------
Pfb == "pfb_channelizer"
Costas == "costas4"
Analyzer == "carrier_analyzer"
SymbolSync == "symbol_sync4"
Viterbi == "viterbi_k7r2"

CreatedInPlace == {SymbolSync, Viterbi}
Copyable == {Pfb, Costas, SymbolSync}
Passable == {Pfb, Costas, SymbolSync}

(* Parameters: "config" stands for everything that is copied into the      *)
(* state, "context" for backend, math mode and energy preference.          *)
CreationIds == {"config", "context"}
CommandIds == {"reset", "query"}
Ids == CreationIds \cup CommandIds \cup {"output_count"}
ParamValues(id) ==
  CASE id = "config" -> {"unset"} \cup Configs \cup Rejected
    [] id = "context" -> {"available", "unavailable"}
    [] OTHER -> {"off", "on"}

GivenValues(id) == ParamValues(id) \cup {"out_of_range"}

Defaults == [id \in Ids |-> CASE id = "config" -> "unset"
                              [] id = "context" -> "available"
                              [] OTHER -> "off"]

Failures == {"INVALID_ARGUMENT", "INVALID_STATE", "INVALID_SIZE", "OVERLAPPING_BUFFERS",
             "UNSUPPORTED_BACKEND", "OUT_OF_MEMORY"}

Positions == 0 .. MaxPosition
States == [config : Configs, position : Positions]

ASSUME NoStateAssumption == NoState \notin States

(* A block and the buffers for its outputs; data is FALSE where a          *)
(* descriptor points nowhere or a block field is invalid, overlap TRUE     *)
(* where an output buffer starts inside another buffer.                    *)
Requests(id) ==
  {block \in [input : BOOLEAN, data : BOOLEAN, count : BlockSizes \cup {0},
              output : {"null", "mismatch", "buffers"},
              capacity : Capacities \cup {0}, overlap : BOOLEAN] :
     /\ ~block.input => block.count = 0 /\ ~block.data
     /\ id # Pfb \/ block.output # "buffers" => block.capacity = 0 /\ ~block.overlap}

NoRequest == [input |-> FALSE, data |-> FALSE, count |-> 0, output |-> "null",
              capacity |-> 0, overlap |-> FALSE]

-----------------------------------------------------------------------------
VARIABLES
  kind,         \* uni_simd_kernel_t::id
  params,       \* uni_simd_kernel_t::params
  streaming,    \* the kernel's state: its configuration and position
  pending,      \* state an execution creates and has not committed
  creating,     \* an execution creates the state in place
  stage,        \* how far the execution is, or "idle"
  request,      \* what it was called with
  counted,      \* *output_count, or -1 while nobody has written it
  answer,       \* the last call, its result and the samples it was given
  entered,      \* history variable: streaming when the last call started
  foretold      \* history variable: the last query that still stands

instance == <<kind, params, streaming>>
execution == <<pending, creating, stage, request>>
vars == <<instance, execution, counted, answer, entered, foretold>>

NoForecast == [count |-> 0, hops |-> -1]

-----------------------------------------------------------------------------
(* Parameters.                                                             *)

Created == streaming # NoState
Given(id) == params[id] = "on"

Allowed(id) == id \in CreationIds \/ kind = Pfb

(* Fault: creation parameters can be replaced under a live state.          *)
SetResultUnfrozen(id, value) ==
  IF Allowed(id) /\ value \in ParamValues(id) THEN "SUCCESS" ELSE "INVALID_ARGUMENT"

(* Fault: a value is not compared with the largest one.                    *)
SetResultUnbounded(id, value) ==
  CASE ~Allowed(id) -> "INVALID_ARGUMENT"
    [] Allowed(id) /\ Created /\ id \in CreationIds -> "INVALID_STATE"
    [] OTHER -> "SUCCESS"

(* set_parameter                                                           *)
SetResult(id, value) ==
  CASE ~Allowed(id) -> "INVALID_ARGUMENT"
    [] Allowed(id) /\ Created /\ id \in CreationIds -> "INVALID_STATE"
    [] OTHER -> IF value \in ParamValues(id) THEN "SUCCESS" ELSE "INVALID_ARGUMENT"

Answer(call, result, count) == answer' = [call |-> call, result |-> result, count |-> count]

(* A call that is one step.                                                *)
Call(call, result, count) ==
  stage = "idle" /\ entered' = streaming /\ Answer(call, result, count)

ParamSet(id, value) ==
  LET result == SetResult(id, value)
  IN  /\ Call("configure", result, 0)
      /\ params' = IF result = "SUCCESS" THEN [params EXCEPT ![id] = value] ELSE params
      /\ UNCHANGED <<kind, streaming, execution, counted, foretold>>

(* All parameters of a list are set, or none is.                           *)
ParamSetMany(first, first_value, second, second_value) ==
  LET one == SetResult(first, first_value)
      two == SetResult(second, second_value)
      result == IF one # "SUCCESS" THEN one ELSE two
  IN  /\ Call("configure", result, 0)
      /\ params' = IF result = "SUCCESS"
                    THEN [params EXCEPT ![first] = first_value, ![second] = second_value]
                    ELSE params
      /\ UNCHANGED <<kind, streaming, execution, counted, foretold>>

-----------------------------------------------------------------------------
(* Operations on existing state.                                           *)

ForgetForecast == foretold' = IF answer'.result = "SUCCESS" THEN NoForecast ELSE foretold

Reset ==
  /\ Call("reset", IF Created THEN "SUCCESS" ELSE "INVALID_STATE", 0)
  /\ streaming' = IF Created THEN [streaming EXCEPT !.position = 0] ELSE streaming
  /\ params' = IF Created THEN [params EXCEPT !["reset"] = "off"] ELSE params
  /\ ForgetForecast
  /\ UNCHANGED <<kind, execution, counted>>

CopyStateResult(source) ==
  CASE kind \notin Copyable -> "INVALID_ARGUMENT"
    [] kind \in Copyable /\ (~Created \/ source = NoState) -> "INVALID_STATE"
    [] OTHER -> IF source.config = streaming.config THEN "SUCCESS" ELSE "INVALID_ARGUMENT"

(* Take over the state of another instance of the same kind.               *)
CopyState(source) ==
  /\ Call("copy", CopyStateResult(source), 0)
  /\ streaming' = IF CopyStateResult(source) = "SUCCESS" THEN source ELSE streaming
  /\ ForgetForecast
  /\ UNCHANGED <<kind, params, execution, counted>>

(* A channelizer looks at the descriptor first, a synchronizer at its      *)
(* state; a Costas loop is only told how many samples to skip.             *)
PassResult(count, data) ==
  LET dangling == ~data /\ count # 0
  IN  IF kind \notin Passable \/ (kind = Pfb /\ dangling) THEN "INVALID_ARGUMENT"
      ELSE IF ~Created THEN "INVALID_STATE"
      ELSE IF kind = SymbolSync /\ dangling THEN "INVALID_ARGUMENT" ELSE "SUCCESS"

(* advance of a channelizer, skip of a Costas loop or a synchronizer.      *)
Pass(count, data) ==
  LET result == PassResult(count, data)
  IN  /\ Created => streaming.position + count <= MaxPosition
      /\ Call("pass", result, count)
      /\ streaming' = IF result = "SUCCESS" THEN [streaming EXCEPT !.position = @ + count]
                      ELSE streaming
      /\ ForgetForecast
      /\ UNCHANGED <<kind, params, execution, counted>>

(* uni_simd_qpsk_costas4_rotate                                            *)
RotateResult(turns) ==
  IF kind # Costas THEN "INVALID_ARGUMENT"
  ELSE IF ~Created THEN "INVALID_STATE"
  ELSE IF turns THEN "SUCCESS" ELSE "INVALID_ARGUMENT"

(* Rotation by some quarter turns, or by none that are there.              *)
Rotate(turns) ==
  /\ Call("rotate", RotateResult(turns), 0)
  /\ UNCHANGED <<kind, params, streaming, execution, counted, foretold>>

-----------------------------------------------------------------------------
(* uni_simd_kernel_execute                                                 *)

Execute(block) ==
  /\ stage = "idle"
  /\ Created => streaming.position + block.count <= MaxPosition
  /\ stage' = "entered" /\ request' = block /\ entered' = streaming
  /\ UNCHANGED <<instance, pending, creating, counted, answer, foretold>>

Command == IF Given("query") THEN "query" ELSE IF Given("reset") THEN "restart" ELSE "process"

(* Fault: an execution that is refused keeps its commands for the next.    *)
ReturnKeepingCommands(result) ==
  /\ stage' = "idle" /\ request' = NoRequest /\ pending' = NoState /\ creating' = FALSE
  /\ params' = IF result = "SUCCESS" THEN [params EXCEPT !["reset"] = "off", !["query"] = "off"]
               ELSE params
  /\ Answer(Command, result, request.count)
  /\ UNCHANGED <<kind, entered>>

(* However an execution ends, it consumes the one-shot commands.           *)
Return(result) ==
  /\ stage' = "idle" /\ request' = NoRequest /\ pending' = NoState /\ creating' = FALSE
  /\ params' = [params EXCEPT !["reset"] = "off", !["query"] = "off"]
  /\ Answer(Command, result, request.count)
  /\ UNCHANGED <<kind, entered>>

(* Fault: state created in place stays when its first execution fails.     *)
RefusedInPlaceState(result) ==
  Return(result) /\ UNCHANGED <<streaming, counted, foretold>>

(* State that a refused execution created is dropped.                      *)
Refused(result) ==
  /\ Return(result)
  /\ streaming' = IF creating THEN NoState ELSE streaming
  /\ UNCHANGED <<counted, foretold>>

(* A context is looked up unless a channelizer already has its state.      *)
ContextMissing == params["context"] = "unavailable" /\ ~(kind = Pfb /\ Created)

ContextRefused ==
  /\ stage = "entered" /\ ContextMissing
  /\ Refused("UNSUPPORTED_BACKEND")

(* Kernels other than the channelizer ask for these before anything else.  *)
ArgumentsMissing ==
  /\ kind # Pfb
  /\ \/ ~request.input
     \/ params["config"] = "unset"
     \/ kind # Costas /\ request.output = "null"

ArgumentsRefused ==
  /\ stage = "entered" /\ ~ContextMissing /\ ArgumentsMissing
  /\ Refused("INVALID_ARGUMENT")

ArgumentsAccepted == stage = "entered" /\ ~ContextMissing /\ ~ArgumentsMissing

(* The first execution creates the state: in a local variable, or in place.*)
CreateRefused ==
  /\ ArgumentsAccepted /\ ~Created
  /\ \/ params["config"] \notin Configs /\ Refused("INVALID_ARGUMENT")
     \/ kind = Pfb /\ Refused("OUT_OF_MEMORY")

Create ==
  /\ ArgumentsAccepted /\ ~Created /\ params["config"] \in Configs
  /\ LET made == [config |-> params["config"], position |-> 0]
     IN  IF kind \in CreatedInPlace
         THEN streaming' = made /\ creating' = TRUE /\ UNCHANGED pending
         ELSE pending' = made /\ UNCHANGED <<streaming, creating>>
  /\ stage' = "created"
  /\ UNCHANGED <<kind, params, request, counted, answer, entered, foretold>>

UseCreated ==
  /\ ArgumentsAccepted /\ Created /\ stage' = "created"
  /\ UNCHANGED <<instance, pending, creating, request, counted, answer, entered, foretold>>

Active == IF pending # NoState THEN pending ELSE streaming

MoveActiveTo(position) ==
  IF pending # NoState
  THEN pending' = [pending EXCEPT !.position = position] /\ UNCHANGED streaming
  ELSE streaming' = [streaming EXCEPT !.position = position] /\ UNCHANGED pending

(* The execution succeeds: commit what it created.                         *)
Commit(position) ==
  /\ Return("SUCCESS")
  /\ streaming' = [Active EXCEPT !.position = position]

-----------------------------------------------------------------------------
(* execute_pfb                                                             *)

(* Fault: every block is counted like the first one of a stream.           *)
OutputCountFromStart(phase, count) ==
  IF count = 0 THEN 0 ELSE 1 + (count - 1) \div Decimation

(* pfb_output_count_unchecked                                              *)
OutputCount(phase, count) ==
  LET first == IF phase = 0 THEN 0 ELSE Decimation - phase
  IN  IF count = 0 \/ first >= count THEN 0 ELSE 1 + (count - 1 - first) \div Decimation

(* Hops a channelizer delivers before sample n.                            *)
HopsBefore(n) == (n + Decimation - 1) \div Decimation
Hops(position, count) == HopsBefore(position + count) - HopsBefore(position)

Count(hops) == counted' = IF Given("output_count") THEN hops ELSE counted

(* Outputs the caller must have room for.                                  *)
Expected ==
  IF Given("reset") THEN IF request.count = 0 THEN 0 ELSE 1 + (request.count - 1) \div Decimation
  ELSE OutputCount(Active.position % Decimation, request.count)

(* Two buffers overlap when outputs are written into shared memory.        *)
BuffersRefused(hops) ==
  /\ request.output = "buffers" /\ Active.config \notin Blind
  /\ request.capacity < hops \/ (request.overlap /\ hops > 0)

BuffersResult == IF request.capacity < Expected THEN "INVALID_SIZE" ELSE "OVERLAPPING_BUFFERS"

CommandsConflict == Given("reset") /\ Given("query")

PfbArguments ==
  /\ stage = "created" /\ kind = Pfb /\ ~CommandsConflict

PfbArgumentsRefused ==
  /\ stage = "created" /\ kind = Pfb
  /\ \/ CommandsConflict
     \/ ~request.input /\ \/ request.output # "null" \/ Given("query")
                          \/ pending = NoState /\ ~Given("reset")
     \/ request.input /\ Given("query") /\ ~Given("output_count")
     \/ request.input /\ ~Given("query")
          /\ \/ request.count # 0 /\ ~request.data
             \/ request.output = "null" /\ Active.config \notin Blind
             \/ request.output = "mismatch"
  /\ Refused("INVALID_ARGUMENT")

(* Without input an execution creates the state, resets it, or both.       *)
PfbWithoutInput ==
  /\ PfbArguments /\ ~request.input /\ request.output = "null" /\ ~Given("query")
  /\ pending # NoState \/ Given("reset")
  /\ Commit(IF Given("reset") THEN 0 ELSE Active.position)
  /\ Count(0) /\ foretold' = NoForecast

PfbQuery ==
  /\ PfbArguments /\ request.input /\ Given("query") /\ Given("output_count")
  /\ Commit(Active.position)
  /\ Count(Expected)
  /\ foretold' = [count |-> request.count, hops |-> Expected]

PfbBlock ==
  /\ PfbArguments /\ request.input /\ ~Given("query")
  /\ request.count # 0 => request.data
  /\ request.output = "buffers" \/ (request.output = "null" /\ Active.config \in Blind)

(* Before a reset the buffers are checked for the outputs after it.        *)
PfbResetRefused ==
  /\ PfbBlock /\ Given("reset") /\ BuffersRefused(Expected)
  /\ Refused(BuffersResult)

PfbResetAccepted ==
  /\ PfbBlock /\ (Given("reset") => ~BuffersRefused(Expected))
  /\ IF Given("reset") THEN MoveActiveTo(0) ELSE UNCHANGED <<streaming, pending>>
  /\ stage' = "processing"
  /\ UNCHANGED <<kind, params, creating, request, counted, answer, entered, foretold>>

(* PfbChannelizer::process                                                 *)
PfbProcessHops == OutputCount(Active.position % Decimation, request.count)

PfbProcessRefused ==
  /\ stage = "processing" /\ BuffersRefused(PfbProcessHops)
  /\ Refused(IF request.capacity < PfbProcessHops THEN "INVALID_SIZE" ELSE "OVERLAPPING_BUFFERS")

PfbProcess ==
  /\ stage = "processing" /\ ~BuffersRefused(PfbProcessHops)
  /\ Commit(Active.position + request.count)
  /\ Count(Hops(Active.position, request.count))
  /\ foretold' = NoForecast

(* The other kernels refuse an invalid block or consume it.                *)
BlockRefused ==
  /\ stage = "created" /\ kind # Pfb /\ ~request.data
  /\ Refused("INVALID_ARGUMENT")

BlockProcess ==
  /\ stage = "created" /\ kind # Pfb /\ request.data
  /\ Commit(Active.position + request.count)
  /\ UNCHANGED <<counted, foretold>>

-----------------------------------------------------------------------------
Init ==
  /\ kind \in Kinds /\ params = Defaults /\ streaming = NoState
  /\ pending = NoState /\ creating = FALSE /\ stage = "idle" /\ request = NoRequest
  /\ counted = -1 /\ answer = [call |-> "none", result |-> "SUCCESS", count |-> 0]
  /\ entered = NoState /\ foretold = NoForecast

Executing ==
  \/ ContextRefused \/ ArgumentsRefused \/ CreateRefused \/ Create \/ UseCreated
  \/ PfbArgumentsRefused \/ PfbWithoutInput \/ PfbQuery
  \/ PfbResetRefused \/ PfbResetAccepted \/ PfbProcessRefused \/ PfbProcess
  \/ BlockRefused \/ BlockProcess

Next ==
  \/ Executing \/ Reset
  \/ \E block \in Requests(kind) : Execute(block)
  \/ \E id \in Ids : \E value \in GivenValues(id) : ParamSet(id, value)
  \/ \E first, second \in Ids :
       \E first_value \in GivenValues(first), second_value \in GivenValues(second) :
         ParamSetMany(first, first_value, second, second_value)
  \/ \E source \in States \cup {NoState} : CopyState(source)
  \/ \E count \in BlockSizes, data \in BOOLEAN : Pass(count, data)
  \/ \E turns \in BOOLEAN : Rotate(turns)

Spec == Init /\ [][Next]_vars

-----------------------------------------------------------------------------
Results == Failures \cup {"SUCCESS"}
Calls == {"none", "configure", "process", "restart", "query", "pass", "rotate", "reset",
          "copy"}

TypeOK ==
  /\ kind \in Kinds
  /\ params \in [Ids -> UNION {ParamValues(id) : id \in Ids}]
  /\ \A id \in Ids : params[id] \in ParamValues(id)
  /\ {streaming, pending, entered} \subseteq States \cup {NoState}
  /\ creating \in BOOLEAN /\ stage \in {"idle", "entered", "created", "processing"}
  /\ request \in Requests(kind) \cup {NoRequest}
  /\ counted \in Nat \cup {-1}
  /\ answer \in [call : Calls, result : Results, count : BlockSizes \cup {0}]
  /\ foretold \in [count : BlockSizes \cup {0}, hops : Nat \cup {-1}]

(* A call that fails neither creates, resets nor advances state: whatever  *)
(* step of an execution refuses it, the kernel is left as it was found.    *)
FailureKeepsState ==
  stage = "idle" /\ answer.result \in Failures => streaming = entered

(* The parameters a kernel reports and checks are those its state was      *)
(* created from, as long as the state exists.                              *)
ParametersFitState ==
  Created => params["config"] = streaming.config /\ params["context"] = "available"

(* Processing a block after a query of its size produces what the query    *)
(* said, and buffers of that size are large enough, whatever failed calls, *)
(* further queries and parameter changes come in between.                  *)
QueryForetells ==
  [][stage # "idle" /\ stage' = "idle" /\ answer'.call = "process"
       /\ request.input /\ request.count = foretold.count /\ foretold.hops >= 0 =>
     /\ answer'.result = "SUCCESS" /\ Given("output_count") => counted' = foretold.hops
     /\ request.capacity >= foretold.hops => answer'.result # "INVALID_SIZE"]_vars

(* To its caller a kernel is the stream StreamingKernel describes: each    *)
(* call that succeeds has moved it as it says, once, and each call that    *)
(* fails has not happened.  A list of parameters is set or it is not, and  *)
(* RESET and QUERY are for the next execution and no other, however it     *)
(* ends.                                                                   *)
Promise == INSTANCE StreamingKernel WITH
  stream <- IF stage = "idle" THEN streaming ELSE entered,
  settings <- params
IsStreamingKernel == Promise!Spec
=============================================================================
