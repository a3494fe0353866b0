------------------------------ MODULE Dispatch -------------------------------
(***************************************************************************)
(* Which implementation an execution runs, and which one it reports.       *)
(*                                                                         *)
(* The library is compiled with some implementations and finds out once    *)
(* what the processor can do.  create_context fills a table of functions,  *)
(* layer by layer, the better implementations last; the kernels with state *)
(* other than the channelizer choose for themselves.  This module runs     *)
(* executions on new kernels, each with any request and valid arguments.   *)
(*                                                                         *)
(* A definition whose comment starts with Fault is no part of the model:   *)
(* it is the definition that follows it with a plausible mistake, which a  *)
(* property below must notice.                                             *)
(***************************************************************************)
EXTENDS Integers

CONSTANTS
  Processors,                  \* sets of features
  Builds                       \* sets of compiled implementations

ASSUME DispatchAssumption ==
  /\ Processors \subseteq SUBSET {"sse2", "avx2", "fma", "avx512f", "avx512bw", "neon"}
  /\ Builds \subseteq SUBSET {"sse2", "avx2", "avx2_fma", "avx512f", "avx512bw", "neon"}

VARIABLES
  processor, build,
  call                         \* the last execution, see NoCall

dispatch_vars == <<processor, build, call>>

-----------------------------------------------------------------------------
Backends == {"automatic", "generic", "sse2", "avx2", "avx2_fma", "avx512", "neon"}
BackendRequests == [backend : Backends, deterministic : BOOLEAN, prefer_energy_efficiency : BOOLEAN]

Inverts == {"invert_lsb", "invert_bytes"}
LsbBits == {"pack_bits_lsb", "unpack_bits_lsb"}
MsbBits == {"pack_bits_msb", "unpack_bits_msb"}
Powers == {"magnitude_squared", "power_spectral_density"}
Dots == {"dot", "dot_symmetric"}
Primitives == Inverts \cup LsbBits \cup MsbBits \cup Powers \cup Dots \cup {"quantize"}
Loops == {"costas4", "symbol_sync4", "viterbi_k7r2", "carrier_analyzer"}
KernelIds == Primitives \cup Loops \cup {"copy", "ifft", "pfb_channelizer"}

(* Context: a table entry for every primitive, and the functions beyond    *)
(* it.  The AVX-512 runs serve the AVX2 loop of the channelizer.           *)
Entries == Primitives \cup {"ifft", "pfb_channelizer", "pfb_fallback", "pfb_runs"}

(* The backend an implementation belongs to.                               *)
BackendOf(implementation) ==
  IF implementation \in {"avx512f", "avx512bw", "avx512_pfb"} THEN "avx512" ELSE implementation

(* What the instructions of an implementation need, and the source files   *)
(* that have it.                                                           *)
Needs == [generic |-> {}, none |-> {}, sse2 |-> {"sse2"}, avx2 |-> {"avx2"},
          avx2_fma |-> {"avx2", "fma"}, neon |-> {"neon"}, avx512f |-> {"avx512f"},
          avx512bw |-> {"avx512bw"}, avx512_pfb |-> {"avx512f", "avx2", "fma"}]
CompiledIn == [generic |-> {}, none |-> {}, sse2 |-> {"sse2"}, avx2 |-> {"avx2"},
               avx2_fma |-> {"avx2_fma"}, neon |-> {"neon"}, avx512f |-> {"avx512f"},
               avx512bw |-> {"avx512bw"}, avx512_pfb |-> {"avx512f", "avx2_fma"}]

HasAll(features) == features \subseteq processor

(* backend_is_available                                                    *)
Available(backend) ==
  CASE backend \in {"automatic", "generic"} -> TRUE
    [] backend = "avx2_fma" -> "avx2_fma" \in build /\ HasAll({"avx2", "fma"})
    [] backend = "avx512" -> "avx512f" \in build /\ HasAll({"avx512f"})
    [] OTHER -> backend \in build /\ HasAll({backend})

Rank == [generic |-> 0, sse2 |-> 1, neon |-> 1, avx2 |-> 2, avx2_fma |-> 3, avx512 |-> 4]

Allows(requested, candidate) ==
  requested = "automatic" \/ Rank[candidate] <= Rank[requested]

-----------------------------------------------------------------------------
GenericContext ==
  [function |-> [entry \in Entries |->
                   IF entry \in {"pfb_fallback", "pfb_runs"} THEN "none" ELSE "generic"],
   backend |-> [entry \in Entries |-> "generic"]]

(* The given entries get an implementation, and are reported as a backend. *)
Assigned(context, entries, implementation) ==
  [function |-> [entry \in Entries |->
                   IF entry \in entries THEN implementation ELSE context.function[entry]],
   backend |-> [entry \in Entries |->
                   IF entry \in entries THEN BackendOf(implementation) ELSE context.backend[entry]]]

WithSse2(context, requested) ==
  IF "sse2" \in build /\ HasAll({"sse2"}) /\ Allows(requested, "sse2")
  THEN Assigned(context, Primitives \ Dots, "sse2") ELSE context

WithAvx2(context, requested) ==
  IF "avx2" \in build /\ HasAll({"avx2"}) /\ Allows(requested, "avx2")
  THEN Assigned(context, Primitives, "avx2") ELSE context

(* Fault: the processor is not asked for FMA.                              *)
WithAvx2FmaUnchecked(context, requested) ==
  IF "avx2_fma" \in build /\ HasAll({"avx2"}) /\ Allows(requested, "avx2_fma")
  THEN Assigned(context, Dots \cup {"pfb_channelizer", "ifft"}, "avx2_fma") ELSE context

WithAvx2Fma(context, requested) ==
  IF "avx2_fma" \in build /\ HasAll({"avx2", "fma"}) /\ Allows(requested, "avx2_fma")
  THEN Assigned(context, Dots \cup {"pfb_channelizer", "ifft"}, "avx2_fma") ELSE context

WithNeon(context, requested) ==
  IF "neon" \in build /\ HasAll({"neon"}) /\ Allows(requested, "neon")
  THEN Assigned(context, {"pfb_channelizer", "ifft"}, "neon") ELSE context

(* AVX-512 serves the channelizer on demand only, with what was there as   *)
(* its fallback; in an automatic context it helps out inside AVX2 loops.   *)
WithAvx512Pfb(context, requested) ==
  IF ~("avx2_fma" \in build /\ HasAll({"avx2", "fma"})) THEN context
  ELSE IF requested = "automatic"
       THEN [context EXCEPT !.function["pfb_runs"] = "avx512f"]
       ELSE Assigned([context EXCEPT
                        !.function["pfb_fallback"] = context.function["pfb_channelizer"],
                        !.backend["pfb_fallback"] = context.backend["pfb_channelizer"]],
                     {"pfb_channelizer"}, "avx512_pfb")

WithAvx512f(context, requested) ==
  IF "avx512f" \in build /\ HasAll({"avx512f"}) /\ Allows(requested, "avx512")
  THEN Assigned(WithAvx512Pfb(context, requested), Inverts, "avx512f") ELSE context

WithAvx512bw(context, requested) ==
  IF "avx512bw" \in build /\ HasAll({"avx512bw"}) /\ Allows(requested, "avx512")
  THEN Assigned(context, LsbBits, "avx512bw") ELSE context

(* Fault: the preference is looked at for explicit requests.               *)
SparesEnergyInverted(request, requested) ==
  request.prefer_energy_efficiency /\ requested # "automatic"

SparesEnergy(request, requested) ==
  request.prefer_energy_efficiency /\ requested = "automatic"

(* Deterministic results are those of the generic code.                    *)
Requested(request) == IF request.deterministic THEN "generic" ELSE request.backend

(* create_context, for a request that selects a context.                   *)
Context(request) ==
  LET requested == Requested(request)
      upToNeon == WithNeon(WithAvx2Fma(WithAvx2(WithSse2(GenericContext,
                    requested), requested), requested), requested)
  IN  IF SparesEnergy(request, requested) THEN upToNeon
      ELSE WithAvx512bw(WithAvx512f(upToNeon, requested), requested)

(* select_context: the error of a request that selects none.               *)
ContextError(request) ==
  CASE request.deterministic /\ request.backend \notin {"automatic", "generic"} -> "invalid_argument"
    [] ~request.deterministic /\ ~Available(request.backend) -> "unsupported_backend"
    [] OTHER -> "success"

-----------------------------------------------------------------------------
(* The data that a choice depends on: "rare" are a quantizer offset other  *)
(* than 128, a scale of a power that is out of range, a transform that is  *)
(* not of 8, 16 or 32 points, and a channelizer that is not for AVX-512;   *)
(* "d4x4" is the channelizer that has its own loop.                        *)
Data == {"common", "rare", "d4x4"}

(* A run: the implementations that work on the data, and what is reported. *)
Ran(implementations, backend) == [ran |-> implementations, reported |-> backend]

Primitive(kernel, data, context, deterministic) ==
  LET scalar == \/ kernel = "quantize" /\ data = "rare"
                \/ kernel \in Powers /\ (deterministic \/ data = "rare")
  IN  Ran({IF scalar THEN "generic" ELSE context.function[kernel]}, context.backend[kernel])

Ifft(data, context) ==
  IF data = "rare" THEN Ran({"generic"}, "generic")
  ELSE Ran({context.function["ifft"]}, context.backend["ifft"])

(* Fault: what is called instead is reported as what was chosen.           *)
ChannelizerAsChosen(data, context) ==
  LET chosen == context.function["pfb_channelizer"]
      fallback == context.function["pfb_fallback"]
      runs == {unit \in {context.function["pfb_runs"]} :
                 data = "d4x4" /\ chosen = "avx2_fma" /\ unit # "none"}
      working == IF chosen # "avx512_pfb" \/ data # "rare" THEN chosen
                 ELSE IF fallback # "none" THEN fallback ELSE "generic"
  IN  Ran({working} \cup runs, context.backend["pfb_channelizer"])

(* make_pfb_channelizer_data                                               *)
Channelizer(data, context) ==
  LET chosen == context.function["pfb_channelizer"]
      fallback == context.function["pfb_fallback"]
      runs == {unit \in {context.function["pfb_runs"]} :
                 data = "d4x4" /\ chosen = "avx2_fma" /\ unit # "none"}
  IN  CASE chosen # "avx512_pfb" \/ data # "rare" ->
             Ran({chosen} \cup runs, context.backend["pfb_channelizer"])
        [] chosen = "avx512_pfb" /\ data = "rare" /\ fallback # "none" ->
             Ran({fallback}, context.backend["pfb_fallback"])
        [] OTHER -> Ran({"generic"}, "generic")

(* QpskCostas4Initialize, SymbolSync4Initialize, ViterbiK7R2Initialize     *)
UsesVectors(kernel, request) ==
  IF kernel = "viterbi_k7r2"
  THEN /\ "avx2" \in build /\ HasAll({"avx2"})
       /\ request.backend \in {"automatic", "avx2", "avx2_fma", "avx512"}
  ELSE /\ "avx2_fma" \in build /\ HasAll({"avx2", "fma"}) /\ ~request.deterministic
       /\ request.backend \in {"automatic", "avx2_fma", "avx512"}

(* QpskCarrierAnalyzerInitialize                                           *)
AnalyzerChoice(request) ==
  LET mayUse(features, backends) ==
        ~request.deterministic /\ HasAll(features) /\ request.backend \in backends
  IN  IF "neon" \in build /\ mayUse({"neon"}, {"automatic", "neon"}) THEN "neon"
      ELSE IF /\ "avx512f" \in build /\ mayUse({"avx512f"}, {"automatic", "avx512"})
              /\ request.backend = "automatic" => ~request.prefer_energy_efficiency
      THEN "avx512f"
      ELSE IF "avx2_fma" \in build /\ mayUse({"avx2", "fma"}, {"automatic", "avx2_fma", "avx512"})
      THEN "avx2_fma" ELSE "generic"

LoopChoice(kernel, request) ==
  IF kernel = "carrier_analyzer" THEN AnalyzerChoice(request)
  ELSE IF ~UsesVectors(kernel, request) THEN "generic"
  ELSE IF kernel = "viterbi_k7r2" THEN "avx2" ELSE "avx2_fma"

(* A backend that the loop has no implementation for.                      *)
LoopRefuses(kernel, request) ==
  /\ request.backend \notin {"automatic", "generic"} /\ ~request.deterministic
  /\ LoopChoice(kernel, request) = "generic"

Execution(kernel, data, request) ==
  CASE kernel \in Primitives -> Primitive(kernel, data, Context(request), request.deterministic)
    [] kernel = "copy" -> Ran({"generic"}, "generic")
    [] kernel = "ifft" -> Ifft(data, Context(request))
    [] kernel = "pfb_channelizer" -> Channelizer(data, Context(request))
    [] kernel \in Loops -> LET choice == LoopChoice(kernel, request)
                           IN  Ran({choice}, BackendOf(choice))

-----------------------------------------------------------------------------
NoCall == [kernel |-> "copy", data |-> "common", result |-> "success",
           request |-> [backend |-> "automatic", deterministic |-> FALSE,
                        prefer_energy_efficiency |-> FALSE],
           ran |-> {}, reported |-> "generic"]

DispatchInit == processor \in Processors /\ build \in Builds /\ call = NoCall

ReportRefusal(kernel, data, request, error) ==
  call' = [kernel |-> kernel, data |-> data, request |-> request, result |-> error,
           ran |-> {}, reported |-> "generic"]

(* uni_simd_kernel_execute, on a kernel without state yet.                 *)
ExecuteOnce(kernel, data, request) ==
  /\ call = NoCall
  /\ IF ContextError(request) # "success"
     THEN ReportRefusal(kernel, data, request, ContextError(request))
     ELSE IF kernel \in Loops /\ LoopRefuses(kernel, request)
     THEN ReportRefusal(kernel, data, request, "unsupported_backend")
     ELSE LET run == Execution(kernel, data, request)
          IN  call' = [kernel |-> kernel, data |-> data, request |-> request,
                       result |-> "success", ran |-> run.ran, reported |-> run.reported]
  /\ UNCHANGED <<processor, build>>

(* uni_simd_kernel_free: the next execution is one on another kernel.      *)
Free ==
  /\ call # NoCall
  /\ call' = NoCall
  /\ UNCHANGED <<processor, build>>

DispatchNext ==
  \/ \E kernel \in KernelIds, data \in Data, request \in BackendRequests : ExecuteOnce(kernel, data, request)
  \/ Free

DispatchSpec == DispatchInit /\ [][DispatchNext]_dispatch_vars

-----------------------------------------------------------------------------
(* Nothing runs that the build does not contain or that the processor      *)
(* cannot execute, however the layers and fallbacks of a context combine.  *)
RunsHere ==
  \A implementation \in call.ran :
    /\ CompiledIn[implementation] \subseteq build
    /\ Needs[implementation] \subseteq processor

(* A request bounds all that runs for it: nothing above an explicit        *)
(* backend, no vectors of floating point for deterministic results, and no *)
(* AVX-512 automatically when energy matters.                              *)
WithinRequest ==
  \A implementation \in call.ran :
    LET request == call.request
        backend == BackendOf(implementation)
    IN  /\ request.backend # "automatic" => Rank[backend] <= Rank[request.backend]
        /\ request.deterministic => implementation = "generic" \/ call.kernel = "viterbi_k7r2"
        /\ request.prefer_energy_efficiency /\ request.backend = "automatic" => backend # "avx512"

(* What runs is of the backend that is reported, also where a transform or *)
(* a channelizer falls back to another implementation.  There are two      *)
(* exceptions: scalar loops on the rare data of a quantizer or a power,    *)
(* and AVX-512 hops inside the loops of an AVX2 channelizer.               *)
ReportFollowsChoice ==
  \A implementation \in call.ran :
    \/ call.reported = BackendOf(implementation)
    \/ /\ call.data = "rare" /\ call.kernel \in {"quantize"} \cup Powers
       /\ implementation = "generic"
    \/ call.data = "d4x4" /\ call.reported = "avx2_fma" /\ implementation = "avx512f"
=============================================================================
