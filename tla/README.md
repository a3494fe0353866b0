# Uni.SIMD in TLA+

Uni.SIMD is a C++ library of signal-processing kernels behind a C API
(`include/uni_simd.h`) and a C++ API (`include/uni_simd.hpp`). Each kernel
exists in several implementations (generic, AVX2+FMA, AVX-512, NEON), some keep
streaming state between calls, and a small process-wide runtime guards the
lifetime of all of them. This directory models the parts whose correctness
depends on *order*: of samples in a ring, of steps of a call, of threads. The
floating-point arithmetic is not modelled; what is modelled is which samples
every result is computed from, and what each call does to the state.

## Inventory

| Component | State | Operations | What is hard | What makes it correct |
|---|---|---|---|---|
| PFB channelizer (`src/pfb_channelizer`) | mirrored history ring, cursor, decimation and post phase | `process`, `advance`, `reset`, `copy_state_from`, `output_count` | five loops (stream, 64-sample spans, 256-sample spans, groups of 16, tail) hand one set of positions to each other; samples are staged ahead of the filter that reads the oldest ones; hops wait for a batch | a hop is a function of its own window and phase, wherever the caller cuts the stream |
| Process-wide runtime (`common/c_api_common.cpp`) | mutex, initialized flag, kernel count | `initialize`, `finalize`, `kernel_create`, `kernel_free` | several threads; the flag is also read without the mutex; every lock may throw | no kernel outlives the runtime, calls look atomic |
| Kernel instance (`common/c_api_common.cpp`) | parameters, state created by the first execution, one-shot commands | `param_set`, `param_set_many`, `execute`, `reset`, `copy_state`, `advance`, `skip`, `rotate` | an execution can be refused at every one of its steps, after it has created or reset state | a refused call has not happened, in state or parameters; commands reach one execution; queries foretell; parameters agree with the state |
| Backend dispatch (`common/dispatch_common.cpp`) | a table of functions, immutable once filled | `create_context`, one function per kernel | layers that overwrite and rescue each other's entries, energy and determinism, fallbacks for single calls | nothing runs that the processor cannot execute or the request excludes; the report is what ran, with two exceptions |
| QPSK Costas loop (`costas_loop`) | phase, frequency, sample counter | `execute`, `skip`, `rotate`, `reset`, `copy_state` | skipping must equal coasting; one clamping decision for four lanes | outputs do not depend on block sizes |
| Symbol synchronizer (`symbol_sync`) | history of samples, time of the next symbol, loop filter | `execute`, `skip`, `reset`, `copy_state` | symbols near the seam of two blocks; capacity of the output | no symbol lost or produced twice |
| Viterbi decoder (`viterbi`) | path metrics, decisions | `execute`, `reset` | 16-bit metrics, renormalised now and then | metrics never overflow, the survivor is the best path |
| QPSK carrier analyzer (`qpsk_carrier_analyzer`) | last sample of the stream, if it was strong | `execute`, `reset` | sums in registers, adjacency across lanes, batches, loops and blocks; empty blocks | every sample is added once, every adjacent pair of strong samples compared once |
| Batched IFFT (`ifft`) | none | one call | sizes that overflow; in-place exchanges; stages inside a register and in memory | it is the inverse DFT, and nothing outside the buffers is touched |
| Stateless primitives (`primitives`) | none | inversion, packing, unpacking, soft bits, spectra, dot products | loops of falling width; lanes that are reordered; saturation and NaN | every element is stored once, from the inputs that define it |
| C++ wrapper (`include/uni_simd.hpp`) | owned handle | forwards to the C API | move and release | one free per create |

A call enters through the C API, which checks the runtime flag, resolves a
context (backend) and hands the kernel's state and the block to the component;
a component knows nothing of the runtime or of other instances, except that
`copy_state` reads a second instance of its own kind.

## Modules

* `PfbStream` says what a channelizer promises: a position in an endless
  stream, and every block returns the hops that end inside it.
* `PfbRing` is the channelizer: the ring layout `make_pfb_channelizer_data`
  chooses, the loops of all backends one ring write at a time, `advance` and
  `reset`. A sample is represented by its number, so a cell of `history` shows
  which sample a filter would read. It implements `PfbStream` (`IsStream`).
  `stage` is the loop a call is in, `run_*` are the local copies the loops
  work on, `queued` is `queued_cursors` with the number and phase of each hop.
* `PfbSplit` composes two instances of `PfbRing`: a second channelizer of
  another implementation takes over the state (`copy_state_from`), advances past
  the first part of a block and filters the second, before or after the
  first channelizer filters the first part. Together they are one `PfbStream`
  (`SplitIsSerial`).
* `RuntimeAtomic` is the runtime with whole calls as atomic steps, `Runtime`
  the C functions with one step per access under the mutex, by any number of
  threads. `Runtime` implements `RuntimeAtomic` (`IsAtomic`).
* `StreamingKernel` says what any stateful kernel promises its caller;
  `KernelInstance` is a handle of the C API with every step of
  `uni_simd_kernel_execute` that can refuse the call. It implements
  `StreamingKernel` (`IsStreamingKernel`), where an execution happens at the
  moment it returns. The caller's parameters are part of the promise (`settings`,
  which are `params` of the handle): a call that sets some of them sets all it was
  given or none, a live stream keeps those it was created from, and RESET and
  QUERY are what the next execution does, and no later one, however it ends.
* `SymbolLane` says what one lane of the symbol synchronizer promises: a timing
  loop over an endless sequence of samples. `SymbolSync` is the synchronizer:
  the history kept between blocks, the seam pass and the block pass of
  `SymbolSync4Execute`, the generic loop, and the AVX2 loop with its masked
  steps, its batches that load stencils ahead and replay lock tracking behind,
  skip and reset. Every lane implements `SymbolLane` (`AreLanes`).
* `CostasLane` says what one lane of the QPSK Costas loop promises: an
  oscillator whose decided steps take effect `Delay` samples later.
  `CostasLoop` is the loop of both backends, which keeps every angle as phase
  and as phasor, its pending steps in a ring, and normalizes now and then.
  Every lane implements `CostasLane` (`AreLanes`).
* `ViterbiK7R2` is the add-compare-select kernel with its 16-bit metrics (the
  generic and the AVX2 loop compute the same integers, so one module stands for
  both). `ViterbiPaths` enumerates all paths through the trellis and states
  what metrics and decisions promise about them.
* `Dispatch` is `create_context` layer by layer, the choice each stateful kernel
  makes for itself, and the fallbacks of single calls: which implementations an
  execution runs and which backend it reports.
* `CarrierStatistics` says what the carrier analyzer promises about each block.
  `CarrierAnalyzer` is the analyzer on all four implementations: batches, sums in
  registers, `commit_adjacency` lane by lane, the scalar rest, refused calls and
  reset. It implements `CarrierStatistics` (`AreStatistics`).
* `Stateless` executes the kernels without state. `Primitives` has the loops of
  every primitive on every implementation and what an iteration of each stores,
  lane by lane; `InverseTransform` the argument checks of a batch of inverse
  transforms and the stages of one transform. Both share `SimdLanes`, what the
  vector instructions do to the lanes of a register.
* `PfbRingProofs`, `PfbSplitProofs`, `CarrierAnalyzerProofs`, `SymbolSyncProofs`,
  `CostasLoopProofs`, `ViterbiProofs` and `StatelessProofs` hold the theorems about
  the module each is named after, `ApiProofs` those about the three modules of the
  C API, `KernelInstance`, `Runtime` and `Dispatch`, which it extends together: that
  is why the last two write `RuntimeSpec`, `DispatchSpec`, `RuntimeTypeOK` and so on.
  `MCSymbolSync`, `MCCostasLoop`, `MCCarrierAnalyzer` and `MCStateless` hold sets
  that a configuration file cannot write.

The modules meet at their abstract specifications. `KernelInstance` knows a
channelizer only by the samples it has consumed, which is enough because of
`IsStream` and `PhasesFollowStream` of `PfbRing`; it leaves out what the other
kernels compute, which `SymbolLane`, `CostasLane`, `CarrierStatistics` and
`ViterbiPaths` describe for blocks that the handle has accepted. Creation and
freeing of a handle are `Runtime`, and which implementation an accepted execution
runs is `Dispatch`. `PfbSplit` is two handles: they share no memory, which is why
it may let one call end before the next begins.

Definitions whose comment starts with *Fault* are not part of a model. Each is
the definition after it with a plausible mistake, kept to show that a property
would notice that mistake: `PROJECT.json` lists which property rejects which.

## What is abstracted

* **PfbRing**: a sample is its number in the stream, a result the window and
  the phase it is computed from. The arithmetic of filter and transform and
  the phase tables are left out. In `PfbSplit` the two channelizers have equal
  configurations, which `copy_state_from` demands.
* **Runtime**: allocation succeeds; a lock that throws returns the error of the
  function that asked for it, as the code's `catch` does.
* **KernelInstance**: the parameters of a kind are one configuration that is
  complete, rejected or missing; buffers are present, short, missing or
  overlapping. Kernels without state are in `Stateless`.
* **SymbolSync**: what a detector computes is an input of the model, small
  enough that every symbol lies after the one before it, or a *poison*, which
  throws the time off as a non-finite error does. Times are in ticks without
  rounding, all lanes share a configuration, and the statistics counter
  `ted_switches` and `copy_state` are left out.
* **CostasLoop**: the detector's error is an input; angles, gains and
  frequencies are whole units, so phasors multiply without rounding; samples
  are finite; all lanes share a configuration. `copy_state` takes over the state of
  a loop out of a given set, whose members this loop could be in itself.
* **ViterbiK7R2**: memory, width and period are constants. Polynomials tap the
  newest and the oldest bit, as the header asks.
* **CarrierAnalyzer**: a sum is how often it was given each sample, a pair the
  numbers of its samples; of a power only matters whether it exceeds epsilon.
* **Primitives**: a result is the inputs it is made of. Of a soft bit the value
  before rounding is given, in halves, by a pattern that holds ties, both limits,
  values beyond them and a NaN; other rounding is left out.
* **InverseTransform**: a value is a sum of inputs times powers of the 32nd root
  of unity, so the arithmetic is exact. The greatest `size_t` is a constant.
* **Dispatch**: arguments are valid. An instruction set of the processor and a
  compiled source file are one name each; data is a member of the few classes
  that make a call fall back.

## Runs

| Run | Instance and bounds | What it shows |
|---|---|---|
| `pfb_streaming` | NEON, 4 bins, 1 row, decimation 4, 2 outputs, phase period 3, ring of 16; blocks of 0, 1, 3, 11 and 19 samples, 60 samples; 5,918 states | the ring, the queue of waiting hops, windows, phases and output counts; refinement of `PfbStream` |
| `pfb_runs` | AVX2 with AVX-512 spans, 8 bins, 22 rows, decimation 4, four exact bins, ring of 512; blocks of 37, 345 and 601 samples, 1300 samples; 5,843 states | every loop hands its positions to the next one; refinement of `PfbStream` |
| `pfb_split` | AVX2 with AVX-512 spans, and a second channelizer that is AVX2 without them; 8 bins, 23 rows, otherwise as `pfb_runs`; blocks of 37 and 345 samples, 740 samples; 7,273 states | a block cut in two and filtered by two channelizers, in any order, is the serial stream |
| `runtime` | three threads, two kernels | every interleaving looks like whole calls; no critical section stays locked |
| `kernel_instance` | the five stateful kinds, decimation 2, blocks of 0 and 3 samples, buffers for 1 and 2 hops, 6 samples; 564,482 states | a failed call has not happened, queries foretell, parameters fit the state; parameters and commands of every call, in the refinement of `StreamingKernel` |
| `symbol_sync_lane` | generic, one lane, blocks of 0, 5 and 14, buffers for 1 and 20 symbols, poisons, 24 samples; 146,120 states | cuts, skips, resets, full buffers, detector switches and non-finite errors leave the loop of `SymbolLane`; no symbol is due before the kept samples |
| `symbol_sync_lanes` | AVX2, two lanes, blocks of 4 and 24, buffers for 5 and 20, 24 samples; 671,662 states | batches stay inside data and output buffers, replaying is never too late, lanes do not disturb each other |
| `costas_loop` | AVX2, two lanes, turn of 4, delay 2, normalization every 2 samples, blocks of 3, skips of 1 and 3, copies of a loop that has seen three samples; 472,847 states | left-out clamping, ring, normalization, skip and copying leave no trace; phase and phasor agree |
| `viterbi` | memory 2, metrics modulo 360, renormalization every 2 steps, two polynomials, symbols 30 and 200, four steps in blocks of 1 and 3; 9,196 states | metrics are exact, survivors are cheapest paths |
| `dispatch` | eight processors, five builds, every kernel and request; 60,520 states | nothing runs that is missing or excluded; what is reported is what ran, with two exceptions |
| `carrier_analyzer` | all implementations; blocks of 0, 1, 4, 9 and 17 samples with one or two weak samples or all but one weak; 13,206 states | each call reports exactly its block, and pairs go over all borders; refinement of `CarrierStatistics` |
| `stateless` | all primitives on all implementations, 0 to 73 elements; transforms of all sizes, 0 to 17 per batch, four strides, buffers that are too short or overlap, `size_t` up to 1023; 5,562 states | every element is stored once from its own inputs; every accepted batch is transformed inside its buffers |

Why these bounds are enough:

* The channelizer's behaviour depends on positions modulo the ring, the
  decimation and the phase period. Each stream wraps its ring, three times in
  `pfb_streaming`, where one block is longer than the ring, so that `advance` skips
  samples. The blocks of `pfb_runs` end inside and next to every loop (stream,
  spans, groups, tail), and the longest one is longer than the ring too.
  In `pfb_split` every pair of lengths is a block that is split, and the longest of
  them wraps both rings. A generic channelizer of this layout would have a smaller
  ring and be refused the state; the theorem covers it where the rings agree.
  What other layouts do is not left to the instances: the theorems hold for all.
* Three threads are the least at which one holds the mutex, one waits and one
  has read the flag; two kernels let one be created while another is freed.
* 6 samples at decimation 2 give a block that makes no hop, one that makes one
  and one that makes two; one more failed, empty or repeated call reaches a
  state seen before.
* In the synchronizer a symbol takes 2 to 3 samples and a hold is over after 2
  or 3 symbols. A block of 24 samples fits a whole batch and the steps before
  and after it; blocks of 4 and 5 are shorter than the history, so seams meet.
* In the Costas loop a block of 3 crosses the normalization period of 2, wraps
  the ring of 2 steps at both places and leaves the period in the middle. The
  code's period of 512 only changes how far `PhaseStaysSmall` lets a phase grow.
* Four steps with memory 2 forget the start, and renormalization happens twice,
  before, at and after the ends of blocks. The modulus is just above what
  `WidthAssumption` requires (100 + 63 * 4 < 360), so anything that adds a branch
  to a metric overflows.
* The analyzer's batches have 4, 8 and 16 samples; its blocks are below, at and
  above each of them. Weak samples at every place break pairs inside of a batch and
  at each of its borders, and the block after finds either kind of last sample.
* The lengths of the primitives make every loop run not at all, once and, where
  it repeats, twice, and leave every rest; 73 is more than one round of the
  widest loops. A `size_t` of 10 bits is enough for a product that wraps.
* For each condition of `create_context` there are processors and builds that
  meet it and others that do not, among them AVX-512 without AVX2
  and a build without `avx2_fma`. The proof needs no such choice.

The counters these streams are bounded by (`MaxPosition`, `MaxSupplied`,
`MaxSymbols`, `MaxSteps`, `MaxFrequency`) are in the guards of the actions that
would exceed them; they stop the exploration and not the program. `MaxHistory`
is the greatest ring the model can choose, and it is at least the one the
constructor asks for. Deadlock is checked in every run.

## Fairness

Only `Runtime` has a liveness property, `MutexIsReleased`, and only its steps
inside a critical section are weakly fair: they wait for nobody, so a thread
that the operating system runs at all takes them. Nothing is assumed of
threads outside, which may never call again, nor of the lock: `std::mutex`
promises no turn. Kernels are called by the user, who may
stop at any time, so the other modules state safety only.

## Proofs

TLAPS checks, for every value of the constants that the named assumptions admit:

* `PfbRingProofs`: `TypeOK`, `RingIsStream`, `QueueReadable` and `WindowsIntact`
  of every layout. What every cell holds (`RingIsStream`) is not inductive while
  a call has staged samples, and that a waiting hop still finds its window needs
  a bound on its age, so the invariant describes each stage of a call: what has
  been written ahead, how many hops wait and how old they are. That none of
  their cells has been overwritten then follows from the size of the ring. Then
  `PhasesFollowStream`, `OutputsFit` and the refinement `IsStream`, of every layout.
  Samples, hops and phases are counted separately by each loop. The second
  invariant (`SInv`) says that the three counts describe one position of the stream,
  and that the hops written or queued are the next ones without a gap; how many a
  block has then follows from its ends.
* `PfbSplitProofs`: the refinement `SplitIsSerial`, of every layout, every pair of
  implementations and every cut. Both channelizers satisfy the theorems of
  `PfbRingProofs`, instantiated for each of them, and what rests while the other one
  is used is a ring between two calls (`Rests`). The invariant (`SplitInv`) adds
  where in the block each of them is (`OnFirst`, `OnSecond`), and that the hops
  each has delivered are those of its part. At the end the state does not
  show which loop made it, because ring, cursor and phases are functions of the
  position; so the first channelizer may go on from it.
* `CarrierAnalyzerProofs`: `TypeOK` and the refinement `AreStatistics`, for all
  blocks. In a batch the sums are ahead of the pairs, so the invariant has two
  positions, up to which samples are summed (`Taken`) and compared (`Compared`).
* `SymbolSyncProofs`: `HistoryIsStream`, `BatchStaysInside`, `TypeOK`, `ReplayIsLate`
  and the refinement `AreLanes`, for any number of lanes, bounds of `omega`, holds,
  blocks and buffers. The first invariant (`IInv`) says that the seam is the kept
  history followed by the head of the block, and that a batch is entered and
  continued only while every lane is in the range in which even the stencil loaded
  ahead lies inside the data (`BatchInRange`). The second (`LInv`) says that every
  detector is short of its hold, during a batch by more than the batch has steps
  (`RunsOK`, `BatchOK`), and that no symbol a lane may still make needs its stencils
  clamped, on the general path either (`PlacesOK`): a call leaves the next symbol
  no earlier than the kept samples reach, and dropping samples of a full buffer
  cannot undo that. The same, with the stage in which it is said, keeps the next
  symbol of a lane from falling behind its kept samples (`TimesOK`). That a batch
  does not write past a buffer or its log is the budget it was entered with; the
  log of 64 symbols is longer than any batch of the run, so that part of
  `BatchStaysInside` is the theorem's alone. For the refinement a lane is looked at with the log of
  a running batch replayed. Replaying one entry more is tracking one symbol more
  (`ReplayedStep`), so a step of a batch is a symbol of each lane at once; entering
  a batch and the change from the seam to the block are no step of any lane.
* `CostasLoopProofs`: `TypeOK`, `PhasorFollowsPhase`, `PhaseStaysSmall` and the
  refinement `AreLanes`, for any lanes, delay, period, gains, limits and errors, on
  both backends. Phase and phasor stay one angle only while the two forms of every
  pending step do, and the phase is bounded because the steps are, so the invariant
  is about the ring as much as about the loop. A skip adds up all pending steps,
  which is shown, step by step, to be what coasting sample by sample gives; a
  lane's queue is its ring, oldest step first. `OthersAreAlike` shows of the loop
  itself what `SourcesAssumption` assumes of a loop whose state it copies.
* `ApiProofs`, of `Runtime`: `RuntimeTypeOK`, `CountIsExact`, `KernelsNeedRuntime` and the
  refinement `IsAtomic`. The invariant adds that a thread is in a critical section
  exactly while it holds the mutex, and that a kernel which is in the making or
  to be freed is in one thread's hands only.
* `ApiProofs`, of `KernelInstance`: `TypeOK`, `FailureKeepsState`, `ParametersFitState`,
  `QueryForetells` and the refinement `IsStreamingKernel`. The invariant adds where
  the state of a running execution is (`Creation`), that a reset is only made once nothing can
  fail (`ResetIsSafe`), and that states fit the parameters (`Fits`); for the
  refinement also that an execution goes on from what it entered with
  (`Continues`) and that commands fit the kind (`CommandsFit`). Parameters and
  commands are refined as they are, so each call needs one step that commits all of
  them, and each return of an execution one that clears both commands. A forecast
  stands until a call that moves the state succeeds, because the hops between
  two positions are those counted from the phase of the first (`Foretells`).
* `ApiProofs`, of `Dispatch`: `RunsHere`, `WithinRequest` and `ReportFollowsChoice`. The
  properties look at one execution, so the proof goes along `create_context`: an
  entry works, or is of the backend that is reported, if it was so before a layer,
  or the layer's condition makes it so. Each fallback then reports itself.
* `ViterbiProofs`: `TypeOK`, `NeverSaturates`, `CostsAreExact` and
  `SurvivorsAreBest`, for any memory, code, symbols and blocks. A bound on the
  metrics alone is not inductive, because renormalization subtracts only the least
  of them. The invariant adds that all metrics lie near each other (`Near`: any state is
  reached from any other in `Memory` steps) and that the least has grown by at
  most 63 per step since the last renormalization (`Low`). Without saturation
  every addition is exact, and the rest is the principle of dynamic programming: a
  path into a state is a path into one of its two predecessors and one branch. So
  metrics differ as the costs of the cheapest paths do, and the decisions of all
  steps trace a cheapest path from any state.
* `StatelessProofs`: `BatchesAreTransforms` and `ElementsAreDefined`. For any
  batches and any width of `size_t` an accepted batch lies inside its buffers: the
  check by division (`CountFits`) leaves no product that wraps. `TransformsAreInverse`
  is about the transform itself: on every implementation, for every size and all
  values. In place, exchanging is a permutation because a pair is exchanged at the
  lesser of its two indices only. After it every block of one value is a transform
  of one input, and a stage makes two transforms of inputs that are interleaved
  into one (`Part`), wherever it runs; the stages in a register do the same to
  eight values. For any number of elements the loops of a primitive
  make each element once: the elements made so far are those up to the index
  (`PrimitiveInv`), an iteration of every loop of every implementation makes exactly
  as many as its width, from their own inputs (`IterationIsSlice`), and the last
  loop has width 1, so no rest is left.

The assumptions: `LayoutAssumption`, `PeriodAssumption` and `HistoryAssumption`
(the numbers `make_pfb_channelizer_data` accepts; exact layouts select four bins
whose phases repeat every four hops; a power of two of the size asked for
exists; `FirstAssumption` and `SecondAssumption` are the same three of both
channelizers of a pair), `ConstantsAssumption` of each module,
`RuntimeAssumption` and `DispatchAssumption` (types; in
`SymbolSync` also that the lanes are finitely many, that the bounds of `omega`
enclose its start and that no error moves time back; in `CostasLoop` that the
errors are finitely many, so that there is a largest step), `TapsAssumption` (both
polynomials of the Viterbi decoder tap the newest and the oldest bit),
`LengthsAssumption` and `BatchesAssumption` (the types of the arguments of calls
without state), `NoStateAssumption`, `NoneAssumption` and `NaNAssumption` (what
stands for nothing, or for no number, is none of the things it is compared with),
`SourcesAssumption` (states of Costas loops to copy are those of loops between
calls, which `OthersAreAlike` proves of every loop), `SizeAssumption`, and
`WidthAssumption`: penalty + 63 * (memory + period) is less than the modulus; in
the code 1024 + 63 * (6 + 128) = 9466 < 65536. TLC evaluates each of them in a run.

What a log, a skip or a path amounts to is defined along its length. The proofs
need what holds at every length, so `SymbolSyncProofs`, `CostasLoopProofs`,
`ViterbiProofs` and `StatelessProofs` have a lemma of induction over a *set* of
numbers, proved from the least-number principle, and, for functions that recur,
lemmas about the existence (`Recursion`) and uniqueness (`SameRecursion`) of a
function that goes on so.

Only model-checked is `MutexIsReleased`, because liveness is out of the provers'
reach. Every other property of the runs is a theorem.

## Divergences from the documentation

`uni_simd_typedefs.h:360` gives one formula for the branch metric of the Viterbi
decoder. The kernel uses it for one branch of a butterfly and takes 63 minus the
result for the two with complementary bits, which rounds the other way: for the
hard symbols 0 and 255 the metric is 31 where the formula gives 32.
`CostsAreExact` states what the decoder minimizes instead.

`uni_simd.h:69` says that `RESOLVED_BACKEND` receives the implementation that
actually ran. `ReportFollowsChoice` states how far that is so, for all data: also
where a transform or a channelizer falls back on rare data, the implementation
that stands in is the one reported. There are two exceptions. A quantizer with an
unusual offset and powers with an extreme scale run a scalar loop, and hops of the
AVX2 channelizer may run in AVX-512 code, while the table's backend is reported.

## Not modelled

* Floating-point results, and the agreement of backends within a tolerance.
* Samples that are not finite in the Costas loop: `std::max` and `std::min` of the
  generic code keep a NaN, the AVX2 instructions turn it into a bound.
* `copy_state` between two synchronizers: it copies every member the model has,
  after comparing configurations. `KernelInstance` has the handle's side of it.
* Lanes with different configurations in one Costas loop or synchronizer.
* The C++ wrapper, which forwards every call, and build files, benchmarks and
  tests.
