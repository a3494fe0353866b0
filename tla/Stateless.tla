------------------------------ MODULE Stateless -------------------------------
(***************************************************************************)
(* Executions of the kernels that keep nothing between calls, one          *)
(* iteration of a loop or one transform of a batch at a time.              *)
(***************************************************************************)
EXTENDS Primitives, InverseTransform

CONSTANTS
  Lengths,       \* numbers of elements callers pass
  Batches,       \* calls of the inverse transform
  None

ASSUME LengthsAssumption == Lengths \subseteq Nat

ASSUME BatchesAssumption ==
  Batches \subseteq [size : Sizes, count : Nat, stride : Nat, real : Nat, imag : Nat,
                    real_floats : Nat, imag_floats : Nat]

VARIABLES
  stage,       \* what is executed, or "idle"
  call,        \* what was called
  loop,        \* the loop of a primitive, counted from 1
  index,       \* elements the loops are past, or transforms of a batch
  results,     \* what has been stored or added by a primitive
  stores,      \* how often a primitive has stored or added something
  values       \* the complex values a batch is transformed in

primitive == <<loop, results, stores>>
vars == <<stage, call, index, primitive, values>>

Init ==
  /\ stage = "idle" /\ call = None /\ index = 0
  /\ loop = 0 /\ results = {} /\ stores = 0 /\ values = << >>

-----------------------------------------------------------------------------
StartPrimitive(operation, backend, length) ==
  /\ stage = "idle"
  /\ stage' = "primitive"
  /\ call' = [operation |-> operation, backend |-> backend, length |-> length]
  /\ loop' = 1 /\ index' = 0
  /\ results' = Begun(operation, length)
  /\ stores' = Cardinality(Begun(operation, length))
  /\ UNCHANGED values

Current == Loops[call.operation][call.backend]
Fits(width) == index + width <= call.length

Iterate ==
  /\ stage = "primitive" /\ loop <= Len(Current) /\ Fits(Current[loop].width)
  /\ LET width == Current[loop].width
         made == Iteration(call.operation, call.backend, width, index, call.length)
     IN  /\ results' = results \cup made
         /\ stores' = stores + Cardinality(made)
         /\ index' = index + width
  /\ loop' = IF Current[loop].repeats THEN loop ELSE loop + 1
  /\ UNCHANGED <<stage, call, values>>

LeaveLoop ==
  /\ stage = "primitive" /\ loop <= Len(Current) /\ ~Fits(Current[loop].width)
  /\ loop' = loop + 1
  /\ UNCHANGED <<stage, call, index, results, stores, values>>

ReturnPrimitive ==
  /\ stage = "primitive" /\ loop > Len(Current)
  /\ stage' = "idle" /\ call' = None /\ index' = 0
  /\ loop' = 0 /\ results' = {} /\ stores' = 0
  /\ UNCHANGED values

-----------------------------------------------------------------------------
(* Every value is at first the input with its own number.                  *)
Input(n) == {<<n, 0>>}

RefuseBatch(batch) ==
  /\ stage = "idle" /\ Result(batch) # "SUCCESS"
  /\ UNCHANGED vars

StartBatch(backend, batch) ==
  /\ stage = "idle" /\ Result(batch) = "SUCCESS"
  /\ stage' = "batch" /\ call' = [batch |-> batch, backend |-> backend]
  /\ index' = 0
  /\ values' = [n \in 0 .. batch.real_floats - 1 |-> Input(n)]
  /\ UNCHANGED primitive

TransformOne ==
  /\ stage = "batch" /\ index < call.batch.count
  /\ LET size == call.batch.size
         first == index * Stride(call.batch)
         transformed == Transform(call.backend, [n \in 0 .. size - 1 |-> values[first + n]], size)
     IN  values' = [n \in DOMAIN values |->
                      IF n \in first .. first + size - 1 THEN transformed[n - first] ELSE values[n]]
  /\ index' = index + 1
  /\ UNCHANGED <<stage, call, primitive>>

ReturnBatch ==
  /\ stage = "batch" /\ index = call.batch.count
  /\ stage' = "idle" /\ call' = None /\ index' = 0 /\ values' = << >>
  /\ UNCHANGED primitive

Next ==
  \/ Iterate \/ LeaveLoop \/ ReturnPrimitive \/ TransformOne \/ ReturnBatch
  \/ \E operation \in Operations, length \in Lengths :
       \E backend \in DOMAIN Loops[operation] : StartPrimitive(operation, backend, length)
  \/ \E batch \in Batches :
       \/ RefuseBatch(batch)
       \/ \E backend \in {"generic", "avx2_fma", "neon"} : StartBatch(backend, batch)

Spec == Init /\ [][Next]_vars

-----------------------------------------------------------------------------
(* Whatever widths a backend's loops have and wherever they end, they      *)
(* store every element exactly once, never one that is not there, and from *)
(* exactly the inputs the operation defines it by: no lane is crossed, no  *)
(* conversion saturates or treats a NaN otherwise.                         *)
ElementsAreDefined ==
  stage = "primitive" =>
    /\ results \subseteq Defined(call.operation, call.length) \cup Begun(call.operation, call.length)
    /\ stores = Cardinality(results)
    /\ loop > Len(Current) => results = Defined(call.operation, call.length)

(* Every backend's transforms are the inverse Fourier transforms of the    *)
(* values between strides, and leave all other values alone.  A batch that *)
(* is accepted lies inside of its buffers, which do not overlap, even if   *)
(* its size does not fit the machine's size_t.                             *)
BatchesAreTransforms ==
  stage = "batch" /\ call.batch.count # 0 =>
    LET size == call.batch.size
        stride == Stride(call.batch)
        floats == (call.batch.count - 1) * stride + size
        bytes == floats * FloatBytes
    IN  /\ floats <= call.batch.real_floats /\ floats <= call.batch.imag_floats
        /\ call.batch.real + bytes <= call.batch.imag \/ call.batch.imag + bytes <= call.batch.real
        /\ \A n \in DOMAIN values :
             LET transform == n \div stride
                 first == transform * stride
             IN  values[n] = IF transform < index /\ n - first < size
                             THEN InverseDft([k \in 0 .. size - 1 |-> Input(first + k)],
                                             n - first, size)
                             ELSE Input(n)
=============================================================================
