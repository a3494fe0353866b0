--------------------------- MODULE InverseTransform ---------------------------
(***************************************************************************)
(* The batched inverse Fourier transform: the argument checks of a call,   *)
(* and the arithmetic of one transform on each backend.                    *)
(*                                                                         *)
(* A complex value is a sum of inputs, each multiplied by a power of the   *)
(* 32nd root of unity: a set of pairs of an input and an exponent.  All    *)
(* twiddle factors are such powers, so the sums are exact.                 *)
(***************************************************************************)
EXTENDS SimdLanes

CONSTANTS
  SizeMax      \* the largest size_t

ASSUME SizeAssumption == SizeMax \in Nat

Sizes == {4, 8, 16, 32}

-----------------------------------------------------------------------------
(* IfftKernel::execute.  A call says where its two buffers start and how   *)
(* many floats they have; sizes are size_t.                                *)
FloatBytes == 4

Stride(call) == IF call.stride = 0 THEN call.size ELSE call.stride

(* Fault: the product below is taken to fit.                               *)
CountFitsAlways(call) == TRUE

CountFits(call) == call.count - 1 <= (SizeMax - call.size) \div Stride(call)

Required(call) == ((call.count - 1) * Stride(call) + call.size) % (SizeMax + 1)

Result(call) ==
  LET apart == IF call.real <= call.imag THEN call.imag - call.real ELSE call.real - call.imag
  IN  IF call.count = 0 THEN "SUCCESS"
      ELSE IF \/ Stride(call) < call.size \/ ~CountFits(call)
              \/ Required(call) > SizeMax \div FloatBytes
              \/ call.real_floats < Required(call) \/ call.imag_floats < Required(call)
      THEN "INVALID_SIZE"
      ELSE IF apart < Required(call) * FloatBytes THEN "OVERLAPPING_BUFFERS" ELSE "SUCCESS"

-----------------------------------------------------------------------------
(* Complex arithmetic.                                                     *)
Rotated(value, exponent) == {<<term[1], (term[2] + exponent) % 32>> : term \in value}
Sum(left, right) == left \cup right
Difference(left, right) == Sum(left, Rotated(right, 16))

(* Multiplied by the sign that a mask of lanes has in this lane.           *)
Signed(value, sign) == IF sign = 1 THEN value ELSE Rotated(value, 16)

(* ifft_reverse_bits: the lowest bit of a value is appended to the result, *)
(* as often as the templates that exist repeat it.                         *)
BitMoved(bits) ==
  [value |-> bits.value \div 2, reversed |-> 2 * bits.reversed + (bits.value % 2)]

ReverseBits(count, index) ==
  LET none == [value |-> index, reversed |-> 0]
      two == BitMoved(BitMoved(none))
      three == BitMoved(two)
      four == BitMoved(three)
  IN  (CASE count = 4 -> two [] count = 8 -> three [] count = 16 -> four
         [] count = 32 -> BitMoved(four)).reversed

(* Fault: every pair is exchanged twice.                                   *)
ExchangesOnce(index, reversed) == TRUE

Exchanges(index, reversed) == index < reversed

(* ifft_reorder, one index after the other.                               *)
Exchanged(values, index, reversed) ==
  IF ~Exchanges(index, reversed) THEN values
  ELSE [values EXCEPT ![index] = values[reversed], ![reversed] = values[index]]

Reordered(x, count) ==
  LET upTo[n \in 0 .. count] ==
        IF n = 0 THEN x ELSE Exchanged(upTo[n - 1], n - 1, ReverseBits(count, n - 1))
  IN  upTo[count]

(* The butterflies of one stage: the twiddle factors of a length are those *)
(* of 32, thinned out.                                                     *)
Stage(x, length) ==
  LET half == length \div 2
  IN  [n \in DOMAIN x |->
         LET index == n % half
             even == n - (n % length) + index
             product == Rotated(x[even + half], index * (32 \div length))
         IN  IF n = even THEN Sum(x[even], product) ELSE Difference(x[even], product)]

(* apply_stages ends at the number of values.                             *)
StageUpTo(count, x, length) == IF length <= count THEN Stage(x, length) ELSE x

LateStages(x, count) == StageUpTo(count, StageUpTo(count, x, 16), 32)

TransformGeneric(x, count) ==
  LateStages(StageUpTo(count, Stage(Stage(Reordered(x, count), 2), 4), 8), count)

(* Stages of 2, 4 and 8 values inside of a register, which holds as many   *)
(* values as the lists are long.                                           *)
SignedNeighbours(x) ==
  [n \in DOMAIN x |->
     LET neighbour == PermutedBlocks(x, <<1, 0>>)[n]
     IN  Sum(neighbour, Signed(x[n], IF n % 2 = 0 THEN 1 ELSE -1))]

InRegister(x, even, odd, rotation, sign) ==
  LET evens == PermutedBlocks(x, even)
      odds == PermutedBlocks(x, odd)
      At(list, n) == list[(n % Len(list)) + 1]
  IN  [n \in DOMAIN x |->
         Sum(evens[n], Signed(Rotated(odds[n], At(rotation, n)), At(sign, n)))]

RegisterStage4(x) ==
  InRegister(x, <<0, 1, 0, 1>>, <<2, 3, 2, 3>>, <<0, 8, 0, 8>>, <<1, 1, -1, -1>>)

RegisterStage8(x) ==
  InRegister(x, <<0, 1, 2, 3, 0, 1, 2, 3>>, <<4, 5, 6, 7, 4, 5, 6, 7>>,
             <<0, 4, 8, 12, 0, 4, 8, 12>>, <<1, 1, 1, 1, -1, -1, -1, -1>>)

(* Four values two apart: ifft4_stride.                                    *)
TransformOfFour(x, offset) ==
  LET sum02 == Sum(x[offset], x[offset + 4])
      diff02 == Difference(x[offset], x[offset + 4])
      sum13 == Sum(x[offset + 2], x[offset + 6])
      diff13 == Rotated(Difference(x[offset + 2], x[offset + 6]), 8)
  IN  <<Sum(sum02, sum13), Sum(diff02, diff13),
        Difference(sum02, sum13), Difference(diff02, diff13)>>

TransformOfEight(x) ==
  LET even == TransformOfFour(x, 0)
      odd == TransformOfFour(x, 1)
      product == [k \in 1 .. 4 |-> Rotated(odd[k], 4 * (k - 1))]
  IN  [n \in 0 .. 7 |-> IF n < 4 THEN Sum(even[n + 1], product[n + 1])
                        ELSE Difference(even[n - 3], product[n - 3])]

TransformAvx2(x, count) ==
  CASE count = 4 -> TransformGeneric(x, count)
    [] count = 8 -> TransformOfEight(x)
    [] count \in {16, 32} ->
         LateStages(RegisterStage8(RegisterStage4(SignedNeighbours(Reordered(x, count)))), count)

TransformNeon(x, count) ==
  IF count = 4 THEN TransformGeneric(x, count)
  ELSE LET early == RegisterStage4(SignedNeighbours(Reordered(x, count)))
       IN  LateStages(Stage(early, 8), count)

Transform(backend, x, count) ==
  CASE backend = "generic" -> TransformGeneric(x, count)
    [] backend = "avx2_fma" -> TransformAvx2(x, count)
    [] backend = "neon" -> TransformNeon(x, count)

(* Output k of an unscaled inverse transform of count inputs.              *)
InverseDft(x, k, count) == UNION {Rotated(x[n], (n * k * (32 \div count)) % 32) : n \in 0 .. count - 1}
=============================================================================
