----------------------------- MODULE Primitives -------------------------------
(***************************************************************************)
(* The stateless primitives: conversions of bits and samples, and dot      *)
(* products.  Each backend runs a sequence of loops over the elements, the *)
(* widest vectors first, until a scalar loop takes the rest.               *)
(*                                                                         *)
(* An operator below says what an iteration does: which elements it stores *)
(* and from which inputs, or which products it adds.  A result stands for  *)
(* the inputs it is made of: a packed byte for the eight inputs of its     *)
(* bits, an unpacked byte for a bit of an input, a power for the two       *)
(* components it is the sum of squares of.                                 *)
(*                                                                         *)
(* A definition whose comment starts with Fault is no part of the model:   *)
(* it is the definition that follows it with a plausible mistake, which a  *)
(* property must notice.                                                   *)
(***************************************************************************)
EXTENDS SimdLanes

CONSTANTS
  NaN

ASSUME NaNAssumption == NaN \notin Int

Forever(width) == [width |-> width, repeats |-> TRUE]
Once(width) == [width |-> width, repeats |-> FALSE]
Scalar == Forever(1)

(* The loops of each backend.  Invert, for instance, ends with the loops   *)
(* of the generic code, MapQPSK of AVX2 with those of SSE2.                *)
Loops == [
  Invert |-> [generic |-> <<Forever(8), Scalar>>,
              sse2    |-> <<Forever(16), Forever(8), Scalar>>,
              avx2    |-> <<Forever(32), Forever(8), Scalar>>,
              avx512f |-> <<Forever(64), Forever(8), Scalar>>],
  Pack8_LSB |-> [generic  |-> <<Scalar>>,
                 sse2     |-> <<Forever(2), Scalar>>,
                 avx2     |-> <<Forever(8), Once(4), Scalar>>,
                 avx512bw |-> <<Forever(8), Scalar>>],
  Pack8_MSB |-> [generic |-> <<Scalar>>,
                 sse2    |-> <<Forever(2), Scalar>>,
                 avx2    |-> <<Forever(8), Once(4), Scalar>>],
  Unpack8_LSB |-> [generic  |-> <<Scalar>>,
                   sse2     |-> <<Forever(8), Scalar>>,
                   avx2     |-> <<Forever(16), Once(8), Once(4), Scalar>>,
                   avx512bw |-> <<Forever(8), Scalar>>],
  Unpack8_MSB |-> [generic |-> <<Scalar>>,
                   sse2    |-> <<Forever(8), Scalar>>,
                   avx2    |-> <<Forever(16), Once(8), Once(4), Scalar>>],
  MapQPSK |-> [generic |-> <<Scalar>>,
               sse2    |-> <<Forever(4), Scalar>>,
               avx2    |-> <<Forever(8), Forever(4), Scalar>>],
  PowerSpectrum |-> [generic |-> <<Scalar>>,
                     sse2    |-> <<Forever(4), Scalar>>,
                     avx2    |-> <<Forever(8), Scalar>>],
  DotProd |-> [generic  |-> <<Forever(2), Scalar>>,
               avx2     |-> <<Forever(16), Forever(4), Scalar>>,
               avx2_fma |-> <<Forever(16), Forever(8), Forever(4), Scalar>>],
  DotProdSymmetric |-> [generic  |-> <<Forever(4), Scalar>>,
                        avx2     |-> <<Forever(4), Scalar>>,
                        avx2_fma |-> <<Forever(8), Forever(4), Scalar>>]]

Operations == DOMAIN Loops

(* What lanes hold goes to consecutive elements.                           *)
StoredAt(first, register) == {<<first + lane, register[lane]>> : lane \in DOMAIN register}

-----------------------------------------------------------------------------
(* Packing: bit n of a result is the lowest bit of input of[n].            *)
PackedScalar(i, msb) ==
  {<<i, [bit \in 0 .. 7 |-> IF msb THEN 8 * i + (7 - bit) ELSE 8 * i + bit]>>}

(* A mask of the lanes' sign bits, stored least significant byte first.    *)
MaskBytes(register, bytes) ==
  [byte \in 0 .. bytes - 1 |-> [bit \in 0 .. 7 |-> register[8 * byte + bit]]]

(* SSE2 reverses the 16-bit words of each half and swaps their bytes.      *)
WordsSwapped(register) ==
  PermutedBlocks(PermutedBlocks(register, <<6, 7, 4, 5, 2, 3, 0, 1>>), <<1, 0>>)

(* Fault: bytes are reversed in all of a register's 128-bit lanes.         *)
BytesReversedTooFar(register) ==
  PermutedBlocks(register, <<15, 14, 13, 12, 11, 10, 9, 8, 7, 6, 5, 4, 3, 2, 1, 0>>)

BytesReversed(register) ==
  PermutedBlocks(register, <<7, 6, 5, 4, 3, 2, 1, 0, 15, 14, 13, 12, 11, 10, 9, 8>>)

PackedVector(i, width, backend, msb) ==
  LET bits == Loaded(8 * i, 8 * width)
  IN  StoredAt(i, MaskBytes(IF ~msb THEN bits
                            ELSE IF backend = "sse2" THEN WordsSwapped(bits)
                            ELSE BytesReversed(bits), width))

(* Unpacking: element n is bit b of input m, written <<m, b>>.             *)
BitOf(lane, msb) == IF msb THEN 7 - (lane % 8) ELSE lane % 8

UnpackedScalar(i, msb) == {<<8 * i + k, <<i, BitOf(k, msb)>>>> : k \in 0 .. 7}

BitsTested(bytes, msb) == [lane \in DOMAIN bytes |-> <<bytes[lane], BitOf(lane, msb)>>]

(* SSE2 doubles eight bytes three times.                                   *)
UnpackedSse2(i, msb) ==
  LET bytes == Loaded(i, 16)   \* the upper eight are never used
      pairs == Interleaved(bytes, bytes, 0, 1)
      low == Interleaved(pairs, pairs, 0, 2)
      high == Interleaved(pairs, pairs, 8, 2)
      Stored(at, quads, half) ==
        StoredAt(8 * i + at, BitsTested(Interleaved(quads, quads, half, 4), msb))
  IN  Stored(0, low, 0) \cup Stored(16, low, 8) \cup Stored(32, high, 0) \cup Stored(48, high, 8)

(* AVX2 has the bytes in both 128-bit lanes and spreads four at a time.    *)
UnpackedAvx2(i, width, msb) ==
  LET bytes == Loaded(i, width)
      Spread(k) == [lane \in 0 .. 31 |-> bytes[4 * k + (lane \div 8)]]
  IN  UNION {StoredAt(8 * i + 32 * k, BitsTested(Spread(k), msb)) : k \in 0 .. (width \div 4) - 1}

(* AVX-512 takes eight bytes as a mask of 64 lanes.                        *)
UnpackedAvx512(i) ==
  StoredAt(8 * i, [lane \in 0 .. 63 |-> <<i + (lane \div 8), lane % 8>>])

-----------------------------------------------------------------------------
(* Soft bits.  128 - gain * x of a component is given in halves, by a      *)
(* pattern that holds all the cases a conversion tells apart.              *)
SoftInputs ==
  <<NaN, 0, 1, 2, 3, -1, 255, 256, 257, -100000, 509, 510, 511, 100000, 5, -2, 20>>

SoftInput(component) == SoftInputs[(component % Len(SoftInputs)) + 1]

(* The rounding of lrintf and of the vector conversion, ties to even.      *)
Rounded(halves) ==
  LET whole == halves \div 2
  IN  IF halves % 2 = 1 /\ whole % 2 = 1 THEN whole + 1 ELSE whole

SoftScalar(s) ==
  IF s = NaN THEN 128 ELSE IF s <= 0 THEN 0 ELSE IF s >= 510 THEN 255 ELSE Rounded(s)

AtLeast(low, value) == IF value < low THEN low ELSE value
AtMost(high, value) == IF value > high THEN high ELSE value

(* A maximum with a NaN is its second operand; the conversions to 16 and   *)
(* to 8 bits saturate.                                                     *)
SoftVector(s) ==
  LET limited == AtMost(510, IF s = NaN THEN 0 ELSE AtLeast(0, s))
      kept == IF s = NaN THEN 256 ELSE limited
  IN  AtLeast(0, AtMost(255, AtMost(32767, Rounded(kept))))

(* A soft bit: the component it is made of, and its value.                 *)
SoftLanes(register) ==
  [lane \in DOMAIN register |-> <<register[lane], SoftVector(SoftInput(register[lane]))>>]

MappedScalar(i) == {<<n, <<n, SoftScalar(SoftInput(n))>>>> : n \in 2 * i .. 2 * i + 1}

MappedSse2(i) ==
  LET a == Loaded(2 * i, 4)
      b == Loaded(2 * i + 4, 4)
      i_and_q == [lane \in 0 .. 7 |-> Halved(a, b, lane % 2)[lane \div 2]]
  IN  StoredAt(2 * i, SoftLanes(i_and_q))

(* Packing works within 128-bit lanes; the last shuffle undoes that.       *)
MappedAvx2(i) ==
  LET a == SoftLanes(Loaded(2 * i, 8))
      b == SoftLanes(Loaded(2 * i + 8, 8))
      packed == Permuted(Joined(a, b), <<0, 1, 2, 3, 8, 9, 10, 11, 4, 5, 6, 7, 12, 13, 14, 15>>)
  IN  StoredAt(2 * i, Permuted(packed, <<0, 1, 2, 3, 8, 9, 10, 11, 4, 5, 6, 7, 12, 13, 14, 15>>))

-----------------------------------------------------------------------------
(* Powers, the sums of two squares.                                        *)
PowerScalar(i) == {<<i, {2 * i, 2 * i + 1}>>}

PowerSse2(i) ==
  LET low == Loaded(2 * i, 4)
      high == Loaded(2 * i + 4, 4)
      re == Halved(low, high, 0)
      im == Halved(low, high, 1)
  IN  StoredAt(i, [lane \in 0 .. 3 |-> {re[lane], im[lane]}])

PowerAvx2(i) ==
  LET sums == NeighbourSums(Loaded(2 * i, 8), Loaded(2 * i + 8, 8))
  IN  StoredAt(i, Permuted(sums, <<0, 1, 4, 5, 2, 3, 6, 7>>))

-----------------------------------------------------------------------------
(* Dot products.  A product is the part of the result it is added to, the  *)
(* number of the components multiplied, and the tap.  The lanes of the     *)
(* accumulators are folded onto the first two.                             *)
Re == 0
Im == 1

DotScalar(i, width) == {<<part, 2 * n + part, n>> : part \in {Re, Im}, n \in i .. i + width - 1}

TapsTwice == <<0, 0, 1, 1, 2, 2, 3, 3>>

DotVector(i, width) ==
  UNION {LET samples == Loaded(2 * (i + 4 * k), 8)
             taps == Permuted(Loaded(i + 4 * k, 4), TapsTwice)
         IN  {<<lane % 2, samples[lane], taps[lane]>> : lane \in 0 .. 7} :
           k \in 0 .. (width \div 4) - 1}

(* The sample in the middle has a tap of its own.                          *)
Centre(pairs) == {<<part, <<2 * pairs + part>>, -1>> : part \in {Re, Im}}

SymmetricScalar(k, width, pairs) ==
  LET hi == 4 * pairs - 2 * k
  IN  {<<part, <<2 * k + 2 * j + part, hi - 2 * j + part>>, k + j>> :
         part \in {Re, Im}, j \in 0 .. width - 1}

ReverseComplex(register) == Permuted(register, <<6, 7, 4, 5, 2, 3, 0, 1>>)

SymmetricVector(first, width, pairs) ==
  UNION {LET k == first + 4 * n
             left == Loaded(2 * k, 8)
             right == ReverseComplex(Loaded(4 * pairs - (2 * k + 6), 8))
             taps == Permuted(Loaded(k, 4), TapsTwice)
         IN  {<<lane % 2, <<left[lane], right[lane]>>, taps[lane]>> : lane \in 0 .. 7} :
           n \in 0 .. (width \div 4) - 1}

-----------------------------------------------------------------------------
(* What one iteration stores or adds.                                      *)
Iteration(operation, backend, width, i, length) ==
  LET vector == width > 1 /\ backend # "generic"
      msb == operation \in {"Pack8_MSB", "Unpack8_MSB"}
  IN  CASE operation = "Invert" -> StoredAt(i, Loaded(i, width))
        [] operation \in {"Pack8_LSB", "Pack8_MSB"} ->
             IF vector THEN PackedVector(i, width, backend, msb) ELSE PackedScalar(i, msb)
        [] operation \in {"Unpack8_LSB", "Unpack8_MSB"} ->
             IF ~vector THEN UnpackedScalar(i, msb)
             ELSE IF backend = "sse2" THEN UnpackedSse2(i, msb)
             ELSE IF backend = "avx2" THEN UnpackedAvx2(i, width, msb)
             ELSE UnpackedAvx512(i)
        [] operation = "MapQPSK" ->
             IF width = 8 THEN MappedAvx2(i) ELSE IF width = 4 THEN MappedSse2(i)
             ELSE MappedScalar(i)
        [] operation = "PowerSpectrum" ->
             IF width = 8 THEN PowerAvx2(i) ELSE IF width = 4 THEN PowerSse2(i) ELSE PowerScalar(i)
        [] operation = "DotProd" -> IF vector THEN DotVector(i, width) ELSE DotScalar(i, width)
        [] operation = "DotProdSymmetric" ->
             IF vector THEN SymmetricVector(i, width, length) ELSE SymmetricScalar(i, width, length)

(* What is there before the first iteration.                               *)
Begun(operation, length) == IF operation = "DotProdSymmetric" THEN Centre(length) ELSE {}

(* The definition of each operation, element by element.                   *)
Defined(operation, length) ==
  LET elements == 0 .. length - 1
      Bit(n, msb) == IF msb THEN 7 - n ELSE n
      Soft(s) == IF s = NaN THEN 128 ELSE AtLeast(0, AtMost(255, Rounded(s)))
      msb == operation \in {"Pack8_MSB", "Unpack8_MSB"}
  IN  CASE operation = "Invert" -> {<<n, n>> : n \in elements}
        [] operation \in {"Pack8_LSB", "Pack8_MSB"} ->
             {<<n, [bit \in 0 .. 7 |-> 8 * n + Bit(bit, msb)]>> : n \in elements}
        [] operation \in {"Unpack8_LSB", "Unpack8_MSB"} ->
             {<<n, <<n \div 8, Bit(n % 8, msb)>>>> : n \in 0 .. (8 * length) - 1}
        [] operation = "MapQPSK" ->
             {<<n, <<n, Soft(SoftInput(n))>>>> : n \in 0 .. (2 * length) - 1}
        [] operation = "PowerSpectrum" -> {<<n, {2 * n, 2 * n + 1}>> : n \in elements}
        [] operation = "DotProd" ->
             {<<part, 2 * n + part, n>> : part \in {Re, Im}, n \in elements}
        [] operation = "DotProdSymmetric" ->
             {<<part, <<2 * length + part>>, -1>> : part \in {Re, Im}} \cup
             {<<part, <<2 * n + part, 2 * (2 * length - n) + part>>, n>> :
                part \in {Re, Im}, n \in elements}
=============================================================================
