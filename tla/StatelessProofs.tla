--------------------------- MODULE StatelessProofs ---------------------------
(***************************************************************************)
(* Why every backend's transforms are the inverse Fourier transforms, and  *)
(* why the loops of the primitives make exactly the elements there are.    *)
(***************************************************************************)
EXTENDS Stateless, FiniteSetTheorems, WellFoundedInduction, TLAPS

-----------------------------------------------------------------------------
(* Induction and recursion.                                                *)

(* A set that holds 0 and every successor holds all numbers.               *)
LEMMA Induction ==
  ASSUME NEW S, 0 \in S, \A n \in Nat : n \in S => n + 1 \in S
  PROVE  \A n \in Nat : n \in S
<1> DEFINE T == {n \in Nat : n \notin S}
<1>1. SUFFICES ASSUME T # {} PROVE FALSE
  OBVIOUS
<1> HIDE DEF T
<1>2. T \subseteq Nat
  BY DEF T
<1>3. PICK x \in T : \A y \in T : ~ (<<y, x>> \in OpToRel(<,Nat))
  BY <1>1, <1>2, WFMin, NatLessThanWellFounded
<1>4. x \in Nat /\ x # 0
  BY <1>3 DEF T
<1>5. x - 1 \in Nat /\ (x - 1) + 1 = x
  BY <1>4
<1>6. x - 1 \notin S
  <2>1. x \notin S
    BY <1>3 DEF T
  <2>2. x - 1 \in S => (x - 1) + 1 \in S
    BY <1>5
  <2>3. QED
    BY <2>1, <2>2, <1>5
<1>7. x - 1 \in T
  BY <1>5, <1>6 DEF T
<1>8. <<x - 1, x>> \in OpToRel(<, Nat)
  BY <1>4, <1>5 DEF OpToRel
<1>9. QED
  BY <1>3, <1>7, <1>8

(* Two functions that start alike and go on alike are alike.               *)
GoOnAlike(N, f, g) ==
  f[0] = g[0] /\ \A i \in 1 .. N : f[i - 1] = g[i - 1] => f[i] = g[i]

LEMMA SameRecursion ==
  ASSUME NEW N \in Nat, NEW f, NEW g, GoOnAlike(N, f, g)
  PROVE  \A i \in 0 .. N : f[i] = g[i]
<1> DEFINE S == {n \in Nat : n <= N => f[n] = g[n]}
<1>1. 0 \in S
  BY DEF GoOnAlike
<1>2. ASSUME NEW n \in Nat, n \in S
      PROVE  n + 1 \in S
  <2>1. SUFFICES ASSUME n + 1 <= N
                 PROVE  f[n + 1] = g[n + 1]
    OBVIOUS
  <2>2. f[n] = g[n]
    BY <1>2, <2>1
  <2>3. n + 1 \in 1 .. N /\ (n + 1) - 1 = n
    BY <2>1
  <2> QED
    BY <2>2, <2>3 DEF GoOnAlike
<1>3. \A n \in Nat : n \in S
  <2> HIDE DEF S
  <2> QED
    BY <1>1, <1>2, Induction
<1> QED
  BY <1>3

-----------------------------------------------------------------------------
(* Complex values.                                                         *)
Complex == SUBSET (Nat \X (0 .. 31))

LEMMA Remainders ==
  /\ \A a \in Int : a % 32 \in 0 .. 31
  /\ \A a \in Int, b \in Int : ((a % 32) + b) % 32 = (a + b) % 32
  /\ \A a \in Int, q \in Int : (a + 32 * q) % 32 = a % 32
OBVIOUS

LEMMA RotatedType == \A v \in Complex, e \in Int : Rotated(v, e) \in Complex
<1> SUFFICES ASSUME NEW v \in Complex, NEW e \in Int, NEW term \in v
             PROVE  <<term[1], (term[2] + e) % 32>> \in Nat \X (0 .. 31)
  BY DEF Rotated, Complex
<1>1. term[1] \in Nat /\ term[2] \in Int
  BY DEF Complex
<1>2. (term[2] + e) % 32 \in 0 .. 31
  BY <1>1
<1> QED
  BY <1>1, <1>2

LEMMA RotatedUnion ==
  \A v, w, e : Rotated(v \cup w, e) = Rotated(v, e) \cup Rotated(w, e)
BY DEF Rotated

(* Only the remainder of an exponent counts.                               *)
LEMMA RotatedAlike ==
  ASSUME NEW v \in Complex, NEW a \in Int, NEW b \in Int, a % 32 = b % 32
  PROVE  Rotated(v, a) = Rotated(v, b)
<1>1. \A term \in v : (term[2] + a) % 32 = (term[2] + b) % 32
  BY DEF Complex
<1> QED
  BY <1>1 DEF Rotated

LEMMA RotatedTwice ==
  ASSUME NEW v \in Complex, NEW a \in Int, NEW b \in Int
  PROVE  Rotated(Rotated(v, a), b) = Rotated(v, a + b)
<1>1. ASSUME NEW term \in v
      PROVE  (((term[2] + a) % 32) + b) % 32 = (term[2] + (a + b)) % 32
  BY DEF Complex
<1>2. Rotated(Rotated(v, a), b) = {<<term[1], (((term[2] + a) % 32) + b) % 32>> : term \in v}
  <2>1. ASSUME NEW t
        PROVE  t \in Rotated(Rotated(v, a), b)
                 <=> \E term \in v : t = <<term[1], (((term[2] + a) % 32) + b) % 32>>
    <3> DEFINE Turned(term) == <<term[1], (term[2] + a) % 32>>
    <3>1. t \in Rotated(Rotated(v, a), b)
            <=> \E term \in v : t = <<Turned(term)[1], (Turned(term)[2] + b) % 32>>
      BY DEF Rotated
    <3>2. \A term \in v : Turned(term)[1] = term[1] /\ Turned(term)[2] = (term[2] + a) % 32
      OBVIOUS
    <3> HIDE DEF Turned
    <3> QED
      BY <3>1, <3>2
  <2> QED
    BY <2>1
<1> QED
  BY <1>1, <1>2 DEF Rotated

LEMMA NotRotated == \A v \in Complex : Rotated(v, 0) = v
<1> SUFFICES ASSUME NEW v \in Complex PROVE Rotated(v, 0) = v
  OBVIOUS
<1>1. \A term \in v : <<term[1], (term[2] + 0) % 32>> = term
  BY DEF Complex
<1> QED
  BY <1>1 DEF Rotated

-----------------------------------------------------------------------------
(* The transform of the values that are `step` apart: output k of those    *)
(* `length` many.                                                          *)
Part(x, first, step, k, length) ==
  UNION {Rotated(x[first + j * step], j * k * (32 \div length)) : j \in 0 .. length - 1}

Lengths2 == {2, 4, 8, 16, 32}

AreComplex(x, first, step, length) == \A j \in 0 .. length - 1 : x[first + j * step] \in Complex

LEMMA HalvesOfLengths ==
  \A length \in Lengths2 :
    /\ length \div 2 \in {1, 2, 4, 8, 16} /\ length = 2 * (length \div 2)
    /\ 32 \div (length \div 2) = 2 * (32 \div length) /\ 32 \div length \in Nat
    /\ length * (32 \div length) = 32
BY DEF Lengths2

LEMMA EvenExponents ==
  ASSUME NEW length \in Lengths2, NEW k \in 0 .. length - 1, NEW i \in Nat
  PROVE  ((2 * i) * k * (32 \div length)) % 32
           = (i * (k % (length \div 2)) * (32 \div (length \div 2))) % 32
<1> DEFINE half == length \div 2
           c == 32 \div length
           m == k % half
<1>1. half \in Nat \ {0} /\ length = 2 * half /\ 32 \div half = 2 * c /\ c \in Nat /\ 2 * (half * c) = 32
  BY HalvesOfLengths DEF Lengths2
<1>2. m \in Nat /\ (k = m \/ k = m + half)
  BY DEF Lengths2
<1>0. SUFFICES ((2 * i) * k * c) % 32 = (i * m * (2 * c)) % 32
  BY <1>1
<1> HIDE DEF half, c, m
<1>3. CASE k = m
  <2>1. (2 * i) * m * c = i * m * (2 * c)
    BY <1>1, <1>2
  <2> QED
    BY <1>1, <1>3, <2>1
<1>4. CASE k = m + half
  <2>1. (2 * i) * (m + half) * c = i * m * (2 * c) + i * (2 * (half * c))
    BY <1>1, <1>2
  <2>2. i * m * (2 * c) \in Int /\ i * (2 * (half * c)) = 32 * i
    BY <1>1, <1>2
  <2> QED
    BY <1>1, <1>4, <2>1, <2>2, Remainders
<1> QED
  BY <1>2, <1>3, <1>4

LEMMA OddExponents ==
  ASSUME NEW length \in Lengths2, NEW k \in 0 .. length - 1, NEW i \in Nat
  PROVE  ((2 * i + 1) * k * (32 \div length)) % 32
           = (i * (k % (length \div 2)) * (32 \div (length \div 2))
               + ((k % (length \div 2)) * (32 \div length)
                   + (IF k < length \div 2 THEN 0 ELSE 16))) % 32
<1> DEFINE half == length \div 2
           c == 32 \div length
           m == k % half
<1>1. half \in Nat \ {0} /\ length = 2 * half /\ 32 \div half = 2 * c /\ c \in Nat /\ half * c = 16
  BY HalvesOfLengths DEF Lengths2
<1>2. m \in Nat /\ m < half /\ (k = m \/ k = m + half)
  BY DEF Lengths2
<1>0. SUFFICES ((2 * i + 1) * k * c) % 32
                 = (i * m * (2 * c) + (m * c + (IF k < half THEN 0 ELSE 16))) % 32
  BY <1>1
<1> HIDE DEF half, c, m
<1>3. CASE k = m
  <2>1. (2 * i + 1) * m * c = i * m * (2 * c) + m * c
    BY <1>1, <1>2
  <2>2. m * c \in Int /\ k < half
    BY <1>1, <1>2, <1>3
  <2> QED
    BY <1>1, <1>3, <2>1, <2>2
<1>4. CASE k = m + half
  <2> DEFINE p == i * m * (2 * c)
             q == m * c
             rest == p + (q + 16)
  <2>1. (2 * i + 1) * (m + half) * c = (p + (q + half * c)) + i * (2 * (half * c))
    BY <1>1, <1>2
  <2>2. p \in Int /\ q \in Int
    BY <1>1, <1>2
  <2>3. ~(k < half)
    BY <1>1, <1>2, <1>4
  <2> HIDE DEF p, q
  <2>4. rest \in Int /\ (2 * i + 1) * (m + half) * c = rest + 32 * i
    BY <1>1, <2>1, <2>2
  <2>5. rest = p + (q + (IF k < half THEN 0 ELSE 16))
    BY <2>3
  <2> HIDE DEF rest
  <2>6. ((2 * i + 1) * k * c) % 32 = rest % 32
    BY <1>4, <2>4, Remainders
  <2> QED
    BY <2>5, <2>6 DEF p, q
<1> QED
  BY <1>2, <1>3, <1>4

(* Length many values fall into those with even and those with odd numbers. *)
LEMMA PartInHalves ==
  ASSUME NEW length \in Lengths2, NEW k \in 0 .. length - 1, NEW x, NEW first \in Nat,
         NEW step \in Nat, AreComplex(x, first, step, length),
         NEW half, half = length \div 2, NEW place, place = k % half
  PROVE  Part(x, first, step, k, length)
           = Part(x, first, 2 * step, place, half)
             \cup Rotated(Part(x, first + step, 2 * step, place, half),
                          place * (32 \div length) + (IF k < half THEN 0 ELSE 16))
<1> DEFINE turn == place * (32 \div length) + (IF k < half THEN 0 ELSE 16)
           Whole(j) == Rotated(x[first + j * step], j * k * (32 \div length))
           Even(i) == Rotated(x[first + i * (2 * step)], i * place * (32 \div half))
           Odd(i) == Rotated(x[(first + step) + i * (2 * step)], i * place * (32 \div half))
<1>1. half \in Nat \ {0} /\ length = 2 * half /\ place \in Nat /\ turn \in Int
      /\ 32 \div half \in Nat /\ 32 \div length \in Nat
  BY HalvesOfLengths DEF Lengths2
<1>2. ASSUME NEW i \in 0 .. half - 1
      PROVE  Whole(2 * i) = Even(i) /\ Whole(2 * i + 1) = Rotated(Odd(i), turn)
  <2>1. 2 * i \in 0 .. length - 1 /\ 2 * i + 1 \in 0 .. length - 1 /\ i \in Nat
    BY <1>1
  <2>2. (2 * i) * step = i * (2 * step) /\ first + (2 * i + 1) * step = (first + step) + i * (2 * step)
    BY <2>1
  <2>3. x[first + i * (2 * step)] \in Complex /\ x[(first + step) + i * (2 * step)] \in Complex
    BY <2>1, <2>2 DEF AreComplex
  <2>4. (2 * i) * k * (32 \div length) \in Int /\ (2 * i + 1) * k * (32 \div length) \in Int
        /\ i * place * (32 \div half) \in Int
    BY <1>1, <2>1
  <2>5. Whole(2 * i) = Even(i)
    <3>1. ((2 * i) * k * (32 \div length)) % 32 = (i * place * (32 \div half)) % 32
      BY <2>1, EvenExponents
    <3> QED
      BY <3>1, <2>2, <2>3, <2>4, RotatedAlike
  <2>6. Whole(2 * i + 1) = Rotated(x[(first + step) + i * (2 * step)], i * place * (32 \div half) + turn)
    <3>1. ((2 * i + 1) * k * (32 \div length)) % 32 = (i * place * (32 \div half) + turn) % 32
      BY <2>1, OddExponents
    <3> HIDE DEF turn
    <3>2. i * place * (32 \div half) + turn \in Int
      BY <1>1, <2>4
    <3> QED
      BY <3>1, <3>2, <2>2, <2>3, <2>4, RotatedAlike
  <2>7. Rotated(Odd(i), turn) = Rotated(x[(first + step) + i * (2 * step)], i * place * (32 \div half) + turn)
    <3> HIDE DEF turn
    <3> QED
      BY <1>1, <2>3, <2>4, RotatedTwice
  <2> HIDE DEF Whole, Even, Odd, turn
  <2> QED
    BY <2>5, <2>6, <2>7
<1>3. Part(x, first, step, k, length) = UNION {Whole(j) : j \in 0 .. length - 1}
  BY DEF Part
<1>4. Part(x, first, 2 * step, place, half) = UNION {Even(i) : i \in 0 .. half - 1}
  BY DEF Part
<1>5. Part(x, first + step, 2 * step, place, half) = UNION {Odd(i) : i \in 0 .. half - 1}
  BY DEF Part
<1>6. \A j \in 0 .. length - 1 : \E i \in 0 .. half - 1 : j = 2 * i \/ j = 2 * i + 1
  <2> SUFFICES ASSUME NEW j \in 0 .. length - 1
               PROVE  \E i \in 0 .. half - 1 : j = 2 * i \/ j = 2 * i + 1
    OBVIOUS
  <2>1. j \div 2 \in 0 .. half - 1 /\ (j = 2 * (j \div 2) \/ j = 2 * (j \div 2) + 1)
    BY <1>1
  <2> QED
    BY <2>1
<1>7. \A i \in 0 .. half - 1 : 2 * i \in 0 .. length - 1 /\ 2 * i + 1 \in 0 .. length - 1
  BY <1>1
<1> HIDE DEF turn, Whole, Even, Odd
<1>8. Rotated(UNION {Odd(i) : i \in 0 .. half - 1}, turn)
        = UNION {Rotated(Odd(i), turn) : i \in 0 .. half - 1}
  BY DEF Rotated
<1>9. ASSUME NEW t
      PROVE  (\E j \in 0 .. length - 1 : t \in Whole(j))
               <=> \/ \E i \in 0 .. half - 1 : t \in Even(i)
                   \/ \E i \in 0 .. half - 1 : t \in Rotated(Odd(i), turn)
  <2>1. ASSUME NEW j \in 0 .. length - 1, t \in Whole(j)
        PROVE  \/ \E i \in 0 .. half - 1 : t \in Even(i)
               \/ \E i \in 0 .. half - 1 : t \in Rotated(Odd(i), turn)
    <3>1. PICK i \in 0 .. half - 1 : j = 2 * i \/ j = 2 * i + 1
      BY <1>6
    <3>2. CASE j = 2 * i
      <4>1. t \in Whole(2 * i)
        BY <2>1, <3>2
      <4> QED
        BY <4>1, <1>2, Zenon
    <3>3. CASE j = 2 * i + 1
      <4>1. t \in Whole(2 * i + 1)
        BY <2>1, <3>3
      <4> QED
        BY <4>1, <1>2, Zenon
    <3> QED
      BY <3>1, <3>2, <3>3
  <2>2. ASSUME NEW i \in 0 .. half - 1
        PROVE  /\ t \in Even(i) => \E j \in 0 .. length - 1 : t \in Whole(j)
               /\ t \in Rotated(Odd(i), turn) => \E j \in 0 .. length - 1 : t \in Whole(j)
    BY <1>2, <1>7, Zenon
  <2> QED
    BY <2>1, <2>2, Zenon
<1>10. ASSUME NEW t
       PROVE  t \in Part(x, first, step, k, length)
                <=> \/ t \in Part(x, first, 2 * step, place, half)
                    \/ t \in Rotated(Part(x, first + step, 2 * step, place, half), turn)
  <2>1. t \in Part(x, first, step, k, length) <=> \E j \in 0 .. length - 1 : t \in Whole(j)
    BY <1>3
  <2>2. t \in Part(x, first, 2 * step, place, half) <=> \E i \in 0 .. half - 1 : t \in Even(i)
    BY <1>4
  <2>3. t \in Rotated(Part(x, first + step, 2 * step, place, half), turn)
          <=> \E i \in 0 .. half - 1 : t \in Rotated(Odd(i), turn)
    BY <1>5, <1>8
  <2> QED
    BY <1>9, <2>1, <2>2, <2>3
<1>11. Part(x, first, step, k, length)
         = Part(x, first, 2 * step, place, half)
           \cup Rotated(Part(x, first + step, 2 * step, place, half), turn)
  BY <1>10
<1> QED
  BY <1>11 DEF turn

LEMMA PartOfOne ==
  ASSUME NEW x, NEW first, x[first] \in Complex, NEW step \in Nat, first \in Nat
  PROVE  Part(x, first, step, 0, 1) = x[first]
<1>1. \A j \in 0 .. 1 - 1 : j = 0 /\ first + j * step = first /\ j * 0 * (32 \div 1) = 0
  OBVIOUS
<1>2. Part(x, first, step, 0, 1) = UNION {Rotated(x[first], 0) : j \in 0 .. 1 - 1}
  BY <1>1 DEF Part
<1>3. Rotated(x[first], 0) = x[first]
  BY NotRotated
<1>4. 0 \in 0 .. 1 - 1
  OBVIOUS
<1> QED
  BY <1>2, <1>3, <1>4

LEMMA PartType ==
  ASSUME NEW length \in Lengths2 \cup {1}, NEW k \in Nat, NEW x, NEW first \in Nat,
         NEW step \in Nat, AreComplex(x, first, step, length)
  PROVE  Part(x, first, step, k, length) \in Complex
<1>1. 32 \div length \in Nat
  BY DEF Lengths2
<1>2. \A j \in 0 .. length - 1 : Rotated(x[first + j * step], j * k * (32 \div length)) \in Complex
  BY <1>1, RotatedType DEF AreComplex
<1> QED
  BY <1>2 DEF Part, Complex

-----------------------------------------------------------------------------
(* The order of bits.  After the stage of some length, a block holds the   *)
(* transform of the values that are as far apart as there are blocks.      *)
Order(blocks, block) ==
  IF blocks = 1 THEN 0 ELSE IF blocks = 2 THEN block ELSE ReverseBits(blocks, block)

LEMMA BitsReversed ==
  ASSUME NEW n \in Nat
  PROVE  /\ ReverseBits(4, n) = 2 * (n % 2) + ((n \div 2) % 2)
         /\ ReverseBits(8, n) = 2 * (2 * (n % 2) + ((n \div 2) % 2)) + (((n \div 2) \div 2) % 2)
         /\ ReverseBits(16, n) = 2 * (2 * (2 * (n % 2) + ((n \div 2) % 2))
                                       + (((n \div 2) \div 2) % 2))
                                   + ((((n \div 2) \div 2) \div 2) % 2)
         /\ ReverseBits(32, n) = 2 * (2 * (2 * (2 * (n % 2) + ((n \div 2) % 2))
                                            + (((n \div 2) \div 2) % 2))
                                        + ((((n \div 2) \div 2) \div 2) % 2))
                                   + (((((n \div 2) \div 2) \div 2) \div 2) % 2)
<1> DEFINE b0 == [value |-> n, reversed |-> 0]
           b1 == BitMoved(b0)
           b2 == BitMoved(b1)
           b3 == BitMoved(b2)
           b4 == BitMoved(b3)
           b5 == BitMoved(b4)
<1>1. b1.value = n \div 2 /\ b1.reversed = n % 2
  BY DEF BitMoved
<1>2. b2.value = b1.value \div 2 /\ b2.reversed = 2 * b1.reversed + (b1.value % 2)
  BY DEF BitMoved
<1>3. b3.value = b2.value \div 2 /\ b3.reversed = 2 * b2.reversed + (b2.value % 2)
  BY DEF BitMoved
<1>4. b4.value = b3.value \div 2 /\ b4.reversed = 2 * b3.reversed + (b3.value % 2)
  BY DEF BitMoved
<1>5. b5.reversed = 2 * b4.reversed + (b4.value % 2)
  BY DEF BitMoved
<1>6. /\ ReverseBits(4, n) = b2.reversed /\ ReverseBits(8, n) = b3.reversed
      /\ ReverseBits(16, n) = b4.reversed /\ ReverseBits(32, n) = b5.reversed
  BY DEF ReverseBits
<1> HIDE DEF b1, b2, b3, b4, b5
<1> QED
  BY <1>1, <1>2, <1>3, <1>4, <1>5, <1>6

LEMMA OrderFacts ==
  ASSUME NEW blocks \in {1, 2, 4, 8, 16}, NEW block \in 0 .. blocks - 1
  PROVE  /\ Order(blocks, block) \in 0 .. blocks - 1
         /\ Order(2 * blocks, 2 * block) = Order(blocks, block)
         /\ Order(2 * blocks, 2 * block + 1) = Order(blocks, block) + blocks
<1>1. /\ 2 * block \in Nat /\ (2 * block) % 2 = 0 /\ (2 * block) \div 2 = block
      /\ 2 * block + 1 \in Nat /\ (2 * block + 1) % 2 = 1 /\ (2 * block + 1) \div 2 = block
      /\ block \in Nat
  OBVIOUS
<1>2. /\ \A n : Order(1, n) = 0 /\ Order(2, n) = n /\ Order(4, n) = ReverseBits(4, n)
                /\ Order(8, n) = ReverseBits(8, n) /\ Order(16, n) = ReverseBits(16, n)
                /\ Order(32, n) = ReverseBits(32, n)
  BY DEF Order
<1>3. CASE blocks = 1
  BY <1>2, <1>3
<1>4. CASE blocks = 2
  <2>1. Order(2, block) \in 0 .. 2 - 1
    BY <1>1, <1>2, <1>4, BitsReversed
  <2>2. Order(4, 2 * block) = Order(2, block)
    BY <1>1, <1>2, <1>4, BitsReversed
  <2>3. Order(4, 2 * block + 1) = Order(2, block) + 2
    BY <1>1, <1>2, <1>4, BitsReversed
  <2> QED
    BY <1>4, <2>1, <2>2, <2>3
<1>5. CASE blocks = 4
  <2>1. Order(4, block) \in 0 .. 4 - 1
    BY <1>1, <1>2, <1>5, BitsReversed
  <2>2. Order(8, 2 * block) = Order(4, block)
    BY <1>1, <1>2, <1>5, BitsReversed
  <2>3. Order(8, 2 * block + 1) = Order(4, block) + 4
    <3>1. Order(8, 2 * block + 1)
            = 2 * (2 * (1) + (block % 2)) + ((block \div 2) % 2)
      BY <1>1, <1>2, BitsReversed
    <3>2. Order(4, block)
            = 2 * ((block % 2)) + ((block \div 2) % 2)
      BY <1>1, <1>2, BitsReversed
    <3>3. /\ (block % 2) \in Int
          /\ ((block \div 2) % 2) \in Int
      BY <1>1
    <3> QED
      BY <3>1, <3>2, <3>3
  <2> QED
    BY <1>5, <2>1, <2>2, <2>3
<1>6. CASE blocks = 8
  <2>1. Order(8, block) \in 0 .. 8 - 1
    BY <1>1, <1>2, <1>6, BitsReversed
  <2>2. Order(16, 2 * block) = Order(8, block)
    BY <1>1, <1>2, <1>6, BitsReversed
  <2>3. Order(16, 2 * block + 1) = Order(8, block) + 8
    <3>1. Order(16, 2 * block + 1)
            = 2 * (2 * (2 * (1) + (block % 2)) + ((block \div 2) % 2)) + (((block \div 2) \div 2) % 2)
      BY <1>1, <1>2, BitsReversed
    <3>2. Order(8, block)
            = 2 * (2 * ((block % 2)) + ((block \div 2) % 2)) + (((block \div 2) \div 2) % 2)
      BY <1>1, <1>2, BitsReversed
    <3>3. /\ (block % 2) \in Int
          /\ ((block \div 2) % 2) \in Int
          /\ (((block \div 2) \div 2) % 2) \in Int
      BY <1>1
    <3> QED
      BY <3>1, <3>2, <3>3
  <2> QED
    BY <1>6, <2>1, <2>2, <2>3
<1>7. CASE blocks = 16
  <2>1. Order(16, block) \in 0 .. 16 - 1
    BY <1>1, <1>2, <1>7, BitsReversed
  <2>2. Order(32, 2 * block) = Order(16, block)
    BY <1>1, <1>2, <1>7, BitsReversed
  <2>3. Order(32, 2 * block + 1) = Order(16, block) + 16
    <3>1. Order(32, 2 * block + 1)
            = 2 * (2 * (2 * (2 * (1) + (block % 2)) + ((block \div 2) % 2)) + (((block \div 2) \div 2) % 2)) + ((((block \div 2) \div 2) \div 2) % 2)
      BY <1>1, <1>2, BitsReversed
    <3>2. Order(16, block)
            = 2 * (2 * (2 * ((block % 2)) + ((block \div 2) % 2)) + (((block \div 2) \div 2) % 2)) + ((((block \div 2) \div 2) \div 2) % 2)
      BY <1>1, <1>2, BitsReversed
    <3>3. /\ (block % 2) \in Int
          /\ ((block \div 2) % 2) \in Int
          /\ (((block \div 2) \div 2) % 2) \in Int
          /\ ((((block \div 2) \div 2) \div 2) % 2) \in Int
      BY <1>1
    <3> QED
      BY <3>1, <3>2, <3>3
  <2> QED
    BY <1>7, <2>1, <2>2, <2>3
<1> QED
  BY <1>3, <1>4, <1>5, <1>6, <1>7

(* Reversing bits is its own inverse.                                      *)
LEMMA ReversedTwice ==
  ASSUME NEW count \in Sizes, NEW n \in 0 .. count - 1
  PROVE  /\ ReverseBits(count, n) \in 0 .. count - 1
         /\ ReverseBits(count, ReverseBits(count, n)) = n
<1>1. n \in Nat
  OBVIOUS
<1>2. CASE count = 4
  BY <1>1, <1>2, BitsReversed
<1>3. CASE count = 8
  BY <1>1, <1>3, BitsReversed
<1>4. CASE count = 16
  BY <1>1, <1>4, BitsReversed
<1>5. CASE count = 32
  BY <1>1, <1>5, BitsReversed
<1> QED
  BY <1>2, <1>3, <1>4, <1>5 DEF Sizes

(* Every block of `length` values is the transform of its part of x.       *)
Transformed(x, y, blocks, length) ==
  /\ DOMAIN y = 0 .. blocks * length - 1
  /\ \A block \in 0 .. blocks - 1, k \in 0 .. length - 1 :
       y[block * length + k] = Part(x, Order(blocks, block), blocks, k, length)

Divided(count, blocks, length) ==
  /\ count \in Sizes /\ length \in Lengths2 \cup {1}
  /\ blocks \in {1, 2, 4, 8, 16, 32} /\ blocks * length = count

(* Where the value with place k of a block is.                             *)
LEMMA Places ==
  ASSUME NEW length \in Lengths2, NEW block \in Nat, NEW k \in 0 .. length - 1
  PROVE  LET half == length \div 2
             n == block * length + k
             even == n - (n % length) + (n % half)
         IN  /\ n % length = k /\ n % half = k % half /\ k % half \in 0 .. half - 1
             /\ even = (2 * block) * half + (k % half)
             /\ even + half = (2 * block + 1) * half + (k % half)
             /\ n = even <=> k < half
<1>1. CASE length = 2
  BY <1>1
<1>2. CASE length = 4
  BY <1>2
<1>3. CASE length = 8
  BY <1>3
<1>4. CASE length = 16
  BY <1>4
<1>5. CASE length = 32
  BY <1>5
<1> QED
  BY <1>1, <1>2, <1>3, <1>4, <1>5 DEF Lengths2

LEMMA InsideOfBlocks ==
  ASSUME NEW blocks \in Nat, NEW length \in Nat \ {0}, NEW block \in 0 .. blocks - 1,
         NEW k \in 0 .. length - 1
  PROVE  block * length + k \in 0 .. blocks * length - 1
<1>1. (blocks - 1 - block) * length \in Nat
  BY SMTT(30)
<1>2. blocks * length = (blocks - 1 - block) * length + block * length + length
  BY SMTT(30)
<1>3. block * length \in Nat
  OBVIOUS
<1> QED
  BY <1>1, <1>2, <1>3

(* The values a block is made of are there.                                *)
LEMMA PartsAreThere ==
  ASSUME NEW count, NEW blocks, NEW length, Divided(count, blocks, length),
         NEW x \in [0 .. count - 1 -> Complex], NEW first \in 0 .. blocks - 1
  PROVE  AreComplex(x, first, blocks, length)
<1> SUFFICES ASSUME NEW j \in 0 .. length - 1
             PROVE  first + j * blocks \in 0 .. count - 1
  BY DEF AreComplex
<1>1. length \in Nat /\ blocks \in Nat \ {0} /\ length * blocks = count
  BY DEF Divided, Lengths2
<1>2. j * blocks + first \in 0 .. length * blocks - 1
  BY <1>1, InsideOfBlocks
<1>3. j * blocks \in Int
  BY <1>1
<1> QED
  BY <1>1, <1>2, <1>3

LEMMA StageTransforms ==
  ASSUME NEW count, NEW blocks, NEW length \in Lengths2, Divided(count, blocks, length),
         NEW x \in [0 .. count - 1 -> Complex],
         NEW y, Transformed(x, y, 2 * blocks, length \div 2)
  PROVE  Transformed(x, Stage(y, length), blocks, length)
<1> DEFINE half == length \div 2
<1>1. /\ half \in {1, 2, 4, 8, 16} /\ length = 2 * half /\ length \in Nat \ {0}
      /\ blocks \in {1, 2, 4, 8, 16} /\ (2 * blocks) * half = blocks * length
      /\ 32 \div length \in Nat
  BY HalvesOfLengths DEF Divided, Lengths2, Sizes
<1>2. DOMAIN Stage(y, length) = 0 .. blocks * length - 1
  BY <1>1 DEF Stage, Transformed
<1>3. ASSUME NEW block \in 0 .. blocks - 1, NEW k \in 0 .. length - 1
      PROVE  Stage(y, length)[block * length + k]
               = Part(x, Order(blocks, block), blocks, k, length)
  <2> DEFINE n == block * length + k
             place == k % half
             even == (2 * block) * half + place
             odd == (2 * block + 1) * half + place
             first == Order(blocks, block)
             EvenPart == Part(x, first, 2 * blocks, place, half)
             OddPart == Part(x, first + blocks, 2 * blocks, place, half)
             angle == place * (32 \div length)
  <2> SUFFICES Stage(y, length)[n] = Part(x, first, blocks, k, length)
    OBVIOUS
  <2>1. /\ n % length = k /\ n % half = place /\ place \in 0 .. half - 1
        /\ n - k + place = even /\ even + half = odd /\ (n = even <=> k < half)
    <3>1. /\ n % length = k /\ n % half = place /\ place \in 0 .. half - 1
          /\ n - (n % length) + (n % half) = even
          /\ (n - (n % length) + (n % half)) + half = odd
          /\ n = n - (n % length) + (n % half) <=> k < half
      BY Places
    <3> HIDE DEF n, place, even, odd, half
    <3> QED
      BY <3>1
  <2>2. n \in 0 .. blocks * length - 1
    BY <1>1, InsideOfBlocks
  <2>3. Stage(y, length)[n]
          = LET product == Rotated(y[odd], angle)
            IN  IF k < half THEN Sum(y[even], product) ELSE Difference(y[even], product)
    <3>1. Stage(y, length)[n]
            = LET product == Rotated(y[n - (n % length) + (n % half) + half], (n % half) * (32 \div length))
              IN  IF n = n - (n % length) + (n % half)
                  THEN Sum(y[n - (n % length) + (n % half)], product)
                  ELSE Difference(y[n - (n % length) + (n % half)], product)
      BY <1>2, <2>2 DEF Stage
    <3> HIDE DEF n, place, even, odd, half
    <3> QED
      BY <2>1, <3>1
  <2>4. /\ first \in 0 .. blocks - 1
        /\ Order(2 * blocks, 2 * block) = first
        /\ Order(2 * blocks, 2 * block + 1) = first + blocks
    BY <1>1, OrderFacts
  <2>5. y[even] = EvenPart
    <3>1. 2 * block \in 0 .. 2 * blocks - 1
      BY <1>1
    <3> QED
      BY <2>1, <2>4, <3>1 DEF Transformed
  <2>6. y[odd] = OddPart
    <3>1. 2 * block + 1 \in 0 .. 2 * blocks - 1
      BY <1>1
    <3> QED
      BY <2>1, <2>4, <3>1 DEF Transformed
  <2>7. Part(x, first, blocks, k, length)
          = EvenPart \cup Rotated(OddPart, angle + (IF k < half THEN 0 ELSE 16))
    <3>1. AreComplex(x, first, blocks, length)
      BY <2>4, PartsAreThere
    <3>2. first \in Nat /\ blocks \in Nat
      BY <1>1, <2>4
    <3> HIDE DEF first, half, place
    <3>3. half = length \div 2 /\ place = k % half
      BY DEF half, place
    <3> QED
      BY <3>1, <3>2, <3>3, PartInHalves
  <2>8. OddPart \in Complex
    <3>1. Divided(count, 2 * blocks, half)
      BY <1>1 DEF Divided, Lengths2
    <3>2. first + blocks \in 0 .. 2 * blocks - 1
      BY <1>1, <2>4
    <3>3. AreComplex(x, first + blocks, 2 * blocks, half)
      <4> HIDE DEF first, half
      <4> QED
        BY <3>1, <3>2, PartsAreThere
    <3>4. half \in Lengths2 \cup {1} /\ place \in Nat /\ first + blocks \in Nat /\ 2 * blocks \in Nat
      BY <1>1, <2>1, <3>2 DEF Lengths2
    <3> HIDE DEF first, half, place
    <3> QED
      BY <3>3, <3>4, PartType
  <2>9. angle \in Int
    BY <1>1, <2>1
  <2> HIDE DEF n, place, even, odd, first, EvenPart, OddPart, angle, half
  <2>10. CASE k < half
    <3>1. angle + (IF k < half THEN 0 ELSE 16) = angle
      BY <2>9, <2>10
    <3>2. Part(x, first, blocks, k, length) = EvenPart \cup Rotated(OddPart, angle)
      BY <2>7, <3>1
    <3>3. Stage(y, length)[n] = EvenPart \cup Rotated(OddPart, angle)
      BY <2>3, <2>5, <2>6, <2>10 DEF Sum
    <3> QED
      BY <3>2, <3>3
  <2>11. CASE ~(k < half)
    <3>1. Rotated(Rotated(OddPart, angle), 16) = Rotated(OddPart, angle + 16)
      BY <2>8, <2>9, RotatedTwice
    <3>2. Part(x, first, blocks, k, length) = EvenPart \cup Rotated(OddPart, angle + 16)
      BY <2>7, <2>11
    <3>3. Stage(y, length)[n] = EvenPart \cup Rotated(Rotated(OddPart, angle), 16)
      BY <2>3, <2>5, <2>6, <2>11 DEF Sum, Difference
    <3> QED
      BY <3>1, <3>2, <3>3
  <2> QED
    BY <2>10, <2>11
<1> QED
  BY <1>2, <1>3 DEF Transformed

(* Exchanging every pair once puts every value where its bits say.         *)
LEMMA ReorderedFacts ==
  ASSUME NEW count \in Sizes, NEW x \in [0 .. count - 1 -> Complex]
  PROVE  Reordered(x, count) = [m \in 0 .. count - 1 |-> x[ReverseBits(count, m)]]
<1> DEFINE Rev(m) == ReverseBits(count, m)
           Before(n) == [m \in 0 .. count - 1 |-> IF m < n \/ Rev(m) < n THEN x[Rev(m)] ELSE x[m]]
           order == [n \in 0 .. count |-> Before(n)]
           Is(f) == f = [n \in 0 .. count |->
                           IF n = 0 THEN x ELSE Exchanged(f[n - 1], n - 1, Rev(n - 1))]
           that == CHOOSE f : Is(f)
<1>1. count \in Nat \ {0}
  BY DEF Sizes
<1>2. \A m \in 0 .. count - 1 : Rev(m) \in 0 .. count - 1 /\ Rev(Rev(m)) = m
  BY ReversedTwice
<1> HIDE DEF Rev
<1>3. order[0] = x
  <2>1. Before(0) = [m \in 0 .. count - 1 |-> x[m]]
    <3>1. \A m \in 0 .. count - 1 : ~(m < 0) /\ ~(Rev(m) < 0)
      BY <1>1, <1>2
    <3> QED
      BY <3>1
  <2> HIDE DEF Before
  <2> QED
    BY <1>1, <2>1
<1>4. ASSUME NEW n \in 1 .. count
      PROVE  order[n] = Exchanged(order[n - 1], n - 1, Rev(n - 1))
  <2> DEFINE old == Before(n - 1)
             i == n - 1
             r == Rev(i)
  <2>1. order[n] = Before(n) /\ order[n - 1] = old
    <3> HIDE DEF Before
    <3> QED
      BY <1>1
  <2>2. /\ i \in 0 .. count - 1 /\ r \in 0 .. count - 1 /\ Rev(r) = i /\ Rev(i) = r
        /\ \A m \in 0 .. count - 1 : (m < n <=> m < i \/ m = i) /\ (Rev(m) = i <=> m = r)
        /\ \A m \in 0 .. count - 1 : (Rev(m) < n <=> Rev(m) < i \/ m = r)
    <3>1. i \in 0 .. count - 1 /\ i \in Nat /\ n = i + 1
      BY <1>1
    <3>2. r \in 0 .. count - 1 /\ Rev(r) = i
      BY <3>1, <1>2
    <3>3. ASSUME NEW m \in 0 .. count - 1
          PROVE  /\ m < n <=> m < i \/ m = i
                 /\ Rev(m) = i <=> m = r
                 /\ Rev(m) < n <=> Rev(m) < i \/ m = r
      <4>1. Rev(m) = i <=> m = r
        BY <3>1, <3>2, <1>2
      <4>2. Rev(m) \in Nat /\ m \in Nat
        BY <1>2
      <4> HIDE DEF r, i
      <4> QED
        BY <3>1, <4>1, <4>2
    <3> QED
      BY <3>1, <3>2, <3>3
  <2>3. /\ old = [m \in 0 .. count - 1 |-> IF m < i \/ Rev(m) < i THEN x[Rev(m)] ELSE x[m]]
        /\ Before(n) = [m \in 0 .. count - 1 |-> IF m < n \/ Rev(m) < n THEN x[Rev(m)] ELSE x[m]]
    OBVIOUS
  <2>4. i = r \/ i < r \/ r < i
    BY <2>2
  <2>5. Exchanges(i, r) <=> i < r
    BY DEF Exchanges
  <2> HIDE DEF Before, old, i, r
  <2>6. CASE i = r
    <3>1. Before(n) = old
      BY <2>2, <2>3, <2>6
    <3>2. ~(i < r)
      BY <2>2, <2>6
    <3>3. Exchanged(old, i, r) = old
      BY <2>5, <3>2 DEF Exchanged
    <3> QED
      BY <2>1, <3>1, <3>3 DEF i, r
  <2>7. CASE r < i
    <3>1. ASSUME NEW m \in 0 .. count - 1
          PROVE  Before(n)[m] = old[m]
      <4>1. CASE m = i
        BY <4>1, <2>2, <2>3, <2>7
      <4>2. CASE m = r
        BY <4>2, <2>2, <2>3, <2>7
      <4>3. CASE m # i /\ m # r
        BY <4>3, <2>2, <2>3
      <4> QED
        BY <4>1, <4>2, <4>3
    <3>2. Before(n) = old
      BY <2>3, <3>1
    <3>3. Exchanged(old, i, r) = old
      <4>1. ~(i < r)
        BY <2>2, <2>7
      <4> QED
        BY <2>5, <4>1 DEF Exchanged
    <3> QED
      BY <2>1, <3>2, <3>3 DEF i, r
  <2>8. CASE i < r
    <3> DEFINE new == [old EXCEPT ![i] = old[r], ![r] = old[i]]
    <3>1. Exchanged(old, i, r) = new
      BY <2>5, <2>8 DEF Exchanged
    <3>2. DOMAIN old = 0 .. count - 1 /\ i # r
      BY <2>2, <2>3, <2>8
    <3>3. new = [m \in 0 .. count - 1 |->
                   IF m = r THEN old[i] ELSE IF m = i THEN old[r] ELSE old[m]]
      BY <2>2, <3>2
    <3>4. old[i] = x[i] /\ old[r] = x[r]
      BY <2>2, <2>3, <2>8
    <3> HIDE DEF new
    <3>5. ASSUME NEW m \in 0 .. count - 1
          PROVE  Before(n)[m] = new[m]
      <4>1. CASE m = i
        <5>1. Before(n)[m] = x[r]
          BY <4>1, <2>2, <2>3 DEF r
        <5>2. new[m] = x[r]
          BY <4>1, <2>2, <3>2, <3>3, <3>4
        <5> QED
          BY <5>1, <5>2
      <4>2. CASE m = r
        <5>1. Before(n)[m] = x[i]
          BY <4>2, <2>2, <2>3
        <5> QED
          BY <4>2, <5>1, <2>2, <3>3, <3>4
      <4>3. CASE m # i /\ m # r
        BY <4>3, <2>2, <2>3, <3>3
      <4> QED
        BY <4>1, <4>2, <4>3
    <3>6. Before(n) = new
      BY <2>3, <3>3, <3>5
    <3> QED
      BY <2>1, <3>1, <3>6 DEF i, r
  <2> QED
    BY <2>4, <2>6, <2>7, <2>8
<1>5. Is(order)
  <2> DEFINE other == [n \in 0 .. count |->
                         IF n = 0 THEN x ELSE Exchanged(order[n - 1], n - 1, Rev(n - 1))]
  <2>1. ASSUME NEW n \in 0 .. count
        PROVE  order[n] = other[n]
    <3>1. n = 0 \/ n \in 1 .. count
      BY <1>1
    <3> HIDE DEF order
    <3> QED
      BY <1>3, <1>4, <3>1
  <2>2. order = [n \in 0 .. count |-> order[n]]
    <3> HIDE DEF Before
    <3> QED
      OBVIOUS
  <2> HIDE DEF order
  <2>3. other = [n \in 0 .. count |-> other[n]]
    OBVIOUS
  <2> HIDE DEF other
  <2>4. order = other
    BY <2>1, <2>2, <2>3
  <2> QED
    BY <2>4 DEF other
<1> HIDE DEF order
<1>6. Is(that)
  BY <1>5
<1>7. Reordered(x, count) = that[count]
  BY DEF Reordered, Rev
<1> HIDE DEF that
<1>8. that[0] = x /\ \A n \in 1 .. count : that[n] = Exchanged(that[n - 1], n - 1, Rev(n - 1))
  BY <1>1, <1>6
<1> HIDE DEF Is
<1>9. GoOnAlike(count, that, order)
  BY <1>3, <1>4, <1>8 DEF GoOnAlike
<1>10. that[count] = order[count]
  BY <1>1, <1>9, SameRecursion
<1>11. order[count] = Before(count)
  <2> HIDE DEF Before
  <2> QED
    BY <1>1 DEF order
<1>12. Before(count) = [m \in 0 .. count - 1 |-> x[Rev(m)]]
  BY <1>1
<1> HIDE DEF Before
<1> QED
  BY <1>7, <1>10, <1>11, <1>12 DEF Rev

LEMMA ReorderedTransforms ==
  ASSUME NEW count \in Sizes, NEW x \in [0 .. count - 1 -> Complex]
  PROVE  Transformed(x, Reordered(x, count), count, 1)
<1> DEFINE y == Reordered(x, count)
<1>1. y = [m \in 0 .. count - 1 |-> x[ReverseBits(count, m)]]
  BY ReorderedFacts
<1>2. count \in Nat \ {0} /\ count * 1 = count
      /\ \A m : Order(count, m) = ReverseBits(count, m)
  BY DEF Sizes, Order
<1> HIDE DEF y
<1>3. ASSUME NEW block \in 0 .. count - 1, NEW k \in 0 .. 1 - 1
      PROVE  y[block * 1 + k] = Part(x, Order(count, block), count, k, 1)
  <2>1. k = 0 /\ block * 1 + k = block
    OBVIOUS
  <2>2. ReverseBits(count, block) \in 0 .. count - 1
    BY ReversedTwice
  <2>3. Part(x, ReverseBits(count, block), count, 0, 1) = x[ReverseBits(count, block)]
    <3> DEFINE first == ReverseBits(count, block)
    <3>1. first \in Nat /\ x[first] \in Complex
      BY <2>2
    <3> HIDE DEF first
    <3>2. Part(x, first, count, 0, 1) = x[first]
      BY <1>2, <3>1, PartOfOne
    <3> QED
      BY <3>2 DEF first
  <2> QED
    BY <1>1, <1>2, <2>1, <2>3
<1>4. DOMAIN y = 0 .. count * 1 - 1
  BY <1>1, <1>2
<1>5. Transformed(x, y, count, 1)
  BY <1>3, <1>4 DEF Transformed
<1> QED
  BY <1>5 DEF y

LEMMA TransformedType ==
  ASSUME NEW count, NEW blocks, NEW length, Divided(count, blocks, length),
         NEW x \in [0 .. count - 1 -> Complex], NEW y, Transformed(x, y, blocks, length)
  PROVE  \A n \in 0 .. count - 1 : y[n] \in Complex
<1> SUFFICES ASSUME NEW n \in 0 .. count - 1
             PROVE  y[n] \in Complex
  OBVIOUS
<1> DEFINE block == n \div length
           k == n % length
<1>1. /\ blocks \in Nat \ {0} /\ length \in Nat \ {0} /\ blocks * length = count
      /\ length \in Lengths2 \cup {1}
  BY DEF Divided, Lengths2
<1>2. block \in Nat /\ k \in 0 .. length - 1 /\ n = block * length + k
  BY <1>1
<1>3. block < blocks
  <2>1. ASSUME block >= blocks
        PROVE  FALSE
    <3>1. (block - blocks) * length \in Nat
      BY <1>1, <1>2, <2>1
    <3>2. block * length = (block - blocks) * length + blocks * length
      BY <1>1, <1>2
    <3> HIDE DEF block, k
    <3> QED
      BY <1>1, <1>2, <3>1, <3>2
  <2> QED
    BY <1>1, <1>2, <2>1
<1> HIDE DEF block, k
<1>8. block \in 0 .. blocks - 1
  BY <1>1, <1>2, <1>3
<1>4. y[n] = Part(x, Order(blocks, block), blocks, k, length)
  BY <1>1, <1>2, <1>3 DEF Transformed
<1>5. Order(blocks, block) \in 0 .. blocks - 1
  <2>1. CASE blocks = 32
    <3>1. blocks \in Sizes /\ Order(blocks, block) = ReverseBits(blocks, block)
      BY <2>1 DEF Sizes, Order
    <3> QED
      BY <1>8, <3>1, ReversedTwice
  <2>2. CASE blocks # 32
    <3>1. blocks \in {1, 2, 4, 8, 16}
      BY <2>2 DEF Divided
    <3> QED
      BY <1>8, <3>1, OrderFacts
  <2> QED
    BY <2>1, <2>2
<1>6. AreComplex(x, Order(blocks, block), blocks, length)
  BY <1>5, PartsAreThere
<1>7. Order(blocks, block) \in Nat /\ k \in Nat /\ blocks \in Nat
  BY <1>1, <1>2, <1>5
<1>9. length \in Lengths2 \cup {1}
  BY <1>1
<1>10. Part(x, Order(blocks, block), blocks, k, length) \in Complex
  BY <1>6, <1>7, <1>9, PartType
<1> QED
  BY <1>4, <1>10

-----------------------------------------------------------------------------
(* Stages inside of a register are the same stages.                        *)
LEMMA RegisterStageOf2 ==
  ASSUME NEW count \in Sizes, NEW y, DOMAIN y = 0 .. count - 1,
         \A n \in 0 .. count - 1 : y[n] \in Complex
  PROVE  SignedNeighbours(y) = Stage(y, 2)
<1>1. ASSUME NEW n \in 0 .. count - 1
      PROVE  SignedNeighbours(y)[n] = Stage(y, 2)[n]
  <2>1. n \in DOMAIN y
    OBVIOUS
  <2>2. CASE n % 2 = 0
    <3>1. PermutedBlocks(y, <<1, 0>>)[n] = y[n + 1]
      BY <2>1, <2>2 DEF PermutedBlocks
    <3>2. SignedNeighbours(y)[n] = y[n + 1] \cup y[n]
      BY <2>1, <2>2, <3>1 DEF SignedNeighbours, Signed, Sum
    <3>3. n + 1 \in 0 .. count - 1
      BY <2>2 DEF Sizes
    <3>4. Stage(y, 2)[n] = y[n] \cup Rotated(y[n + 1], 0)
      BY <2>1, <2>2 DEF Stage, Sum
    <3>5. Rotated(y[n + 1], 0) = y[n + 1]
      BY <3>3, NotRotated
    <3> QED
      BY <3>2, <3>4, <3>5
  <2>3. CASE n % 2 = 1
    <3>1. PermutedBlocks(y, <<1, 0>>)[n] = y[n - 1]
      BY <2>1, <2>3 DEF PermutedBlocks
    <3>2. SignedNeighbours(y)[n] = y[n - 1] \cup Rotated(y[n], 16)
      BY <2>1, <2>3, <3>1 DEF SignedNeighbours, Signed, Sum
    <3>4. Stage(y, 2)[n] = y[n - 1] \cup Rotated(Rotated(y[n], 0), 16)
      BY <2>1, <2>3 DEF Stage, Sum, Difference
    <3>5. Rotated(y[n], 0) = y[n]
      BY NotRotated
    <3> QED
      BY <3>2, <3>4, <3>5
  <2> QED
    BY <2>2, <2>3
<1>2. /\ DOMAIN SignedNeighbours(y) = 0 .. count - 1 /\ DOMAIN Stage(y, 2) = 0 .. count - 1
      /\ SignedNeighbours(y) = [n \in 0 .. count - 1 |-> SignedNeighbours(y)[n]]
      /\ Stage(y, 2) = [n \in 0 .. count - 1 |-> Stage(y, 2)[n]]
  BY DEF SignedNeighbours, Stage
<1> QED
  BY <1>1, <1>2

LEMMA RegisterStageOf4 ==
  ASSUME NEW count \in Sizes, NEW y, DOMAIN y = 0 .. count - 1
  PROVE  RegisterStage4(y) = Stage(y, 4)
<1> DEFINE evens == PermutedBlocks(y, <<0, 1, 0, 1>>)
           odds == PermutedBlocks(y, <<2, 3, 2, 3>>)
<1>1. ASSUME NEW n \in 0 .. count - 1
      PROVE  RegisterStage4(y)[n] = Stage(y, 4)[n]
  <2>1. n \in DOMAIN y /\ n \in Nat /\ n % 4 \in 0 .. 3
    BY DEF Sizes
  <2>2. /\ Len(<<0, 1, 0, 1>>) = 4 /\ Len(<<2, 3, 2, 3>>) = 4
        /\ Len(<<0, 8, 0, 8>>) = 4 /\ Len(<<1, 1, -1, -1>>) = 4
    OBVIOUS
  <2>3. /\ evens[n] = y[n - (n % 4) + <<0, 1, 0, 1>>[(n % 4) + 1]]
        /\ odds[n] = y[n - (n % 4) + <<2, 3, 2, 3>>[(n % 4) + 1]]
    BY <2>1, <2>2 DEF PermutedBlocks
  <2> HIDE DEF evens, odds
  <2>4. RegisterStage4(y)[n]
          = Sum(evens[n], Signed(Rotated(odds[n], <<0, 8, 0, 8>>[(n % 4) + 1]),
                                 <<1, 1, -1, -1>>[(n % 4) + 1]))
    BY <2>1, <2>2 DEF RegisterStage4, InRegister, evens, odds
  <2>5. Stage(y, 4)[n]
          = LET product == Rotated(y[n - (n % 4) + (n % 2) + 2], (n % 2) * 8)
            IN  IF n = n - (n % 4) + (n % 2)
                THEN Sum(y[n - (n % 4) + (n % 2)], product)
                ELSE Difference(y[n - (n % 4) + (n % 2)], product)
    BY <2>1 DEF Stage
  <2>6. CASE n % 4 = 0
    <3>0. n % 2 = 0
      BY <2>1, <2>6
    <3>1. /\ <<0, 1, 0, 1>>[0 + 1] = 0 /\ <<2, 3, 2, 3>>[0 + 1] = 2
          /\ <<0, 8, 0, 8>>[0 + 1] = 0 /\ <<1, 1, -1, -1>>[0 + 1] = 1
          /\ n - (n % 4) + (n % 2) = n - 0 + 0 /\ n - (n % 4) + (n % 2) + 2 = n - 0 + 2
          /\ (n % 2) * 8 = 0 /\ n = n - 0 + 0
      BY <2>1, <2>6, <3>0
    <3>2. RegisterStage4(y)[n] = Sum(y[n - 0 + 0], Signed(Rotated(y[n - 0 + 2], 0), 1))
      BY <2>3, <2>4, <2>6, <3>1
    <3>3. Stage(y, 4)[n] = Sum(y[n - 0 + 0], Rotated(y[n - 0 + 2], 0))
      BY <2>1, <2>5, <2>6, <3>1
    <3> QED
      BY <3>2, <3>3 DEF Signed, Difference
  <2>7. CASE n % 4 = 1
    <3>0. n % 2 = 1
      BY <2>1, <2>7
    <3>1. /\ <<0, 1, 0, 1>>[1 + 1] = 1 /\ <<2, 3, 2, 3>>[1 + 1] = 3
          /\ <<0, 8, 0, 8>>[1 + 1] = 8 /\ <<1, 1, -1, -1>>[1 + 1] = 1
          /\ n - (n % 4) + (n % 2) = n - 1 + 1 /\ n - (n % 4) + (n % 2) + 2 = n - 1 + 3
          /\ (n % 2) * 8 = 8 /\ n = n - 1 + 1
      BY <2>1, <2>7, <3>0
    <3>2. RegisterStage4(y)[n] = Sum(y[n - 1 + 1], Signed(Rotated(y[n - 1 + 3], 8), 1))
      BY <2>3, <2>4, <2>7, <3>1
    <3>3. Stage(y, 4)[n] = Sum(y[n - 1 + 1], Rotated(y[n - 1 + 3], 8))
      BY <2>1, <2>5, <2>7, <3>1
    <3> QED
      BY <3>2, <3>3 DEF Signed, Difference
  <2>8. CASE n % 4 = 2
    <3>0. n % 2 = 0
      BY <2>1, <2>8
    <3>1. /\ <<0, 1, 0, 1>>[2 + 1] = 0 /\ <<2, 3, 2, 3>>[2 + 1] = 2
          /\ <<0, 8, 0, 8>>[2 + 1] = 0 /\ <<1, 1, -1, -1>>[2 + 1] = -1
          /\ n - (n % 4) + (n % 2) = n - 2 + 0 /\ n - (n % 4) + (n % 2) + 2 = n - 2 + 2
          /\ (n % 2) * 8 = 0 /\ n # n - 2 + 0
      BY <2>1, <2>8, <3>0
    <3>2. RegisterStage4(y)[n] = Sum(y[n - 2 + 0], Signed(Rotated(y[n - 2 + 2], 0), -1))
      BY <2>3, <2>4, <2>8, <3>1
    <3>3. Stage(y, 4)[n] = Difference(y[n - 2 + 0], Rotated(y[n - 2 + 2], 0))
      BY <2>1, <2>5, <2>8, <3>1
    <3> QED
      BY <3>2, <3>3 DEF Signed, Difference
  <2>9. CASE n % 4 = 3
    <3>0. n % 2 = 1
      BY <2>1, <2>9
    <3>1. /\ <<0, 1, 0, 1>>[3 + 1] = 1 /\ <<2, 3, 2, 3>>[3 + 1] = 3
          /\ <<0, 8, 0, 8>>[3 + 1] = 8 /\ <<1, 1, -1, -1>>[3 + 1] = -1
          /\ n - (n % 4) + (n % 2) = n - 3 + 1 /\ n - (n % 4) + (n % 2) + 2 = n - 3 + 3
          /\ (n % 2) * 8 = 8 /\ n # n - 3 + 1
      BY <2>1, <2>9, <3>0
    <3>2. RegisterStage4(y)[n] = Sum(y[n - 3 + 1], Signed(Rotated(y[n - 3 + 3], 8), -1))
      BY <2>3, <2>4, <2>9, <3>1
    <3>3. Stage(y, 4)[n] = Difference(y[n - 3 + 1], Rotated(y[n - 3 + 3], 8))
      BY <2>1, <2>5, <2>9, <3>1
    <3> QED
      BY <3>2, <3>3 DEF Signed, Difference
  <2> QED
    BY <2>1, <2>6, <2>7, <2>8, <2>9
<1>2. /\ RegisterStage4(y) = [n \in 0 .. count - 1 |-> RegisterStage4(y)[n]]
      /\ Stage(y, 4) = [n \in 0 .. count - 1 |-> Stage(y, 4)[n]]
  BY DEF RegisterStage4, InRegister, Stage
<1> QED
  BY <1>1, <1>2

LEMMA RegisterStageOf8 ==
  ASSUME NEW count \in {8, 16, 32}, NEW y, DOMAIN y = 0 .. count - 1
  PROVE  RegisterStage8(y) = Stage(y, 8)
<1> DEFINE even == <<0, 1, 2, 3, 0, 1, 2, 3>>
           odd == <<4, 5, 6, 7, 4, 5, 6, 7>>
           rotation == <<0, 4, 8, 12, 0, 4, 8, 12>>
           sign == <<1, 1, 1, 1, -1, -1, -1, -1>>
           evens == PermutedBlocks(y, even)
           odds == PermutedBlocks(y, odd)
<1>1. Len(even) = 8 /\ Len(odd) = 8 /\ Len(rotation) = 8 /\ Len(sign) = 8
  OBVIOUS
<1>2. /\ even[1] = 0 /\ even[2] = 1 /\ even[3] = 2 /\ even[4] = 3
      /\ even[5] = 0 /\ even[6] = 1 /\ even[7] = 2 /\ even[8] = 3
      /\ odd[1] = 4 /\ odd[2] = 5 /\ odd[3] = 6 /\ odd[4] = 7
      /\ odd[5] = 4 /\ odd[6] = 5 /\ odd[7] = 6 /\ odd[8] = 7
  OBVIOUS
<1>3. /\ rotation[1] = 0 /\ rotation[2] = 4 /\ rotation[3] = 8 /\ rotation[4] = 12
      /\ rotation[5] = 0 /\ rotation[6] = 4 /\ rotation[7] = 8 /\ rotation[8] = 12
      /\ sign[1] = 1 /\ sign[2] = 1 /\ sign[3] = 1 /\ sign[4] = 1
      /\ sign[5] = -1 /\ sign[6] = -1 /\ sign[7] = -1 /\ sign[8] = -1
  OBVIOUS
<1>4. RegisterStage8(y) = InRegister(y, even, odd, rotation, sign)
  BY DEF RegisterStage8
<1> HIDE DEF even, odd, rotation, sign
<1>5. ASSUME NEW n \in 0 .. count - 1
      PROVE  RegisterStage8(y)[n] = Stage(y, 8)[n]
  <2>1. n \in DOMAIN y /\ n \in Nat /\ n % 8 \in 0 .. 7
    OBVIOUS
  <2>2. evens[n] = y[n - (n % 8) + even[(n % 8) + 1]] /\ odds[n] = y[n - (n % 8) + odd[(n % 8) + 1]]
    BY <1>1, <2>1 DEF PermutedBlocks
  <2> HIDE DEF evens, odds
  <2>3. RegisterStage8(y)[n]
          = Sum(evens[n], Signed(Rotated(odds[n], rotation[(n % 8) + 1]), sign[(n % 8) + 1]))
    BY <1>1, <1>4, <2>1 DEF InRegister, evens, odds
  <2>4. Stage(y, 8)[n]
          = LET product == Rotated(y[n - (n % 8) + (n % 4) + 4], (n % 4) * 4)
            IN  IF n = n - (n % 8) + (n % 4)
                THEN Sum(y[n - (n % 8) + (n % 4)], product)
                ELSE Difference(y[n - (n % 8) + (n % 4)], product)
    BY <2>1 DEF Stage
  <2>5. CASE n % 8 = 0
    <3>0. n % 4 = 0
      BY <2>1, <2>5
    <3>1. /\ n - (n % 8) + (n % 4) = n - 0 + 0 /\ n - (n % 8) + (n % 4) + 4 = n - 0 + 4
          /\ (n % 4) * 4 = 0 /\ n = n - 0 + 0 /\ (n % 8) + 1 = 1
      BY <2>1, <2>5, <3>0
    <3>4. even[1] = 0 /\ odd[1] = 4 /\ rotation[1] = 0 /\ sign[1] = 1 /\ (n % 8) + 1 = 1
      BY <1>2, <1>3, <3>1
    <3>2. RegisterStage8(y)[n] = Sum(y[n - 0 + 0], Signed(Rotated(y[n - 0 + 4], 0), 1))
      BY <2>2, <2>3, <2>5, <3>4
    <3>3. Stage(y, 8)[n] = Sum(y[n - 0 + 0], Rotated(y[n - 0 + 4], 0))
      BY <2>4, <3>1
    <3> QED
      BY <3>2, <3>3 DEF Signed, Difference
  <2>6. CASE n % 8 = 1
    <3>0. n % 4 = 1
      BY <2>1, <2>6
    <3>1. /\ n - (n % 8) + (n % 4) = n - 1 + 1 /\ n - (n % 8) + (n % 4) + 4 = n - 1 + 5
          /\ (n % 4) * 4 = 4 /\ n = n - 1 + 1 /\ (n % 8) + 1 = 2
      BY <2>1, <2>6, <3>0
    <3>4. even[2] = 1 /\ odd[2] = 5 /\ rotation[2] = 4 /\ sign[2] = 1 /\ (n % 8) + 1 = 2
      BY <1>2, <1>3, <3>1
    <3>2. RegisterStage8(y)[n] = Sum(y[n - 1 + 1], Signed(Rotated(y[n - 1 + 5], 4), 1))
      BY <2>2, <2>3, <2>6, <3>4
    <3>3. Stage(y, 8)[n] = Sum(y[n - 1 + 1], Rotated(y[n - 1 + 5], 4))
      BY <2>4, <3>1
    <3> QED
      BY <3>2, <3>3 DEF Signed, Difference
  <2>7. CASE n % 8 = 2
    <3>0. n % 4 = 2
      BY <2>1, <2>7
    <3>1. /\ n - (n % 8) + (n % 4) = n - 2 + 2 /\ n - (n % 8) + (n % 4) + 4 = n - 2 + 6
          /\ (n % 4) * 4 = 8 /\ n = n - 2 + 2 /\ (n % 8) + 1 = 3
      BY <2>1, <2>7, <3>0
    <3>4. even[3] = 2 /\ odd[3] = 6 /\ rotation[3] = 8 /\ sign[3] = 1 /\ (n % 8) + 1 = 3
      BY <1>2, <1>3, <3>1
    <3>2. RegisterStage8(y)[n] = Sum(y[n - 2 + 2], Signed(Rotated(y[n - 2 + 6], 8), 1))
      BY <2>2, <2>3, <2>7, <3>4
    <3>3. Stage(y, 8)[n] = Sum(y[n - 2 + 2], Rotated(y[n - 2 + 6], 8))
      BY <2>4, <3>1
    <3> QED
      BY <3>2, <3>3 DEF Signed, Difference
  <2>8. CASE n % 8 = 3
    <3>0. n % 4 = 3
      BY <2>1, <2>8
    <3>1. /\ n - (n % 8) + (n % 4) = n - 3 + 3 /\ n - (n % 8) + (n % 4) + 4 = n - 3 + 7
          /\ (n % 4) * 4 = 12 /\ n = n - 3 + 3 /\ (n % 8) + 1 = 4
      BY <2>1, <2>8, <3>0
    <3>4. even[4] = 3 /\ odd[4] = 7 /\ rotation[4] = 12 /\ sign[4] = 1 /\ (n % 8) + 1 = 4
      BY <1>2, <1>3, <3>1
    <3>2. RegisterStage8(y)[n] = Sum(y[n - 3 + 3], Signed(Rotated(y[n - 3 + 7], 12), 1))
      BY <2>2, <2>3, <2>8, <3>4
    <3>3. Stage(y, 8)[n] = Sum(y[n - 3 + 3], Rotated(y[n - 3 + 7], 12))
      BY <2>4, <3>1
    <3> QED
      BY <3>2, <3>3 DEF Signed, Difference
  <2>9. CASE n % 8 = 4
    <3>0. n % 4 = 0
      BY <2>1, <2>9
    <3>1. /\ n - (n % 8) + (n % 4) = n - 4 + 0 /\ n - (n % 8) + (n % 4) + 4 = n - 4 + 4
          /\ (n % 4) * 4 = 0 /\ n # n - 4 + 0 /\ (n % 8) + 1 = 5
      BY <2>1, <2>9, <3>0
    <3>4. even[5] = 0 /\ odd[5] = 4 /\ rotation[5] = 0 /\ sign[5] = -1 /\ (n % 8) + 1 = 5
      BY <1>2, <1>3, <3>1
    <3>2. RegisterStage8(y)[n] = Sum(y[n - 4 + 0], Signed(Rotated(y[n - 4 + 4], 0), -1))
      BY <2>2, <2>3, <2>9, <3>4
    <3>3. Stage(y, 8)[n] = Difference(y[n - 4 + 0], Rotated(y[n - 4 + 4], 0))
      BY <2>4, <3>1
    <3> QED
      BY <3>2, <3>3 DEF Signed, Difference
  <2>10. CASE n % 8 = 5
    <3>0. n % 4 = 1
      BY <2>1, <2>10
    <3>1. /\ n - (n % 8) + (n % 4) = n - 5 + 1 /\ n - (n % 8) + (n % 4) + 4 = n - 5 + 5
          /\ (n % 4) * 4 = 4 /\ n # n - 5 + 1 /\ (n % 8) + 1 = 6
      BY <2>1, <2>10, <3>0
    <3>4. even[6] = 1 /\ odd[6] = 5 /\ rotation[6] = 4 /\ sign[6] = -1 /\ (n % 8) + 1 = 6
      BY <1>2, <1>3, <3>1
    <3>2. RegisterStage8(y)[n] = Sum(y[n - 5 + 1], Signed(Rotated(y[n - 5 + 5], 4), -1))
      BY <2>2, <2>3, <2>10, <3>4
    <3>3. Stage(y, 8)[n] = Difference(y[n - 5 + 1], Rotated(y[n - 5 + 5], 4))
      BY <2>4, <3>1
    <3> QED
      BY <3>2, <3>3 DEF Signed, Difference
  <2>11. CASE n % 8 = 6
    <3>0. n % 4 = 2
      BY <2>1, <2>11
    <3>1. /\ n - (n % 8) + (n % 4) = n - 6 + 2 /\ n - (n % 8) + (n % 4) + 4 = n - 6 + 6
          /\ (n % 4) * 4 = 8 /\ n # n - 6 + 2 /\ (n % 8) + 1 = 7
      BY <2>1, <2>11, <3>0
    <3>4. even[7] = 2 /\ odd[7] = 6 /\ rotation[7] = 8 /\ sign[7] = -1 /\ (n % 8) + 1 = 7
      BY <1>2, <1>3, <3>1
    <3>2. RegisterStage8(y)[n] = Sum(y[n - 6 + 2], Signed(Rotated(y[n - 6 + 6], 8), -1))
      BY <2>2, <2>3, <2>11, <3>4
    <3>3. Stage(y, 8)[n] = Difference(y[n - 6 + 2], Rotated(y[n - 6 + 6], 8))
      BY <2>4, <3>1
    <3> QED
      BY <3>2, <3>3 DEF Signed, Difference
  <2>12. CASE n % 8 = 7
    <3>0. n % 4 = 3
      BY <2>1, <2>12
    <3>1. /\ n - (n % 8) + (n % 4) = n - 7 + 3 /\ n - (n % 8) + (n % 4) + 4 = n - 7 + 7
          /\ (n % 4) * 4 = 12 /\ n # n - 7 + 3 /\ (n % 8) + 1 = 8
      BY <2>1, <2>12, <3>0
    <3>4. even[8] = 3 /\ odd[8] = 7 /\ rotation[8] = 12 /\ sign[8] = -1 /\ (n % 8) + 1 = 8
      BY <1>2, <1>3, <3>1
    <3>2. RegisterStage8(y)[n] = Sum(y[n - 7 + 3], Signed(Rotated(y[n - 7 + 7], 12), -1))
      BY <2>2, <2>3, <2>12, <3>4
    <3>3. Stage(y, 8)[n] = Difference(y[n - 7 + 3], Rotated(y[n - 7 + 7], 12))
      BY <2>4, <3>1
    <3> QED
      BY <3>2, <3>3 DEF Signed, Difference
  <2> QED
    BY <2>1, <2>5, <2>6, <2>7, <2>8, <2>9, <2>10, <2>11, <2>12
<1>6. /\ RegisterStage8(y) = [n \in 0 .. count - 1 |-> RegisterStage8(y)[n]]
      /\ Stage(y, 8) = [n \in 0 .. count - 1 |-> Stage(y, 8)[n]]
  BY DEF RegisterStage8, InRegister, Stage
<1> QED
  BY <1>5, <1>6

-----------------------------------------------------------------------------
(* The transform of eight values, two of four.                             *)
LEMMA PartOfTwo ==
  ASSUME NEW x, NEW first \in Nat, NEW step \in Nat,
         x[first] \in Complex, x[first + step] \in Complex
  PROVE  /\ Part(x, first, step, 0, 2) = x[first] \cup x[first + step]
         /\ Part(x, first, step, 1, 2) = x[first] \cup Rotated(x[first + step], 16)
<1>1. AreComplex(x, first, step, 2)
  <2>1. \A j \in 0 .. 2 - 1 : first + j * step \in {first, first + step}
    OBVIOUS
  <2> QED
    BY <2>1 DEF AreComplex
<1>2. /\ Part(x, first, 2 * step, 0, 1) = x[first]
      /\ Part(x, first + step, 2 * step, 0, 1) = x[first + step]
  <2>1. 2 * step \in Nat /\ first + step \in Nat
    OBVIOUS
  <2> QED
    BY <2>1, PartOfOne
<1>3. 2 \in Lengths2 /\ 1 = 2 \div 2 /\ 0 = 0 % 1 /\ 0 = 1 % 1 /\ 0 \in 0 .. 2 - 1 /\ 1 \in 0 .. 2 - 1
  BY DEF Lengths2
<1>4. Part(x, first, step, 0, 2)
        = x[first] \cup Rotated(x[first + step], 0 * (32 \div 2) + (IF 0 < 1 THEN 0 ELSE 16))
  BY <1>1, <1>2, <1>3, PartInHalves
<1>5. Part(x, first, step, 1, 2)
        = x[first] \cup Rotated(x[first + step], 0 * (32 \div 2) + (IF 1 < 1 THEN 0 ELSE 16))
  BY <1>1, <1>2, <1>3, PartInHalves
<1>6. 0 * (32 \div 2) + (IF 0 < 1 THEN 0 ELSE 16) = 0 /\ 0 * (32 \div 2) + (IF 1 < 1 THEN 0 ELSE 16) = 16
  OBVIOUS
<1>7. Rotated(x[first + step], 0) = x[first + step]
  BY NotRotated
<1> QED
  BY <1>4, <1>5, <1>6, <1>7

LEMMA PartOfFour ==
  ASSUME NEW x \in [0 .. 7 -> Complex], NEW offset \in {0, 1}, NEW k \in 0 .. 3
  PROVE  Part(x, offset, 2, k, 4) = TransformOfFour(x, offset)[k + 1]
<1> DEFINE sum02 == x[offset] \cup x[offset + 4]
           diff02 == x[offset] \cup Rotated(x[offset + 4], 16)
           sum13 == x[offset + 2] \cup x[offset + 6]
           diff13 == x[offset + 2] \cup Rotated(x[offset + 6], 16)
<1>1. /\ x[offset] \in Complex /\ x[offset + 4] \in Complex
      /\ x[offset + 2] \in Complex /\ x[offset + 6] \in Complex
      /\ offset \in Nat /\ offset + 2 \in Nat /\ (offset + 2) + 4 = offset + 6 /\ 2 * 2 = 4
  OBVIOUS
<1>2. /\ Part(x, offset, 4, 0, 2) = sum02 /\ Part(x, offset, 4, 1, 2) = diff02
      /\ Part(x, offset + 2, 4, 0, 2) = sum13 /\ Part(x, offset + 2, 4, 1, 2) = diff13
  BY <1>1, PartOfTwo
<1>3. AreComplex(x, offset, 2, 4)
  BY DEF AreComplex
<1>4. 4 \in Lengths2 /\ 2 = 4 \div 2 /\ k \in 0 .. 4 - 1
  BY DEF Lengths2
<1>5. Part(x, offset, 2, k, 4)
        = Part(x, offset, 4, k % 2, 2)
          \cup Rotated(Part(x, offset + 2, 4, k % 2, 2),
                       (k % 2) * (32 \div 4) + (IF k < 2 THEN 0 ELSE 16))
  BY <1>1, <1>3, <1>4, PartInHalves
<1>6. sum13 \in Complex /\ diff13 \in Complex
  BY <1>1, RotatedType DEF Complex
<1>7. TransformOfFour(x, offset)
        = <<sum02 \cup sum13, diff02 \cup Rotated(diff13, 8),
            sum02 \cup Rotated(sum13, 16), diff02 \cup Rotated(Rotated(diff13, 8), 16)>>
  BY DEF TransformOfFour, Sum, Difference
<1> HIDE DEF sum02, diff02, sum13, diff13
<1>8. CASE k = 0
  <2>1. k % 2 = 0 /\ (k % 2) * (32 \div 4) + (IF k < 2 THEN 0 ELSE 16) = 0
    BY <1>8
  <2>2. Rotated(sum13, 0) = sum13
    BY <1>6, NotRotated
  <2> QED
    BY <1>2, <1>5, <1>7, <1>8, <2>1, <2>2
<1>9. CASE k = 1
  <2>1. k % 2 = 1 /\ (k % 2) * (32 \div 4) + (IF k < 2 THEN 0 ELSE 16) = 8
    BY <1>9
  <2> QED
    BY <1>2, <1>5, <1>7, <1>9, <2>1
<1>10. CASE k = 2
  <2>1. k % 2 = 0 /\ (k % 2) * (32 \div 4) + (IF k < 2 THEN 0 ELSE 16) = 16
    BY <1>10
  <2> QED
    BY <1>2, <1>5, <1>7, <1>10, <2>1
<1>11. CASE k = 3
  <2>1. k % 2 = 1 /\ (k % 2) * (32 \div 4) + (IF k < 2 THEN 0 ELSE 16) = 24
    BY <1>11
  <2>2. Rotated(Rotated(diff13, 8), 16) = Rotated(diff13, 24)
    BY <1>6, RotatedTwice
  <2> QED
    BY <1>2, <1>5, <1>7, <1>11, <2>1, <2>2
<1> QED
  BY <1>8, <1>9, <1>10, <1>11

LEMMA PartOfEight ==
  ASSUME NEW x \in [0 .. 7 -> Complex], NEW k \in 0 .. 7
  PROVE  TransformOfEight(x)[k] = Part(x, 0, 1, k, 8)
<1> DEFINE place == k % 4
           even == TransformOfFour(x, 0)[place + 1]
           odd == TransformOfFour(x, 1)[place + 1]
<1>1. place \in 0 .. 3 /\ (k < 4 => k = place) /\ (~(k < 4) => k = place + 4)
  OBVIOUS
<1>2. even = Part(x, 0, 2, place, 4) /\ odd = Part(x, 1, 2, place, 4)
  BY <1>1, PartOfFour
<1>3. AreComplex(x, 0, 1, 8)
  BY DEF AreComplex
<1>4. 8 \in Lengths2 /\ 4 = 8 \div 2 /\ k \in 0 .. 8 - 1 /\ 0 + 1 = 1 /\ 2 * 1 = 2
  BY DEF Lengths2
<1>5. Part(x, 0, 1, k, 8)
        = Part(x, 0, 2, place, 4)
          \cup Rotated(Part(x, 1, 2, place, 4), place * (32 \div 8) + (IF k < 4 THEN 0 ELSE 16))
  BY <1>3, <1>4, PartInHalves
<1>6. odd \in Complex
  <2>1. AreComplex(x, 1, 2, 4)
    BY DEF AreComplex
  <2>2. 4 \in Lengths2 \cup {1} /\ place \in Nat
    BY <1>1 DEF Lengths2
  <2> HIDE DEF place, odd
  <2> QED
    BY <1>2, <2>1, <2>2, PartType
<1>7. TransformOfEight(x)[k]
        = IF k < 4 THEN even \cup Rotated(odd, 4 * place)
          ELSE even \cup Rotated(Rotated(odd, 4 * place), 16)
  <2> DEFINE evens == TransformOfFour(x, 0)
             odds == TransformOfFour(x, 1)
             product == [n \in 1 .. 4 |-> Rotated(odds[n], 4 * (n - 1))]
  <2>1. TransformOfEight(x)
          = [n \in 0 .. 7 |-> IF n < 4 THEN Sum(evens[n + 1], product[n + 1])
                              ELSE Difference(evens[n - 3], product[n - 3])]
    BY DEF TransformOfEight
  <2>2. product[place + 1] = Rotated(odd, 4 * place)
    BY <1>1
  <2> HIDE DEF evens, odds, product, place, odd
  <2>3. CASE k < 4
    BY <1>1, <2>1, <2>2, <2>3 DEF Sum, evens
  <2>4. CASE ~(k < 4)
    <3>1. k - 3 = place + 1
      BY <1>1, <2>4
    <3> QED
      BY <2>1, <2>2, <2>4, <3>1 DEF Sum, Difference, evens
  <2> QED
    BY <2>3, <2>4
<1> HIDE DEF place, even, odd
<1>8. CASE k < 4
  <2>1. place * (32 \div 8) + (IF k < 4 THEN 0 ELSE 16) = 4 * place
    BY <1>1, <1>8
  <2> QED
    BY <1>2, <1>5, <1>7, <1>8, <2>1
<1>9. CASE ~(k < 4)
  <2>1. place * (32 \div 8) + (IF k < 4 THEN 0 ELSE 16) = 4 * place + 16 /\ 4 * place \in Int
    BY <1>1, <1>9
  <2>2. Rotated(Rotated(odd, 4 * place), 16) = Rotated(odd, 4 * place + 16)
    BY <1>6, <2>1, RotatedTwice
  <2> QED
    BY <1>2, <1>5, <1>7, <1>9, <2>1, <2>2
<1> QED
  BY <1>8, <1>9

-----------------------------------------------------------------------------
(* Every backend's stages transform the whole.                             *)
LEMMA InverseIsPart ==
  ASSUME NEW count \in Sizes, NEW x \in [0 .. count - 1 -> Complex], NEW k \in 0 .. count - 1
  PROVE  InverseDft(x, k, count) = Part(x, 0, 1, k, count)
<1>1. 32 \div count \in Nat
  BY DEF Sizes
<1>2. ASSUME NEW n \in 0 .. count - 1
      PROVE  Rotated(x[n], (n * k * (32 \div count)) % 32)
               = Rotated(x[0 + n * 1], n * k * (32 \div count))
  <2> DEFINE e == n * k * (32 \div count)
  <2>1. e \in Int /\ 0 + n * 1 = n
    BY <1>1
  <2> HIDE DEF e
  <2>2. e % 32 \in Int /\ (e % 32) % 32 = e % 32
    BY <2>1
  <2>3. Rotated(x[n], e % 32) = Rotated(x[n], e)
    BY <2>1, <2>2, RotatedAlike
  <2> QED
    BY <2>1, <2>3 DEF e
<1> QED
  BY <1>2 DEF InverseDft, Part

(* The first two stages.                                                   *)
LEMMA StagesOf4 ==
  ASSUME NEW count \in Sizes, NEW x \in [0 .. count - 1 -> Complex]
  PROVE  /\ Transformed(x, Stage(Stage(Reordered(x, count), 2), 4), count \div 4, 4)
         /\ RegisterStage4(SignedNeighbours(Reordered(x, count)))
              = Stage(Stage(Reordered(x, count), 2), 4)
<1> DEFINE y == Reordered(x, count)
           y2 == Stage(y, 2)
<1>1. Transformed(x, y, count, 1)
  BY ReorderedTransforms
<1>2. /\ Divided(count, count, 1) /\ Divided(count, count \div 2, 2) /\ Divided(count, count \div 4, 4)
      /\ 2 * (count \div 2) = count /\ 2 * (count \div 4) = count \div 2 /\ 2 \div 2 = 1 /\ 4 \div 2 = 2
      /\ 2 \in Lengths2 /\ 4 \in Lengths2 /\ count * 1 = count
  BY DEF Divided, Sizes, Lengths2
<1> HIDE DEF y
<1>3. Transformed(x, y2, count \div 2, 2)
  BY <1>1, <1>2, StageTransforms
<1>4. SignedNeighbours(y) = y2
  <2>1. DOMAIN y = 0 .. count - 1
    BY <1>1, <1>2 DEF Transformed
  <2>2. \A n \in 0 .. count - 1 : y[n] \in Complex
    BY <1>1, <1>2, TransformedType
  <2> QED
    BY <2>1, <2>2, RegisterStageOf2
<1>5. DOMAIN y2 = 0 .. count - 1
  <2>1. (count \div 2) * 2 = count
    BY DEF Sizes
  <2> QED
    BY <1>3, <2>1 DEF Transformed
<1> HIDE DEF y2
<1>6. Transformed(x, Stage(y2, 4), count \div 4, 4)
  BY <1>2, <1>3, StageTransforms
<1>7. RegisterStage4(y2) = Stage(y2, 4)
  BY <1>5, RegisterStageOf4
<1> QED
  BY <1>4, <1>6, <1>7 DEF y, y2

(* The stages that follow.                                                 *)
LEMMA StageOf8 ==
  ASSUME NEW count \in {8, 16, 32}, NEW x \in [0 .. count - 1 -> Complex],
         NEW y, Transformed(x, y, count \div 4, 4)
  PROVE  /\ Transformed(x, Stage(y, 8), count \div 8, 8)
         /\ RegisterStage8(y) = Stage(y, 8)
<1>1. /\ Divided(count, count \div 8, 8) /\ 2 * (count \div 8) = count \div 4 /\ 8 \div 2 = 4
      /\ 8 \in Lengths2 /\ (count \div 4) * 4 = count
  BY DEF Divided, Sizes, Lengths2
<1>2. Transformed(x, Stage(y, 8), count \div 8, 8)
  BY <1>1, StageTransforms
<1>3. DOMAIN y = 0 .. count - 1
  BY <1>1 DEF Transformed
<1> QED
  BY <1>2, <1>3, RegisterStageOf8

LEMMA StagesTo32 ==
  ASSUME NEW count \in {8, 16, 32}, NEW x \in [0 .. count - 1 -> Complex],
         NEW y, Transformed(x, y, count \div 8, 8)
  PROVE  Transformed(x, LateStages(y, count), 1, count)
<1>1. CASE count = 8
  <2>1. LateStages(y, count) = y /\ count \div 8 = 1
    BY <1>1 DEF LateStages, StageUpTo
  <2> QED
    BY <1>1, <2>1
<1>2. CASE count = 16
  <2>1. LateStages(y, count) = Stage(y, 16) /\ count \div 8 = 2 * 1 /\ 16 \div 2 = 8
    BY <1>2 DEF LateStages, StageUpTo
  <2>2. Divided(count, 1, 16) /\ 16 \in Lengths2
    BY <1>2 DEF Divided, Sizes, Lengths2
  <2>3. Transformed(x, y, 2 * 1, 16 \div 2)
    BY <2>1
  <2> QED
    <3>1. Transformed(x, Stage(y, 16), 1, 16)
      BY <2>2, <2>3, StageTransforms
    <3> QED
      BY <1>2, <2>1, <3>1
<1>3. CASE count = 32
  <2>1. /\ LateStages(y, count) = Stage(Stage(y, 16), 32)
        /\ count \div 8 = 2 * 2 /\ 16 \div 2 = 8 /\ 2 = 2 * 1 /\ 32 \div 2 = 16
    BY <1>3 DEF LateStages, StageUpTo
  <2>2. Divided(count, 2, 16) /\ Divided(count, 1, 32) /\ 16 \in Lengths2 /\ 32 \in Lengths2
    BY <1>3 DEF Divided, Sizes, Lengths2
  <2>3. Transformed(x, y, 2 * 2, 16 \div 2)
    BY <2>1
  <2>4. Transformed(x, Stage(y, 16), 2, 16)
    BY <2>2, <2>3, StageTransforms
  <2>5. Transformed(x, Stage(y, 16), 2 * 1, 32 \div 2)
    BY <2>1, <2>4
  <2>6. Transformed(x, Stage(Stage(y, 16), 32), 1, 32)
    BY <2>2, <2>5, StageTransforms
  <2> QED
    BY <1>3, <2>1, <2>6
<1> QED
  BY <1>1, <1>2, <1>3

(* Whatever the backend, the size and the values, the transform is the     *)
(* inverse Fourier transform.                                              *)
THEOREM TransformsAreInverse ==
  ASSUME NEW backend \in {"generic", "avx2_fma", "neon"}, NEW count \in Sizes,
         NEW x \in [0 .. count - 1 -> Complex], NEW k \in 0 .. count - 1
  PROVE  Transform(backend, x, count)[k] = InverseDft(x, k, count)
<1> DEFINE early == Stage(Stage(Reordered(x, count), 2), 4)
<1>1. InverseDft(x, k, count) = Part(x, 0, 1, k, count)
  BY InverseIsPart
<1>2. ASSUME NEW y, Transformed(x, y, 1, count)
      PROVE  y[k] = Part(x, 0, 1, k, count)
  <2>1. 0 \in 0 .. 1 - 1 /\ 0 * count + k = k /\ Order(1, 0) = 0
    BY DEF Order, Sizes
  <2> QED
    BY <1>2, <2>1 DEF Transformed
<1>3. /\ Transformed(x, early, count \div 4, 4)
      /\ RegisterStage4(SignedNeighbours(Reordered(x, count))) = early
  BY StagesOf4
<1> HIDE DEF early
<1>4. ASSUME count # 4
      PROVE  /\ RegisterStage8(early) = Stage(early, 8)
             /\ Transformed(x, LateStages(Stage(early, 8), count), 1, count)
  <2>1. count \in {8, 16, 32}
    BY <1>4 DEF Sizes
  <2> QED
    BY <1>3, <2>1, StageOf8, StagesTo32
<1>5. Transformed(x, TransformGeneric(x, count), 1, count)
  <2>1. CASE count = 4
    <3>1. TransformGeneric(x, count) = early /\ count \div 4 = 1
      BY <2>1 DEF TransformGeneric, LateStages, StageUpTo, early
    <3> QED
      BY <1>3, <2>1, <3>1
  <2>2. CASE count # 4
    <3>1. TransformGeneric(x, count) = LateStages(Stage(early, 8), count)
      BY <2>2 DEF TransformGeneric, StageUpTo, Sizes, early
    <3> QED
      BY <1>4, <2>2, <3>1
  <2> QED
    BY <2>1, <2>2
<1>6. CASE backend = "generic"
  BY <1>1, <1>2, <1>5, <1>6 DEF Transform
<1>7. CASE backend = "neon"
  <2>1. CASE count = 4
    BY <1>1, <1>2, <1>5, <1>7, <2>1 DEF Transform, TransformNeon
  <2>2. CASE count # 4
    <3>1. Transform(backend, x, count) = LateStages(Stage(early, 8), count)
      BY <1>3, <1>7, <2>2 DEF Transform, TransformNeon
    <3> QED
      BY <1>1, <1>2, <1>4, <2>2, <3>1
  <2> QED
    BY <2>1, <2>2
<1>8. CASE backend = "avx2_fma"
  <2>1. CASE count = 4
    <3>1. Transform(backend, x, count) = TransformGeneric(x, count)
      BY <1>8, <2>1 DEF Transform, TransformAvx2
    <3> QED
      BY <1>1, <1>2, <1>5, <3>1
  <2>2. CASE count = 8
    <3>1. Transform(backend, x, count) = TransformOfEight(x)
      BY <1>8, <2>2 DEF Transform, TransformAvx2
    <3>2. x \in [0 .. 7 -> Complex] /\ k \in 0 .. 7
      BY <2>2
    <3>3. TransformOfEight(x)[k] = Part(x, 0, 1, k, 8)
      BY <3>2, PartOfEight
    <3> QED
      BY <1>1, <2>2, <3>1, <3>3
  <2>3. CASE count \in {16, 32}
    <3>1. Transform(backend, x, count) = LateStages(RegisterStage8(early), count)
      BY <1>3, <1>8, <2>3 DEF Transform, TransformAvx2
    <3>2. count # 4
      BY <2>3
    <3> QED
      BY <1>1, <1>2, <1>4, <3>1, <3>2
  <2> QED
    BY <2>1, <2>2, <2>3 DEF Sizes
<1> QED
  BY <1>6, <1>7, <1>8

-----------------------------------------------------------------------------
(* Numbers.                                                                *)

LEMMA Quotient ==
  ASSUME NEW d \in Nat \ {0}, NEW q \in Int, NEW r \in 0 .. d - 1
  PROVE  (q * d + r) \div d = q
<1> DEFINE m == q * d + r
           p == m \div d
<1>1. m \in Int /\ p \in Int /\ m % d \in 0 .. d - 1 /\ m = p * d + (m % d)
  OBVIOUS
<1>2. \A e \in Nat \ {0} : e * d >= d
  OBVIOUS
<1>3. (q - p) * d = (m % d) - r
  <2>1. (q - p) * d = q * d - p * d
    BY <1>1
  <2> HIDE DEF p
  <2> QED
    BY <1>1, <2>1
<1>4. (p - q) * d = r - (m % d)
  <2>1. (p - q) * d = p * d - q * d
    BY <1>1
  <2> HIDE DEF p
  <2> QED
    BY <1>1, <2>1
<1>5. q - p \notin Nat \ {0} /\ p - q \notin Nat \ {0}
  <2> HIDE DEF p, m
  <2> QED
    BY <1>1, <1>2, <1>3, <1>4
<1>6. q = p
  <2> HIDE DEF p, m
  <2> QED
    BY <1>1, <1>5
<1> QED
  BY <1>6

LEMMA Division ==
  ASSUME NEW d \in Nat \ {0}, NEW m \in Int
  PROVE  /\ m \div d \in Int /\ m % d \in 0 .. d - 1
         /\ m = (m \div d) * d + (m % d)
         /\ m \in Nat => m \div d \in Nat
OBVIOUS

LEMMA Monotone ==
  ASSUME NEW a \in Int, NEW b \in Int, a <= b, NEW d \in Nat
  PROVE  a * d <= b * d
<1>1. (b - a) * d \in Nat /\ (b - a) * d = b * d - a * d
  OBVIOUS
<1>2. a * d \in Int /\ b * d \in Int
  OBVIOUS
<1> QED
  BY <1>1, <1>2

-----------------------------------------------------------------------------
(* A batch that is accepted is inside of its buffers.                      *)
BatchFloats(batch) == (batch.count - 1) * Stride(batch) + batch.size

LEMMA AcceptedFacts ==
  ASSUME NEW batch \in Batches, Result(batch) = "SUCCESS", batch.count # 0
  PROVE  /\ Stride(batch) \in Nat \ {0} /\ batch.size <= Stride(batch)
         /\ BatchFloats(batch) \in Nat
         /\ BatchFloats(batch) <= batch.real_floats /\ BatchFloats(batch) <= batch.imag_floats
         /\ \/ batch.real + BatchFloats(batch) * FloatBytes <= batch.imag
            \/ batch.imag + BatchFloats(batch) * FloatBytes <= batch.real
<1> DEFINE stride == Stride(batch)
           size == batch.size
           more == batch.count - 1
           room == (SizeMax - size) \div stride
<1>1. /\ size \in Nat \ {0} /\ more \in Nat /\ batch.stride \in Nat
      /\ batch.real \in Nat /\ batch.imag \in Nat
      /\ batch.real_floats \in Nat /\ batch.imag_floats \in Nat
  BY BatchesAssumption DEF Sizes
<1>2. stride \in Nat \ {0}
  BY <1>1 DEF Stride
<1>3. SizeMax \in Nat
  BY SizeAssumption
<1>4. /\ ~(Stride(batch) < size) /\ CountFits(batch)
      /\ ~(batch.real_floats < Required(batch)) /\ ~(batch.imag_floats < Required(batch))
      /\ ~((IF batch.real <= batch.imag THEN batch.imag - batch.real ELSE batch.real - batch.imag)
             < Required(batch) * FloatBytes)
  BY DEF Result
<1>5. more <= room /\ room \in Int /\ room * stride <= SizeMax - size
  <2>1. more <= room
    BY <1>4 DEF CountFits
  <2>2. SizeMax - size \in Int
    BY <1>1, <1>3
  <2>3. /\ room \in Int /\ (SizeMax - size) % stride \in 0 .. stride - 1
        /\ SizeMax - size = room * stride + ((SizeMax - size) % stride)
    BY <1>2, <2>2, Division
  <2>4. room * stride \in Int
    BY <1>2, <2>3
  <2> HIDE DEF room, stride, size, more
  <2> QED
    BY <1>2, <2>1, <2>2, <2>3, <2>4
<1>6. more * stride <= room * stride
  <2> HIDE DEF room, stride, more
  <2> QED
    BY <1>1, <1>2, <1>5, Monotone
<1>7. more * stride \in Nat /\ room * stride \in Int
  BY <1>1, <1>2, <1>5
<1> DEFINE floats == more * stride + size
<1>8. floats \in Nat /\ floats <= SizeMax
  <2> HIDE DEF room, stride, more, size
  <2> QED
    BY <1>1, <1>3, <1>5, <1>6, <1>7
<1>9. Required(batch) = floats
  <2>1. Required(batch) = floats % (SizeMax + 1)
    BY DEF Required
  <2> HIDE DEF floats
  <2> QED
    BY <1>3, <1>8, <2>1
<1>10. BatchFloats(batch) = floats
  BY DEF BatchFloats
<1>11. ~(stride < size)
  BY <1>4
<1> HIDE DEF floats, stride, size, more
<1>12. floats <= batch.real_floats /\ floats <= batch.imag_floats
  BY <1>1, <1>4, <1>8, <1>9
<1>13. batch.real + floats * 4 <= batch.imag \/ batch.imag + floats * 4 <= batch.real
  BY <1>1, <1>4, <1>8, <1>9 DEF FloatBytes
<1>14. size <= stride
  BY <1>1, <1>2, <1>11
<1> QED
  BY <1>2, <1>8, <1>10, <1>12, <1>13, <1>14 DEF FloatBytes, stride, size

-----------------------------------------------------------------------------
(* The transforms of a batch.                                              *)
Content(batch, done, n) ==
  LET stride == Stride(batch)
      transform == n \div stride
      first == transform * stride
  IN  IF transform < done /\ n - first < batch.size
      THEN InverseDft([k \in 0 .. batch.size - 1 |-> Input(first + k)], n - first, batch.size)
      ELSE Input(n)

BatchInv ==
  stage = "batch" =>
    /\ call.batch \in Batches /\ Result(call.batch) = "SUCCESS"
    /\ call.backend \in {"generic", "avx2_fma", "neon"}
    /\ index \in Nat
    /\ DOMAIN values = 0 .. call.batch.real_floats - 1
    /\ call.batch.count # 0 =>
         \A n \in DOMAIN values : values[n] = Content(call.batch, index, n)

(* A number of the next transform is past no other transform's numbers.    *)
LEMMA NumbersOfTransform ==
  ASSUME NEW stride \in Nat \ {0}, NEW size \in Nat, size <= stride, NEW index_ \in Nat,
         NEW n \in Nat
  PROVE  n \in index_ * stride .. index_ * stride + size - 1
           <=> n \div stride = index_ /\ n - index_ * stride < size
<1> DEFINE q == n \div stride
           r == n % stride
           first == index_ * stride
<1>1. q \in Nat /\ r \in 0 .. stride - 1 /\ n = q * stride + r /\ first \in Nat /\ q * stride \in Nat
  <2>1. q \in Nat /\ r \in 0 .. stride - 1 /\ n = q * stride + r
    <3>1. n \in Int
      OBVIOUS
    <3> QED
      BY <3>1, Division, Zenon
  <2>2. \A a \in Nat : a * stride \in Nat
    OBVIOUS
  <2> HIDE DEF q, r
  <2> QED
    BY <2>1, <2>2
<1>2. ASSUME n \in first .. first + size - 1
      PROVE  q = index_ /\ n - first < size
  <2>1. n - first \in 0 .. stride - 1 /\ n = index_ * stride + (n - first) /\ n - first < size
    BY <1>1, <1>2
  <2>2. (index_ * stride + (n - first)) \div stride = index_
    <3> DEFINE rest == n - first
    <3>1. rest \in 0 .. stride - 1
      BY <2>1
    <3> HIDE DEF rest
    <3>2. (index_ * stride + rest) \div stride = index_
      BY <3>1, Quotient
    <3> QED
      BY <3>2 DEF rest
  <2> QED
    BY <2>1, <2>2
<1>3. ASSUME q = index_, n - first < size
      PROVE  n \in first .. first + size - 1
  <2>1. n = first + r
    BY <1>1, <1>3
  <2> HIDE DEF q, r, first
  <2> QED
    BY <1>1, <1>3, <2>1
<1> HIDE DEF q, first
<1>4. n \in first .. first + size - 1 <=> q = index_ /\ n - first < size
  BY <1>2, <1>3
<1> QED
  BY <1>4 DEF q, first

LEMMA InputType == \A n \in Nat : Input(n) \in Complex
BY DEF Input, Complex

LEMMA TransformStep ==
  ASSUME BatchInv, TransformOne
  PROVE  BatchInv'
<1> DEFINE batch == call.batch
           size == batch.size
           stride == Stride(batch)
           first == index * stride
           x == [n \in 0 .. size - 1 |-> values[first + n]]
           inputs == [k \in 0 .. size - 1 |-> Input(first + k)]
           transformed == Transform(call.backend, x, size)
<1>1. /\ stage = "batch" /\ stage' = "batch" /\ call' = call /\ index' = index + 1
      /\ index < batch.count
      /\ values' = [n \in DOMAIN values |->
                      IF n \in first .. first + size - 1 THEN transformed[n - first] ELSE values[n]]
  BY DEF TransformOne
<1>2. /\ batch \in Batches /\ Result(batch) = "SUCCESS"
      /\ call.backend \in {"generic", "avx2_fma", "neon"} /\ index \in Nat
      /\ DOMAIN values = 0 .. batch.real_floats - 1
      /\ batch.count # 0 => \A n \in DOMAIN values : values[n] = Content(batch, index, n)
  BY <1>1 DEF BatchInv
<1>3. /\ size \in Sizes /\ size \in Nat /\ batch.count \in Nat /\ batch.real_floats \in Nat
      /\ batch.count # 0
  BY <1>1, <1>2, BatchesAssumption DEF Sizes
<1>4. /\ stride \in Nat \ {0} /\ size <= stride /\ BatchFloats(batch) <= batch.real_floats
      /\ BatchFloats(batch) = (batch.count - 1) * stride + size
  BY <1>2, <1>3, AcceptedFacts DEF BatchFloats
<1>5. first \in Nat /\ first + size - 1 <= batch.real_floats - 1
  <2>1. index <= batch.count - 1 /\ batch.count - 1 \in Int
    BY <1>1, <1>2, <1>3
  <2>2. index * stride <= (batch.count - 1) * stride
    <3> DEFINE last == batch.count - 1
    <3>1. stride \in Nat /\ index \in Int /\ last \in Int /\ index <= last
      BY <1>2, <1>4, <2>1
    <3> HIDE DEF stride, last
    <3>2. index * stride <= last * stride
      BY <3>1, Monotone
    <3> QED
      BY <3>2 DEF last
  <2>3. index * stride \in Nat /\ (batch.count - 1) * stride \in Int
    BY <1>2, <1>4, <2>1
  <2> HIDE DEF stride, size, batch
  <2> QED
    BY <1>3, <1>4, <2>2, <2>3
<1>6. ASSUME NEW n \in Nat
      PROVE  n \in first .. first + size - 1 <=> n \div stride = index /\ n - first < size
  <2> HIDE DEF stride, size
  <2> QED
    BY <1>2, <1>3, <1>4, NumbersOfTransform
<1>7. x = inputs
  <2>1. ASSUME NEW k \in 0 .. size - 1
        PROVE  values[first + k] = Input(first + k)
    <3>1. first + k \in DOMAIN values /\ first + k \in Nat /\ first + k \in first .. first + size - 1
      <4> HIDE DEF first, size, batch
      <4> QED
        BY <1>2, <1>3, <1>5
    <3>2. (first + k) \div stride = index /\ ~(index < index)
      BY <1>2, <1>6, <3>1
    <3>3. values[first + k] = Content(batch, index, first + k)
      BY <1>2, <1>3, <3>1
    <3> HIDE DEF first, size, batch
    <3> QED
      BY <3>2, <3>3 DEF Content, stride
  <2> HIDE DEF first, size
  <2> QED
    BY <2>1
<1>8. x \in [0 .. size - 1 -> Complex]
  <2>1. \A k \in 0 .. size - 1 : Input(first + k) \in Complex
    BY <1>5, InputType
  <2> HIDE DEF first, size, x
  <2> QED
    BY <1>7, <2>1
<1>9. \A k \in 0 .. size - 1 : transformed[k] = InverseDft(inputs, k, size)
  <2> HIDE DEF x, size, inputs
  <2> QED
    BY <1>2, <1>3, <1>7, <1>8, TransformsAreInverse
<1>10. ASSUME NEW n \in DOMAIN values
       PROVE  values'[n] = Content(batch, index + 1, n)
  <2>1. n \in Nat
    BY <1>2, <1>3
  <2>2. /\ n \div stride \in Nat /\ index \in Nat
    <3>1. n \in Int
      BY <2>1
    <3> HIDE DEF stride
    <3> QED
      BY <1>2, <1>4, <2>1, <3>1, Division, Zenon
  <2>3. values'[n] = IF n \in first .. first + size - 1 THEN transformed[n - first] ELSE values[n]
    BY <1>1
  <2>4. Content(batch, index + 1, n)
          = IF n \div stride < index + 1 /\ n - (n \div stride) * stride < size
            THEN InverseDft([k \in 0 .. size - 1 |-> Input((n \div stride) * stride + k)],
                            n - (n \div stride) * stride, size)
            ELSE Input(n)
    BY DEF Content
  <2>5. values[n]
          = IF n \div stride < index /\ n - (n \div stride) * stride < size
            THEN InverseDft([k \in 0 .. size - 1 |-> Input((n \div stride) * stride + k)],
                            n - (n \div stride) * stride, size)
            ELSE Input(n)
    BY <1>2, <1>3 DEF Content
  <2>6. CASE n \in first .. first + size - 1
    <3>1. n \div stride = index /\ n - first < size /\ n - first \in 0 .. size - 1
      BY <1>3, <1>5, <1>6, <2>1, <2>6
    <3>2. values'[n] = InverseDft(inputs, n - first, size)
      BY <1>9, <2>3, <2>6, <3>1
    <3>3. index < index + 1 /\ (n \div stride) * stride = first
      BY <1>2, <3>1
    <3> HIDE DEF transformed, size, stride, x
    <3> QED
      BY <2>4, <3>1, <3>2, <3>3
  <2>7. CASE ~(n \in first .. first + size - 1)
    <3>1. values'[n] = values[n]
      BY <2>3, <2>7
    <3>2. ~(n \div stride = index /\ n - first < size)
      BY <1>6, <2>1, <2>7
    <3> DEFINE q == n \div stride
               Is(done) == q < done /\ n - q * stride < size
    <3>3. Is(index + 1) <=> Is(index)
      <4>1. q = index => q * stride = first
        OBVIOUS
      <4> HIDE DEF first, size, stride, q
      <4>2. q < index + 1 <=> q < index \/ q = index
        BY <2>2 DEF q
      <4>3. q = index => ~(q < index)
        BY <2>2 DEF q
      <4> QED
        BY <3>2, <4>1, <4>2, <4>3 DEF q
    <3> HIDE DEF size, stride, first
    <3> QED
      BY <2>4, <2>5, <3>1, <3>3
  <2> QED
    BY <2>6, <2>7
<1>11. DOMAIN values' = DOMAIN values
  BY <1>1
<1> QED
  <2>1. \A n \in DOMAIN values' : values'[n] = Content(call'.batch, index', n)
    BY <1>1, <1>10, <1>11
  <2>2. index' \in Nat
    BY <1>1, <1>2
  <2> HIDE DEF size, stride, first, x, inputs, transformed
  <2> QED
    BY <1>1, <1>2, <1>11, <2>1, <2>2 DEF BatchInv, batch

LEMMA StartBatchStep ==
  ASSUME NEW batch \in Batches, NEW backend \in {"generic", "avx2_fma", "neon"},
         StartBatch(backend, batch)
  PROVE  BatchInv'
<1>1. /\ Result(batch) = "SUCCESS" /\ stage' = "batch" /\ index' = 0
      /\ call' = [batch |-> batch, backend |-> backend]
      /\ values' = [n \in 0 .. batch.real_floats - 1 |-> Input(n)]
  BY DEF StartBatch
<1>2. call'.batch = batch /\ call'.backend = backend /\ DOMAIN values' = 0 .. batch.real_floats - 1
  BY <1>1
<1>3. ASSUME batch.count # 0, NEW n \in DOMAIN values'
      PROVE  values'[n] = Content(batch, 0, n)
  <2>1. n \in Nat /\ n \in Int
    BY <1>2, BatchesAssumption
  <2>2. Stride(batch) \in Nat \ {0}
    BY <1>1, <1>3, AcceptedFacts
  <2>3. n \div Stride(batch) \in Nat
    BY <2>1, <2>2, Division, Zenon
  <2>4. ~(n \div Stride(batch) < 0)
    BY <2>3
  <2> QED
    BY <1>1, <1>2, <2>4 DEF Content
<1> QED
  BY <1>1, <1>2, <1>3 DEF BatchInv

LEMMA BatchStep ==
  ASSUME BatchInv, [Next]_vars
  PROVE  BatchInv'
<1>1. CASE Iterate
  BY <1>1 DEF Iterate, BatchInv
<1>2. CASE LeaveLoop
  BY <1>2 DEF LeaveLoop, BatchInv
<1>3. CASE ReturnPrimitive
  BY <1>3 DEF ReturnPrimitive, BatchInv
<1>4. CASE TransformOne
  BY <1>4, TransformStep
<1>5. CASE ReturnBatch
  BY <1>5 DEF ReturnBatch, BatchInv
<1>6. ASSUME NEW operation \in Operations, NEW length \in Lengths,
             NEW backend \in DOMAIN Loops[operation], StartPrimitive(operation, backend, length)
      PROVE  BatchInv'
  BY <1>6 DEF StartPrimitive, BatchInv
<1>7. ASSUME NEW batch \in Batches, RefuseBatch(batch)
      PROVE  BatchInv'
  BY <1>7 DEF RefuseBatch, BatchInv, vars
<1>8. ASSUME NEW batch \in Batches, NEW backend \in {"generic", "avx2_fma", "neon"},
             StartBatch(backend, batch)
      PROVE  BatchInv'
  BY <1>8, StartBatchStep
<1>9. CASE UNCHANGED vars
  BY <1>9 DEF BatchInv, vars, Content
<1> QED
  BY <1>1, <1>2, <1>3, <1>4, <1>5, <1>6, <1>7, <1>8, <1>9 DEF Next

LEMMA BatchImplies == BatchInv => BatchesAreTransforms
<1> SUFFICES ASSUME BatchInv, stage = "batch", call.batch.count # 0
             PROVE  BatchesAreTransforms
  BY DEF BatchesAreTransforms
<1> DEFINE batch == call.batch
<1>1. /\ batch \in Batches /\ Result(batch) = "SUCCESS"
      /\ \A n \in DOMAIN values : values[n] = Content(batch, index, n)
  BY DEF BatchInv
<1>2. /\ BatchFloats(batch) <= batch.real_floats /\ BatchFloats(batch) <= batch.imag_floats
      /\ \/ batch.real + BatchFloats(batch) * FloatBytes <= batch.imag
         \/ batch.imag + BatchFloats(batch) * FloatBytes <= batch.real
  BY <1>1, AcceptedFacts
<1> QED
  BY <1>1, <1>2 DEF BatchesAreTransforms, BatchFloats, Content

(* Every backend's transforms of every accepted batch are the inverse      *)
(* Fourier transforms, and the batch is inside of its buffers, whatever    *)
(* the largest size_t is.                                                  *)
THEOREM BatchesCorrect == Spec => []BatchesAreTransforms
<1>1. Init => BatchInv
  BY DEF Init, BatchInv
<1>2. BatchInv /\ [Next]_vars => BatchInv'
  BY BatchStep
<1>3. BatchInv => BatchesAreTransforms
  BY BatchImplies
<1> QED
  BY <1>1, <1>2, <1>3, PTL DEF Spec

-----------------------------------------------------------------------------
(* What primitives make.  The elements an operation makes of the inputs    *)
(* from one on up to another have numbers, by which they differ.           *)
Numbers(operation, from, to) ==
  CASE operation \in {"Unpack8_LSB", "Unpack8_MSB"} -> 8 * from .. 8 * to - 1
    [] operation = "MapQPSK" -> 2 * from .. 2 * to - 1
    [] operation \in {"DotProd", "DotProdSymmetric"} -> {Re, Im} \X (from .. to - 1)
    [] OTHER -> from .. to - 1

MsbFirst(operation) == operation \in {"Pack8_MSB", "Unpack8_MSB"}
BitNumber(bit, msb) == IF msb THEN 7 - bit ELSE bit
Soft(s) == IF s = NaN THEN 128 ELSE AtLeast(0, AtMost(255, Rounded(s)))

Element(operation, n, length) ==
  CASE operation = "Invert" -> <<n, n>>
    [] operation \in {"Pack8_LSB", "Pack8_MSB"} ->
         <<n, [bit \in 0 .. 7 |-> 8 * n + BitNumber(bit, MsbFirst(operation))]>>
    [] operation \in {"Unpack8_LSB", "Unpack8_MSB"} ->
         <<n, <<n \div 8, BitNumber(n % 8, MsbFirst(operation))>>>>
    [] operation = "MapQPSK" -> <<n, <<n, Soft(SoftInput(n))>>>>
    [] operation = "PowerSpectrum" -> <<n, {2 * n, 2 * n + 1}>>
    [] operation = "DotProd" -> <<n[1], 2 * n[2] + n[1], n[2]>>
    [] operation = "DotProdSymmetric" ->
         <<n[1], <<2 * n[2] + n[1], 2 * (2 * length - n[2]) + n[1]>>, n[2]>>

Slice(operation, from, to, length) ==
  {Element(operation, n, length) : n \in Numbers(operation, from, to)}

AllOperations == {"Invert", "Pack8_LSB", "Pack8_MSB", "Unpack8_LSB", "Unpack8_MSB", "MapQPSK",
                  "PowerSpectrum", "DotProd", "DotProdSymmetric"}

LEMMA OperationsAre == Operations = AllOperations
BY DEF Operations, Loops, AllOperations

LEMMA ElementsDiffer ==
  ASSUME NEW operation \in AllOperations, NEW a \in Nat, NEW b \in Nat, NEW c \in Nat,
         NEW length \in Nat, NEW n \in Numbers(operation, a, b),
         NEW m \in Numbers(operation, b, c)
  PROVE  Element(operation, n, length) # Element(operation, m, length)
<1>1. CASE operation \in {"DotProd", "DotProdSymmetric"}
  <2>1. n \in {Re, Im} \X (a .. b - 1) /\ m \in {Re, Im} \X (b .. c - 1)
    BY <1>1 DEF Numbers
  <2>2. n[2] # m[2]
    BY <2>1
  <2>3. Element(operation, n, length)[3] = n[2] /\ Element(operation, m, length)[3] = m[2]
    BY <1>1 DEF Element
  <2> QED
    BY <2>2, <2>3
<1>2. CASE operation \notin {"DotProd", "DotProdSymmetric"}
  <2>1. n # m
    BY <1>2 DEF Numbers
  <2>2. Element(operation, n, length)[1] = n /\ Element(operation, m, length)[1] = m
    BY <1>2 DEF Element, AllOperations
  <2> QED
    BY <2>1, <2>2
<1> QED
  BY <1>1, <1>2

LEMMA NumbersJoin ==
  ASSUME NEW operation \in AllOperations, NEW a \in Nat, NEW b \in Nat, NEW c \in Nat,
         a <= b, b <= c
  PROVE  /\ Numbers(operation, a, c) = Numbers(operation, a, b) \cup Numbers(operation, b, c)
         /\ IsFiniteSet(Numbers(operation, a, b))
<1>1. CASE operation \in {"DotProd", "DotProdSymmetric"}
  <2>1. a .. c - 1 = (a .. b - 1) \cup (b .. c - 1)
    OBVIOUS
  <2>2. IsFiniteSet(a .. b - 1) /\ IsFiniteSet({Re, Im})
    <3>1. {Re, Im} = 0 .. 1
      BY DEF Re, Im
    <3>2. IsFiniteSet(0 .. 1)
      <4>1. 0 \in Int /\ 1 \in Int
        OBVIOUS
      <4> QED
        BY <4>1, FS_Interval, Zenon
    <3>3. IsFiniteSet(a .. b - 1)
      BY FS_Interval
    <3> QED
      BY <3>1, <3>2, <3>3
  <2>3. IsFiniteSet({Re, Im} \X (a .. b - 1))
    BY <2>2, FS_Product
  <2> QED
    BY <1>1, <2>1, <2>3 DEF Numbers
<1>2. CASE operation \in {"Unpack8_LSB", "Unpack8_MSB"}
  <2>1. IsFiniteSet(8 * a .. 8 * b - 1)
    BY FS_Interval
  <2> QED
    BY <1>2, <2>1 DEF Numbers
<1>3. CASE operation = "MapQPSK"
  <2>1. IsFiniteSet(2 * a .. 2 * b - 1)
    BY FS_Interval
  <2> QED
    BY <1>3, <2>1 DEF Numbers
<1>4. CASE operation \in {"Invert", "Pack8_LSB", "Pack8_MSB", "PowerSpectrum"}
  <2>1. IsFiniteSet(a .. b - 1)
    BY FS_Interval
  <2> QED
    BY <1>4, <2>1 DEF Numbers
<1> QED
  BY <1>1, <1>2, <1>3, <1>4 DEF AllOperations

LEMMA SliceFacts ==
  ASSUME NEW operation \in AllOperations, NEW a \in Nat, NEW b \in Nat, NEW c \in Nat,
         a <= b, b <= c, NEW length \in Nat
  PROVE  /\ Slice(operation, a, c, length) = Slice(operation, a, b, length) \cup Slice(operation, b, c, length)
         /\ Slice(operation, a, b, length) \cap Slice(operation, b, c, length) = {}
         /\ IsFiniteSet(Slice(operation, a, b, length))
<1>1. /\ Numbers(operation, a, c) = Numbers(operation, a, b) \cup Numbers(operation, b, c)
      /\ IsFiniteSet(Numbers(operation, a, b))
  BY NumbersJoin
<1>2. Slice(operation, a, c, length) = Slice(operation, a, b, length) \cup Slice(operation, b, c, length)
  BY <1>1 DEF Slice
<1>3. Slice(operation, a, b, length) \cap Slice(operation, b, c, length) = {}
  BY ElementsDiffer DEF Slice
<1>4. IsFiniteSet(Slice(operation, a, b, length))
  <2> DEFINE f == [n \in Numbers(operation, a, b) |-> Element(operation, n, length)]
  <2>1. Slice(operation, a, b, length) = {f[n] : n \in Numbers(operation, a, b)}
    BY DEF Slice
  <2>2. f \in Surjection(Numbers(operation, a, b), Slice(operation, a, b, length))
    BY <2>1 DEF Surjection
  <2> QED
    BY <1>1, <2>2, FS_Surjection
<1> QED
  BY <1>2, <1>3, <1>4

(* The definition of an operation.                                         *)
LEMMA DefinedFacts ==
  ASSUME NEW operation \in AllOperations, NEW length \in Nat
  PROVE  Defined(operation, length)
           = Begun(operation, length) \cup Slice(operation, 0, length, length)
<1>1. CASE operation = "Invert"
  BY <1>1 DEF Defined, Begun, Slice, Numbers, Element
<1>2. CASE operation = "Pack8_LSB"
  BY <1>2 DEF Defined, Begun, Slice, Numbers, Element, MsbFirst, BitNumber
<1>3. CASE operation = "Pack8_MSB"
  BY <1>3 DEF Defined, Begun, Slice, Numbers, Element, MsbFirst, BitNumber
<1>4. CASE operation = "Unpack8_LSB"
  BY <1>4 DEF Defined, Begun, Slice, Numbers, Element, MsbFirst, BitNumber
<1>5. CASE operation = "Unpack8_MSB"
  BY <1>5 DEF Defined, Begun, Slice, Numbers, Element, MsbFirst, BitNumber
<1>6. CASE operation = "MapQPSK"
  BY <1>6 DEF Defined, Begun, Slice, Numbers, Element, Soft
<1>7. CASE operation = "PowerSpectrum"
  BY <1>7 DEF Defined, Begun, Slice, Numbers, Element
<1>8. CASE operation = "DotProd"
  <2>1. ASSUME NEW t
        PROVE  t \in Slice(operation, 0, length, length)
                 <=> \E part \in {Re, Im}, n \in 0 .. length - 1 : t = <<part, 2 * n + part, n>>
    <3>1. t \in Slice(operation, 0, length, length)
            <=> \E both \in {Re, Im} \X (0 .. length - 1) : t = <<both[1], 2 * both[2] + both[1], both[2]>>
      BY <1>8 DEF Slice, Numbers, Element
    <3>2. \A both \in {Re, Im} \X (0 .. length - 1) :
            both[1] \in {Re, Im} /\ both[2] \in 0 .. length - 1
      OBVIOUS
    <3>3. \A part \in {Re, Im}, n \in 0 .. length - 1 :
            /\ <<part, n>> \in {Re, Im} \X (0 .. length - 1)
            /\ <<part, n>>[1] = part /\ <<part, n>>[2] = n
      OBVIOUS
    <3> QED
      BY <3>1, <3>2, <3>3
  <2>2. Defined(operation, length) = {<<part, 2 * n + part, n>> : part \in {Re, Im}, n \in 0 .. length - 1}
    BY <1>8 DEF Defined
  <2>3. Begun(operation, length) = {}
    BY <1>8 DEF Begun
  <2> QED
    BY <2>1, <2>2, <2>3
<1>9. CASE operation = "DotProdSymmetric"
  <2>1. ASSUME NEW t
        PROVE  t \in Slice(operation, 0, length, length)
                 <=> \E part \in {Re, Im}, n \in 0 .. length - 1 :
                       t = <<part, <<2 * n + part, 2 * (2 * length - n) + part>>, n>>
    <3>1. t \in Slice(operation, 0, length, length)
            <=> \E both \in {Re, Im} \X (0 .. length - 1) :
                  t = <<both[1], <<2 * both[2] + both[1], 2 * (2 * length - both[2]) + both[1]>>, both[2]>>
      BY <1>9 DEF Slice, Numbers, Element
    <3>2. \A both \in {Re, Im} \X (0 .. length - 1) :
            both[1] \in {Re, Im} /\ both[2] \in 0 .. length - 1
      OBVIOUS
    <3>3. \A part \in {Re, Im}, n \in 0 .. length - 1 :
            /\ <<part, n>> \in {Re, Im} \X (0 .. length - 1)
            /\ <<part, n>>[1] = part /\ <<part, n>>[2] = n
      OBVIOUS
    <3> QED
      BY <3>1, <3>2, <3>3, Zenon
  <2>2. Defined(operation, length)
          = Centre(length)
            \cup {<<part, <<2 * n + part, 2 * (2 * length - n) + part>>, n>> :
                     part \in {Re, Im}, n \in 0 .. length - 1}
    BY <1>9 DEF Defined, Centre
  <2>3. Begun(operation, length) = Centre(length)
    BY <1>9 DEF Begun
  <2> QED
    BY <2>1, <2>2, <2>3
<1> QED
  BY <1>1, <1>2, <1>3, <1>4, <1>5, <1>6, <1>7, <1>8, <1>9 DEF AllOperations

-----------------------------------------------------------------------------
(* What iterations store.                                                  *)
HoldsElements(register, lanes, operation, base, length) ==
  /\ DOMAIN register = 0 .. lanes - 1
  /\ \A lane \in 0 .. lanes - 1 :
       <<base + lane, register[lane]>> = Element(operation, base + lane, length)

ElementsFrom(operation, base, lanes, length) ==
  {Element(operation, n, length) : n \in base .. base + lanes - 1}

LEMMA StoredIsSlice ==
  ASSUME NEW operation, NEW length, NEW base \in Nat, NEW lanes \in Nat, NEW register,
         HoldsElements(register, lanes, operation, base, length)
  PROVE  StoredAt(base, register) = ElementsFrom(operation, base, lanes, length)
<1>1. \A lane \in 0 .. lanes - 1 : base + lane \in base .. base + lanes - 1
  OBVIOUS
<1>2. \A n \in base .. base + lanes - 1 : n - base \in 0 .. lanes - 1 /\ base + (n - base) = n
  OBVIOUS
<1>3. StoredAt(base, register) = {<<base + lane, register[lane]>> : lane \in 0 .. lanes - 1}
  BY DEF StoredAt, HoldsElements
<1>4. ASSUME NEW t
      PROVE  t \in StoredAt(base, register)
               <=> \E n \in base .. base + lanes - 1 : t = Element(operation, n, length)
  <2>1. t \in StoredAt(base, register)
          <=> \E lane \in 0 .. lanes - 1 : t = Element(operation, base + lane, length)
    BY <1>3 DEF HoldsElements
  <2> QED
    BY <1>1, <1>2, <2>1
<1> QED
  BY <1>4 DEF ElementsFrom

LEMMA InvertIteration ==
  ASSUME NEW i \in Nat, NEW width \in Nat, NEW length
  PROVE  StoredAt(i, Loaded(i, width)) = Slice("Invert", i, i + width, length)
<1>1. DOMAIN Loaded(i, width) = 0 .. width - 1
  BY DEF Loaded
<1>2. \A lane \in 0 .. width - 1 : <<i + lane, Loaded(i, width)[lane]>> = Element("Invert", i + lane, length)
  BY DEF Loaded, Element
<1>3. HoldsElements(Loaded(i, width), width, "Invert", i, length)
  BY <1>1, <1>2 DEF HoldsElements
<1>4. StoredAt(i, Loaded(i, width)) = ElementsFrom("Invert", i, width, length)
  BY <1>3, StoredIsSlice
<1> QED
  BY <1>4 DEF ElementsFrom, Slice, Numbers

-----------------------------------------------------------------------------
(* Packing.                                                                *)
Packs == {"Pack8_LSB", "Pack8_MSB"}

LEMMA PackedScalarIteration ==
  ASSUME NEW operation \in Packs, NEW i \in Nat, NEW length
  PROVE  PackedScalar(i, MsbFirst(operation)) = Slice(operation, i, i + 1, length)
<1>1. Numbers(operation, i, i + 1) = {i}
  BY DEF Numbers, Packs
<1>2. Element(operation, i, length)
        = <<i, [bit \in 0 .. 7 |-> 8 * i + BitNumber(bit, MsbFirst(operation))]>>
  BY DEF Element, Packs
<1>3. [bit \in 0 .. 7 |-> IF MsbFirst(operation) THEN 8 * i + (7 - bit) ELSE 8 * i + bit]
        = [bit \in 0 .. 7 |-> 8 * i + BitNumber(bit, MsbFirst(operation))]
  BY DEF BitNumber
<1> QED
  BY <1>1, <1>2, <1>3 DEF PackedScalar, Slice

(* Reversed within each byte.                                              *)
IsReversed(register, i, lanes) ==
  \A lane \in 0 .. lanes - 1 : register[lane] = 8 * i + (lane - (lane % 8)) + (7 - (lane % 8))

LEMMA BytesReversedFacts ==
  ASSUME NEW i \in Nat, NEW width \in {4, 8}
  PROVE  IsReversed(BytesReversed(Loaded(8 * i, 8 * width)), i, 8 * width)
<1> DEFINE list == <<7, 6, 5, 4, 3, 2, 1, 0, 15, 14, 13, 12, 11, 10, 9, 8>>
           bits == Loaded(8 * i, 8 * width)
<1>1. Len(list) = 16
  OBVIOUS
<1>2. /\ list[1] = 7 /\ list[2] = 6 /\ list[3] = 5 /\ list[4] = 4
      /\ list[5] = 3 /\ list[6] = 2 /\ list[7] = 1 /\ list[8] = 0
      /\ list[9] = 15 /\ list[10] = 14 /\ list[11] = 13 /\ list[12] = 12
      /\ list[13] = 11 /\ list[14] = 10 /\ list[15] = 9 /\ list[16] = 8
  OBVIOUS
<1> HIDE DEF list
<1>3. \A place \in 0 .. 15 : list[place + 1] = (place - (place % 8)) + (7 - (place % 8))
  BY <1>2
<1>4. DOMAIN bits = 0 .. 8 * width - 1 /\ \A lane \in 0 .. 8 * width - 1 : bits[lane] = 8 * i + lane
  BY DEF Loaded
<1>5. BytesReversed(bits) = PermutedBlocks(bits, list)
  BY DEF BytesReversed, list
<1> HIDE DEF bits
<1>6. ASSUME NEW lane \in 0 .. 8 * width - 1
      PROVE  BytesReversed(bits)[lane] = 8 * i + (lane - (lane % 8)) + (7 - (lane % 8))
  <2> DEFINE place == lane % 16
  <2>1. /\ place \in 0 .. 15 /\ place % 8 = lane % 8 /\ lane - place \in 0 .. 8 * width - 1
        /\ lane - place + list[place + 1] = (lane - (lane % 8)) + (7 - (lane % 8))
        /\ (lane - (lane % 8)) + (7 - (lane % 8)) \in 0 .. 8 * width - 1
    <3>1. place \in 0 .. 15 /\ place % 8 = lane % 8
      OBVIOUS
    <3>2. list[place + 1] = (place - (place % 8)) + (7 - (place % 8))
      BY <1>3, <3>1
    <3> QED
      BY <3>1, <3>2
  <2>2. BytesReversed(bits)[lane] = bits[lane - place + list[place + 1]]
    BY <1>1, <1>4, <1>5 DEF PermutedBlocks
  <2> HIDE DEF place
  <2> QED
    BY <1>4, <2>1, <2>2
<1> QED
  BY <1>6 DEF IsReversed, bits

LEMMA WordsSwappedFacts ==
  ASSUME NEW i \in Nat
  PROVE  IsReversed(WordsSwapped(Loaded(8 * i, 16)), i, 16)
<1> DEFINE words == <<6, 7, 4, 5, 2, 3, 0, 1>>
           bytes == <<1, 0>>
           bits == Loaded(8 * i, 16)
           turned == PermutedBlocks(bits, words)
<1>1. Len(words) = 8 /\ Len(bytes) = 2
  OBVIOUS
<1>2. /\ words[1] = 6 /\ words[2] = 7 /\ words[3] = 4 /\ words[4] = 5
      /\ words[5] = 2 /\ words[6] = 3 /\ words[7] = 0 /\ words[8] = 1
      /\ bytes[1] = 1 /\ bytes[2] = 0
  OBVIOUS
<1> HIDE DEF words, bytes
<1>3. \A place \in 0 .. 7 : words[place + 1] = 6 - (place - (place % 2)) + (place % 2)
  BY <1>2
<1>4. DOMAIN bits = 0 .. 15 /\ \A lane \in 0 .. 15 : bits[lane] = 8 * i + lane
  BY DEF Loaded
<1> HIDE DEF bits
<1>5. DOMAIN turned = 0 .. 15 /\ \A lane \in 0 .. 15 :
        turned[lane] = 8 * i + (lane - (lane % 8)) + 6 - ((lane % 8) - (lane % 2)) + (lane % 2)
  <2>1. ASSUME NEW lane \in 0 .. 15
        PROVE  turned[lane] = 8 * i + (lane - (lane % 8)) + 6 - ((lane % 8) - (lane % 2)) + (lane % 2)
    <3> DEFINE place == lane % 8
    <3>1. place \in 0 .. 7 /\ place % 2 = lane % 2
      OBVIOUS
    <3>2. turned[lane] = bits[lane - place + words[place + 1]]
      BY <1>1, <1>4 DEF PermutedBlocks
    <3>3. words[place + 1] = 6 - (place - (lane % 2)) + (lane % 2)
      BY <1>3, <3>1
    <3>4. lane - place + words[place + 1] \in 0 .. 15
      BY <3>1, <3>3
    <3>5. turned[lane] = 8 * i + (lane - place + words[place + 1])
      BY <1>4, <3>2, <3>4
    <3> QED
      BY <3>1, <3>3, <3>5
  <2>2. DOMAIN turned = 0 .. 15
    BY <1>4 DEF PermutedBlocks
  <2> QED
    BY <2>1, <2>2
<1>6. WordsSwapped(bits) = PermutedBlocks(turned, bytes)
  BY DEF WordsSwapped, words, bytes
<1> HIDE DEF turned
<1>7. ASSUME NEW lane \in 0 .. 15
      PROVE  WordsSwapped(bits)[lane] = 8 * i + (lane - (lane % 8)) + (7 - (lane % 8))
  <2>1. WordsSwapped(bits)[lane] = turned[lane - (lane % 2) + bytes[(lane % 2) + 1]]
    BY <1>1, <1>5, <1>6 DEF PermutedBlocks
  <2>2. CASE lane % 2 = 0
    <3>1. lane - (lane % 2) + bytes[(lane % 2) + 1] = lane + 1 /\ lane + 1 \in 0 .. 15
          /\ (lane + 1) % 2 = 1 /\ (lane + 1) % 8 = (lane % 8) + 1
      BY <1>2, <2>2
    <3> QED
      BY <1>5, <2>1, <3>1
  <2>3. CASE lane % 2 = 1
    <3>1. lane - (lane % 2) + bytes[(lane % 2) + 1] = lane - 1 /\ lane - 1 \in 0 .. 15
          /\ (lane - 1) % 2 = 0 /\ (lane - 1) % 8 = (lane % 8) - 1
      BY <1>2, <2>3
    <3> QED
      BY <1>5, <2>1, <3>1
  <2> QED
    BY <2>2, <2>3
<1> QED
  BY <1>7 DEF IsReversed, bits

LEMMA PackedVectorIteration ==
  ASSUME NEW operation \in Packs, NEW i \in Nat, NEW length, NEW backend,
         NEW width \in {2, 4, 8},
         operation = "Pack8_MSB" => (backend = "sse2" <=> width = 2)
  PROVE  PackedVector(i, width, backend, MsbFirst(operation)) = Slice(operation, i, i + width, length)
<1> DEFINE bits == Loaded(8 * i, 8 * width)
           msb == MsbFirst(operation)
           register == IF ~msb THEN bits
                       ELSE IF backend = "sse2" THEN WordsSwapped(bits) ELSE BytesReversed(bits)
           bytes == MaskBytes(register, width)
<1>1. PackedVector(i, width, backend, msb) = StoredAt(i, bytes)
  BY DEF PackedVector
<1>2. msb <=> operation = "Pack8_MSB"
  BY DEF MsbFirst, Packs
<1>3. \A lane \in 0 .. 8 * width - 1 :
        register[lane] = 8 * i + (lane - (lane % 8)) + BitNumber(lane % 8, msb)
  <2>1. CASE msb
    <3>1. IsReversed(register, i, 8 * width)
      <4>1. CASE width = 2
        BY <1>2, <2>1, <4>1, WordsSwappedFacts
      <4>2. CASE width # 2
        <5>1. width \in {4, 8} /\ register = BytesReversed(bits)
          BY <1>2, <2>1, <4>2
        <5> QED
          BY <5>1, BytesReversedFacts
      <4> QED
        BY <4>1, <4>2
    <3> HIDE DEF register, msb
    <3> QED
      BY <2>1, <3>1 DEF IsReversed, BitNumber
  <2>2. CASE ~msb
    <3>1. register = bits
      BY <2>2
    <3>2. \A lane \in 0 .. 8 * width - 1 : bits[lane] = 8 * i + lane
      BY DEF Loaded
    <3> HIDE DEF register, msb, bits
    <3> QED
      BY <2>2, <3>1, <3>2 DEF BitNumber
  <2> QED
    BY <2>1, <2>2
<1> HIDE DEF register
<1>4. ASSUME NEW byte \in 0 .. width - 1
      PROVE  <<i + byte, bytes[byte]>> = Element(operation, i + byte, length)
  <2>1. bytes[byte] = [bit \in 0 .. 7 |-> register[8 * byte + bit]]
    BY DEF MaskBytes
  <2>2. ASSUME NEW bit \in 0 .. 7
        PROVE  register[8 * byte + bit] = 8 * (i + byte) + BitNumber(bit, msb)
    <3>1. /\ 8 * byte + bit \in 0 .. 8 * width - 1 /\ (8 * byte + bit) % 8 = bit
          /\ BitNumber(bit, msb) \in Int
      BY DEF BitNumber
    <3> HIDE DEF msb
    <3>2. register[8 * byte + bit] = 8 * i + ((8 * byte + bit) - bit) + BitNumber(bit, msb)
      BY <1>3, <3>1
    <3> QED
      BY <3>1, <3>2
  <2>3. Element(operation, i + byte, length)
          = <<i + byte, [bit \in 0 .. 7 |-> 8 * (i + byte) + BitNumber(bit, msb)]>>
    BY DEF Element, Packs
  <2> HIDE DEF msb, bytes
  <2> QED
    BY <2>1, <2>2, <2>3
<1>5. DOMAIN bytes = 0 .. width - 1
  BY DEF MaskBytes
<1> HIDE DEF bytes
<1>6. StoredAt(i, bytes) = ElementsFrom(operation, i, width, length)
  <2>1. HoldsElements(bytes, width, operation, i, length) /\ width \in Nat
    BY <1>4, <1>5 DEF HoldsElements
  <2> QED
    BY <2>1, StoredIsSlice
<1>7. Numbers(operation, i, i + width) = i .. i + width - 1
  BY DEF Numbers, Packs
<1> QED
  BY <1>1, <1>6, <1>7 DEF Slice, ElementsFrom

-----------------------------------------------------------------------------
(* Unpacking.                                                              *)
Unpacks == {"Unpack8_LSB", "Unpack8_MSB"}

(* An unpacked bit is one of its byte's.                                   *)
LEMMA UnpackedElement ==
  ASSUME NEW operation \in Unpacks, NEW length, NEW m \in Nat, NEW k \in 0 .. 7
  PROVE  Element(operation, 8 * m + k, length) = <<8 * m + k, <<m, BitOf(k, MsbFirst(operation))>>>>
<1>1. (8 * m + k) \div 8 = m /\ (8 * m + k) % 8 = k /\ k % 8 = k
  OBVIOUS
<1> QED
  BY <1>1 DEF Element, BitOf, BitNumber, Unpacks

LEMMA UnpackedScalarIteration ==
  ASSUME NEW operation \in Unpacks, NEW i \in Nat, NEW length
  PROVE  UnpackedScalar(i, MsbFirst(operation)) = Slice(operation, i, i + 1, length)
<1>1. Numbers(operation, i, i + 1) = 8 * i .. 8 * (i + 1) - 1
  BY DEF Numbers, Unpacks
<1>2. \A k \in 0 .. 7 : /\ 8 * i + k \in 8 * i .. 8 * (i + 1) - 1
                        /\ <<8 * i + k, <<i, BitOf(k, MsbFirst(operation))>>>>
                             = Element(operation, 8 * i + k, length)
  <2> TAKE k \in 0 .. 7
  <2>1. 8 * i + k \in 8 * i .. 8 * (i + 1) - 1
    OBVIOUS
  <2>2. Element(operation, 8 * i + k, length) = <<8 * i + k, <<i, BitOf(k, MsbFirst(operation))>>>>
    BY UnpackedElement, Zenon
  <2> QED
    BY <2>1, <2>2
<1>3. \A n \in 8 * i .. 8 * (i + 1) - 1 : n - 8 * i \in 0 .. 7 /\ 8 * i + (n - 8 * i) = n
  OBVIOUS
<1>4. ASSUME NEW t
      PROVE  t \in UnpackedScalar(i, MsbFirst(operation))
               <=> \E n \in 8 * i .. 8 * (i + 1) - 1 : t = Element(operation, n, length)
  <2>1. t \in UnpackedScalar(i, MsbFirst(operation))
          <=> \E k \in 0 .. 7 : t = Element(operation, 8 * i + k, length)
    BY <1>2 DEF UnpackedScalar
  <2> QED
    BY <1>2, <1>3, <2>1
<1> QED
  BY <1>1, <1>4 DEF Slice

(* Lanes of which every eight come from one byte.                          *)
FromBytes(bytes, lanes, first) ==
  /\ DOMAIN bytes = 0 .. lanes - 1
  /\ \A lane \in 0 .. lanes - 1 : bytes[lane] = first + (lane \div 8)

LEMMA BitsStored ==
  ASSUME NEW operation \in Unpacks, NEW length, NEW first \in Nat, NEW lanes \in Nat,
         NEW bytes, FromBytes(bytes, lanes, first)
  PROVE  StoredAt(8 * first, BitsTested(bytes, MsbFirst(operation)))
           = ElementsFrom(operation, 8 * first, lanes, length)
<1> DEFINE register == BitsTested(bytes, MsbFirst(operation))
<1>1. DOMAIN register = 0 .. lanes - 1
  BY DEF FromBytes, BitsTested
<1>2. ASSUME NEW lane \in 0 .. lanes - 1
      PROVE  <<8 * first + lane, register[lane]>> = Element(operation, 8 * first + lane, length)
  <2> DEFINE m == first + (lane \div 8)
             k == lane % 8
  <2>1. m \in Nat /\ k \in 0 .. 7 /\ 8 * first + lane = 8 * m + k
    OBVIOUS
  <2>2. register[lane] = <<m, BitOf(lane, MsbFirst(operation))>>
    BY DEF FromBytes, BitsTested
  <2>3. BitOf(lane, MsbFirst(operation)) = BitOf(k, MsbFirst(operation))
    <3>1. k % 8 = lane % 8
      OBVIOUS
    <3> HIDE DEF k
    <3> QED
      BY <3>1 DEF BitOf
  <2> HIDE DEF m, k, register
  <2>4. Element(operation, 8 * m + k, length)
          = <<8 * m + k, <<m, BitOf(k, MsbFirst(operation))>>>>
    BY <2>1, UnpackedElement, Zenon
  <2> QED
    BY <2>1, <2>2, <2>3, <2>4, Zenon
<1>3. HoldsElements(register, lanes, operation, 8 * first, length)
  BY <1>1, <1>2 DEF HoldsElements
<1> HIDE DEF register
<1>4. 8 * first \in Nat
  OBVIOUS
<1>5. StoredAt(8 * first, register) = ElementsFrom(operation, 8 * first, lanes, length)
  BY <1>3, <1>4, StoredIsSlice
<1> QED
  BY <1>5 DEF register

LEMMA UnpackedSse2Iteration ==
  ASSUME NEW operation \in Unpacks, NEW i \in Nat, NEW length
  PROVE  UnpackedSse2(i, MsbFirst(operation)) = Slice(operation, i, i + 8, length)
<1> DEFINE msb == MsbFirst(operation)
           bytes == Loaded(i, 16)
           pairs == Interleaved(bytes, bytes, 0, 1)
           low == Interleaved(pairs, pairs, 0, 2)
           high == Interleaved(pairs, pairs, 8, 2)
           a == Interleaved(low, low, 0, 4)
           b == Interleaved(low, low, 8, 4)
           c == Interleaved(high, high, 0, 4)
           d == Interleaved(high, high, 8, 4)
           Quarter(n) == ElementsFrom(operation, 8 * (i + 2 * n), 16, length)
<1>1. DOMAIN bytes = 0 .. 15 /\ \A lane \in 0 .. 15 : bytes[lane] = i + lane
  BY DEF Loaded
<1> HIDE DEF bytes
<1>2. DOMAIN pairs = 0 .. 15 /\ \A lane \in 0 .. 15 : pairs[lane] = i + (lane \div 2)
  <2>1. ASSUME NEW lane \in 0 .. 15
        PROVE  pairs[lane] = i + (lane \div 2)
    <3>1. 0 + ((lane \div 1) \div 2) * 1 + (lane % 1) = lane \div 2 /\ lane \div 2 \in 0 .. 15
      OBVIOUS
    <3> QED
      BY <1>1, <3>1 DEF Interleaved
  <2> QED
    BY <1>1, <2>1 DEF Interleaved
<1> HIDE DEF pairs
<1>3. /\ DOMAIN low = 0 .. 15 /\ \A lane \in 0 .. 15 : low[lane] = i + (lane \div 4)
      /\ DOMAIN high = 0 .. 15 /\ \A lane \in 0 .. 15 : high[lane] = i + 4 + (lane \div 4)
  <2>1. ASSUME NEW lane \in 0 .. 15
        PROVE  low[lane] = i + (lane \div 4) /\ high[lane] = i + 4 + (lane \div 4)
    <3> DEFINE from == ((lane \div 2) \div 2) * 2 + (lane % 2)
    <3>1. /\ 0 + from \in 0 .. 15 /\ (0 + from) \div 2 = lane \div 4
          /\ 8 + from \in 0 .. 15 /\ (8 + from) \div 2 = 4 + (lane \div 4)
      OBVIOUS
    <3>2. low[lane] = pairs[0 + from] /\ high[lane] = pairs[8 + from]
      BY <1>2 DEF Interleaved
    <3> HIDE DEF from, low, high
    <3> QED
      BY <1>2, <3>1, <3>2
  <2>2. DOMAIN low = 0 .. 15 /\ DOMAIN high = 0 .. 15
    BY <1>2 DEF Interleaved
  <2> HIDE DEF low, high
  <2> QED
    BY <2>1, <2>2
<1> HIDE DEF low, high
<1>4. /\ FromBytes(a, 16, i) /\ FromBytes(b, 16, i + 2)
      /\ FromBytes(c, 16, i + 4) /\ FromBytes(d, 16, i + 6)
  <2>1. ASSUME NEW lane \in 0 .. 15
        PROVE  /\ a[lane] = i + (lane \div 8) /\ b[lane] = i + 2 + (lane \div 8)
               /\ c[lane] = i + 4 + (lane \div 8) /\ d[lane] = i + 6 + (lane \div 8)
    <3> DEFINE from == ((lane \div 4) \div 2) * 4 + (lane % 4)
    <3>1. /\ 0 + from \in 0 .. 15 /\ (0 + from) \div 4 = lane \div 8
          /\ 8 + from \in 0 .. 15 /\ (8 + from) \div 4 = 2 + (lane \div 8)
      OBVIOUS
    <3>2. /\ a[lane] = low[0 + from] /\ b[lane] = low[8 + from]
          /\ c[lane] = high[0 + from] /\ d[lane] = high[8 + from]
      BY <1>3 DEF Interleaved
    <3> HIDE DEF from, a, b, c, d
    <3> QED
      BY <1>3, <3>1, <3>2
  <2>2. DOMAIN a = 0 .. 15 /\ DOMAIN b = 0 .. 15 /\ DOMAIN c = 0 .. 15 /\ DOMAIN d = 0 .. 15
    BY <1>3 DEF Interleaved
  <2> HIDE DEF a, b, c, d
  <2> QED
    BY <2>1, <2>2 DEF FromBytes
<1>5. UnpackedSse2(i, msb)
        = StoredAt(8 * i + 0, BitsTested(a, msb)) \cup StoredAt(8 * i + 16, BitsTested(b, msb))
          \cup StoredAt(8 * i + 32, BitsTested(c, msb)) \cup StoredAt(8 * i + 48, BitsTested(d, msb))
  BY DEF UnpackedSse2, low, high, pairs, bytes
<1> HIDE DEF a, b, c, d
<1>6. /\ StoredAt(8 * i, BitsTested(a, msb)) = Quarter(0)
      /\ StoredAt(8 * (i + 2), BitsTested(b, msb)) = Quarter(1)
      /\ StoredAt(8 * (i + 4), BitsTested(c, msb)) = Quarter(2)
      /\ StoredAt(8 * (i + 6), BitsTested(d, msb)) = Quarter(3)
  <2>1. ASSUME NEW n \in 0 .. 3, NEW register, FromBytes(register, 16, i + 2 * n)
        PROVE  StoredAt(8 * (i + 2 * n), BitsTested(register, msb)) = Quarter(n)
    <3>1. i + 2 * n \in Nat /\ 16 \in Nat
      OBVIOUS
    <3> QED
      BY <2>1, <3>1, BitsStored, Zenon
  <2>2. i + 2 * 0 = i /\ i + 2 * 1 = i + 2 /\ i + 2 * 2 = i + 4 /\ i + 2 * 3 = i + 6
    OBVIOUS
  <2> HIDE DEF Quarter
  <2>3. /\ 0 \in 0 .. 3 /\ 1 \in 0 .. 3 /\ 2 \in 0 .. 3 /\ 3 \in 0 .. 3
    OBVIOUS
  <2> QED
    BY <1>4, <2>1, <2>2, <2>3
<1>7. /\ 8 * i + 0 = 8 * i /\ 8 * i + 16 = 8 * (i + 2)
      /\ 8 * i + 32 = 8 * (i + 4) /\ 8 * i + 48 = 8 * (i + 6)
  OBVIOUS
<1>8. 8 * i .. 8 * (i + 8) - 1
        = (8 * (i + 2 * 0) .. 8 * (i + 2 * 0) + 16 - 1) \cup (8 * (i + 2 * 1) .. 8 * (i + 2 * 1) + 16 - 1)
          \cup (8 * (i + 2 * 2) .. 8 * (i + 2 * 2) + 16 - 1) \cup (8 * (i + 2 * 3) .. 8 * (i + 2 * 3) + 16 - 1)
  OBVIOUS
<1>9. Slice(operation, i, i + 8, length) = Quarter(0) \cup Quarter(1) \cup Quarter(2) \cup Quarter(3)
  <2>1. Slice(operation, i, i + 8, length)
          = {Element(operation, number, length) : number \in 8 * i .. 8 * (i + 8) - 1}
    BY DEF Slice, Numbers, Unpacks
  <2> QED
    BY <1>8, <2>1 DEF ElementsFrom
<1> HIDE DEF Quarter
<1> QED
  BY <1>5, <1>6, <1>7, <1>9

(* Four bytes at a time.                                                   *)
Rounds(operation, i, rounds, length) ==
  UNION {ElementsFrom(operation, 8 * (i + 4 * k), 32, length) : k \in 0 .. rounds - 1}

LEMMA UnpackedRounds ==
  ASSUME NEW operation \in Unpacks, NEW i \in Nat, NEW length, NEW rounds \in Nat
  PROVE  Slice(operation, i, i + 4 * rounds, length) = Rounds(operation, i, rounds, length)
<1>1. Slice(operation, i, i + 4 * rounds, length)
        = {Element(operation, n, length) : n \in 8 * i .. 8 * (i + 4 * rounds) - 1}
  BY DEF Slice, Numbers, Unpacks
<1>2. ASSUME NEW n
      PROVE  n \in 8 * i .. 8 * (i + 4 * rounds) - 1
               <=> \E k \in 0 .. rounds - 1 : n \in 8 * (i + 4 * k) .. 8 * (i + 4 * k) + 32 - 1
  <2>1. ASSUME n \in 8 * i .. 8 * (i + 4 * rounds) - 1
        PROVE  \E k \in 0 .. rounds - 1 : n \in 8 * (i + 4 * k) .. 8 * (i + 4 * k) + 32 - 1
    <3> DEFINE k == (n - 8 * i) \div 32
    <3>1. k \in 0 .. rounds - 1 /\ n \in 8 * (i + 4 * k) .. 8 * (i + 4 * k) + 32 - 1
      BY <2>1
    <3> HIDE DEF k
    <3> QED
      BY <3>1
  <2>2. ASSUME NEW k \in 0 .. rounds - 1, n \in 8 * (i + 4 * k) .. 8 * (i + 4 * k) + 32 - 1
        PROVE  n \in 8 * i .. 8 * (i + 4 * rounds) - 1
    BY <2>2
  <2> QED
    BY <2>1, <2>2
<1> QED
  <2>1. ASSUME NEW t
        PROVE  t \in Slice(operation, i, i + 4 * rounds, length)
                 <=> \E k \in 0 .. rounds - 1 : t \in ElementsFrom(operation, 8 * (i + 4 * k), 32, length)
    BY <1>1, <1>2 DEF ElementsFrom
  <2> QED
    BY <2>1 DEF Rounds

LEMMA UnpackedAvx2Iteration ==
  ASSUME NEW operation \in Unpacks, NEW i \in Nat, NEW length, NEW width \in {4, 8, 16}
  PROVE  UnpackedAvx2(i, width, MsbFirst(operation)) = Slice(operation, i, i + width, length)
<1> DEFINE msb == MsbFirst(operation)
           bytes == Loaded(i, width)
           Spread(k) == [lane \in 0 .. 31 |-> bytes[4 * k + (lane \div 8)]]
           rounds == width \div 4
<1>1. rounds \in Nat /\ 4 * rounds = width
  OBVIOUS
<1>2. ASSUME NEW k \in 0 .. rounds - 1
      PROVE  StoredAt(8 * i + 32 * k, BitsTested(Spread(k), msb))
               = ElementsFrom(operation, 8 * (i + 4 * k), 32, length)
  <2>1. FromBytes(Spread(k), 32, i + 4 * k)
    <3>1. ASSUME NEW lane \in 0 .. 31
          PROVE  Spread(k)[lane] = (i + 4 * k) + (lane \div 8)
      <4>1. 4 * k + (lane \div 8) \in 0 .. width - 1
        BY <1>1
      <4> QED
        BY <1>1, <4>1 DEF Loaded
    <3>2. DOMAIN Spread(k) = 0 .. 31
      OBVIOUS
    <3> HIDE DEF Spread
    <3> QED
      BY <3>1, <3>2 DEF FromBytes
  <2>2. /\ i + 4 * k \in Nat /\ 32 \in Nat
        /\ 8 * i + 32 * k = 8 * (i + 4 * k)
    BY <1>1
  <2> HIDE DEF Spread
  <2>3. StoredAt(8 * (i + 4 * k), BitsTested(Spread(k), msb)) = ElementsFrom(operation, 8 * (i + 4 * k), 32, length)
    BY <2>1, <2>2, BitsStored, Zenon
  <2> QED
    BY <2>2, <2>3
<1>3. UnpackedAvx2(i, width, msb)
        = UNION {StoredAt(8 * i + 32 * k, BitsTested(Spread(k), msb)) : k \in 0 .. rounds - 1}
  BY DEF UnpackedAvx2
<1> HIDE DEF Spread, rounds
<1>4. UnpackedAvx2(i, width, msb) = Slice(operation, i, i + 4 * rounds, length)
  <2>1. Slice(operation, i, i + 4 * rounds, length) = Rounds(operation, i, rounds, length)
    BY <1>1, UnpackedRounds
  <2> QED
    BY <1>2, <1>3, <2>1 DEF Rounds
<1> QED
  BY <1>1, <1>4

LEMMA UnpackedAvx512Iteration ==
  ASSUME NEW i \in Nat, NEW length
  PROVE  UnpackedAvx512(i) = Slice("Unpack8_LSB", i, i + 8, length)
<1> DEFINE bytes == [lane \in 0 .. 63 |-> i + (lane \div 8)]
<1>1. FromBytes(bytes, 64, i)
  BY DEF FromBytes
<1>2. MsbFirst("Unpack8_LSB") = FALSE /\ "Unpack8_LSB" \in Unpacks
  BY DEF MsbFirst, Unpacks
<1>3. BitsTested(bytes, FALSE) = [lane \in 0 .. 63 |-> <<i + (lane \div 8), lane % 8>>]
  BY DEF BitsTested, BitOf
<1> HIDE DEF bytes
<1>4. StoredAt(8 * i, BitsTested(bytes, FALSE))
        = ElementsFrom("Unpack8_LSB", 8 * i, 64, length)
  <2>1. 64 \in Nat
    OBVIOUS
  <2>2. StoredAt(8 * i, BitsTested(bytes, MsbFirst("Unpack8_LSB"))) = ElementsFrom("Unpack8_LSB", 8 * i, 64, length)
    BY <1>1, <1>2, <2>1, BitsStored, Zenon
  <2> QED
    BY <1>2, <2>2, Zenon
<1>5. Numbers("Unpack8_LSB", i, i + 8) = 8 * i .. 8 * i + 64 - 1
  BY DEF Numbers
<1> QED
  BY <1>3, <1>4, <1>5 DEF UnpackedAvx512, Slice, ElementsFrom

-----------------------------------------------------------------------------
(* Mapping.                                                                *)
LEMMA SoftInputType == \A n \in Nat : SoftInput(n) \in Int \cup {NaN}
<1> DEFINE list == SoftInputs
<1>1. Len(list) = 17
  BY DEF SoftInputs
<1>2. \A k \in 1 .. 17 : list[k] \in Int \cup {NaN}
  BY DEF SoftInputs
<1> HIDE DEF list
<1> TAKE n \in Nat
<1>3. (n % 17) + 1 \in 1 .. 17
  OBVIOUS
<1>4. SoftInput(n) = list[(n % 17) + 1]
  BY <1>1 DEF SoftInput, list
<1> QED
  BY <1>2, <1>3, <1>4

(* Limiting before rounding is limiting after it.                          *)
LEMMA SoftBitsAgree ==
  \A s \in Int \cup {NaN} : SoftScalar(s) = Soft(s) /\ SoftVector(s) = Soft(s)
<1> TAKE s \in Int \cup {NaN}
<1>1. CASE s = NaN
  <2>1. Rounded(256) = 128
    BY DEF Rounded
  <2>2. AtLeast(0, AtMost(255, AtMost(32767, 128))) = 128
    BY DEF AtLeast, AtMost
  <2>3. SoftVector(s) = AtLeast(0, AtMost(255, AtMost(32767, Rounded(256))))
    BY <1>1 DEF SoftVector
  <2> QED
    BY <1>1, <2>1, <2>2, <2>3 DEF SoftScalar, Soft
<1>2. CASE s # NaN
  <2>1. s \in Int
    BY <1>2
  <2>2. Soft(s) = AtLeast(0, AtMost(255, Rounded(s)))
    BY <1>2 DEF Soft
  <2>3. SoftScalar(s) = IF s <= 0 THEN 0 ELSE IF s >= 510 THEN 255 ELSE Rounded(s)
    BY <1>2 DEF SoftScalar
  <2>4. SoftVector(s) = AtLeast(0, AtMost(255, AtMost(32767, Rounded(AtMost(510, AtLeast(0, s))))))
    BY <1>2 DEF SoftVector
  <2>5. /\ Rounded(s) \in Int /\ (s <= 0 => Rounded(s) <= 0) /\ (s >= 510 => Rounded(s) >= 255)
        /\ (s \in 0 .. 510 => Rounded(s) \in 0 .. 255)
    BY <2>1 DEF Rounded
  <2>6. Rounded(0) = 0 /\ Rounded(510) = 255
    BY DEF Rounded
  <2>7. CASE s <= 0
    <3>1. AtMost(510, AtLeast(0, s)) = 0
      BY <2>1, <2>7 DEF AtMost, AtLeast
    <3> QED
      BY <2>1, <2>2, <2>3, <2>4, <2>5, <2>6, <2>7, <3>1 DEF AtMost, AtLeast
  <2>8. CASE s >= 510
    <3>1. AtMost(510, AtLeast(0, s)) = 510
      BY <2>1, <2>8 DEF AtMost, AtLeast
    <3> QED
      BY <2>1, <2>2, <2>3, <2>4, <2>5, <2>6, <2>8, <3>1 DEF AtMost, AtLeast
  <2>9. CASE s > 0 /\ s < 510
    <3>1. AtMost(510, AtLeast(0, s)) = s
      BY <2>1, <2>9 DEF AtMost, AtLeast
    <3> QED
      BY <2>1, <2>2, <2>3, <2>4, <2>5, <2>9, <3>1 DEF AtMost, AtLeast
  <2> QED
    BY <2>1, <2>7, <2>8, <2>9
<1> QED
  BY <1>1, <1>2

(* Lanes that hold the inputs from one on.                                 *)
Consecutive(register, lanes, first) ==
  /\ DOMAIN register = 0 .. lanes - 1
  /\ \A lane \in 0 .. lanes - 1 : register[lane] = first + lane

LEMMA SoftLanesHold ==
  ASSUME NEW register, NEW lanes \in Nat, NEW first \in Nat, NEW length,
         Consecutive(register, lanes, first)
  PROVE  HoldsElements(SoftLanes(register), lanes, "MapQPSK", first, length)
<1>1. DOMAIN SoftLanes(register) = 0 .. lanes - 1
  BY DEF SoftLanes, Consecutive
<1>2. ASSUME NEW lane \in 0 .. lanes - 1
      PROVE  <<first + lane, SoftLanes(register)[lane]>> = Element("MapQPSK", first + lane, length)
  <2>1. SoftLanes(register)[lane] = <<first + lane, SoftVector(SoftInput(first + lane))>>
    BY DEF SoftLanes, Consecutive
  <2>2. first + lane \in Nat
    OBVIOUS
  <2>3. SoftVector(SoftInput(first + lane)) = Soft(SoftInput(first + lane))
    BY <2>2, SoftInputType, SoftBitsAgree
  <2> QED
    BY <2>1, <2>3 DEF Element
<1> QED
  BY <1>1, <1>2 DEF HoldsElements

LEMMA MapQPSKNumbers ==
  ASSUME NEW i \in Nat, NEW width \in Nat, NEW length
  PROVE  Slice("MapQPSK", i, i + width, length) = ElementsFrom("MapQPSK", 2 * i, 2 * width, length)
<1>1. 2 * (i + width) - 1 = 2 * i + 2 * width - 1
  OBVIOUS
<1>2. Numbers("MapQPSK", i, i + width) = 2 * i .. 2 * i + 2 * width - 1
  BY <1>1 DEF Numbers
<1> QED
  BY <1>2 DEF Slice, ElementsFrom

LEMMA MappedScalarIteration ==
  ASSUME NEW i \in Nat, NEW length
  PROVE  MappedScalar(i) = Slice("MapQPSK", i, i + 1, length)
<1>1. Numbers("MapQPSK", i, i + 1) = 2 * i .. 2 * i + 1
  BY DEF Numbers
<1>2. \A n \in 2 * i .. 2 * i + 1 : <<n, <<n, SoftScalar(SoftInput(n))>>>> = Element("MapQPSK", n, length)
  <2> TAKE n \in 2 * i .. 2 * i + 1
  <2>1. n \in Nat
    OBVIOUS
  <2>2. SoftScalar(SoftInput(n)) = Soft(SoftInput(n))
    BY <2>1, SoftInputType, SoftBitsAgree
  <2> QED
    BY <2>2 DEF Element
<1> QED
  BY <1>1, <1>2 DEF MappedScalar, Slice

LEMMA MappedSse2Iteration ==
  ASSUME NEW i \in Nat, NEW length
  PROVE  MappedSse2(i) = Slice("MapQPSK", i, i + 4, length)
<1> DEFINE a == Loaded(2 * i, 4)
           b == Loaded(2 * i + 4, 4)
           i_and_q == [lane \in 0 .. 7 |-> Halved(a, b, lane % 2)[lane \div 2]]
<1>1. Consecutive(i_and_q, 8, 2 * i)
  <2>1. ASSUME NEW lane \in 0 .. 7
        PROVE  i_and_q[lane] = 2 * i + lane
    <3>1. lane \div 2 \in 0 .. 3
      OBVIOUS
    <3>2. i_and_q[lane] = IF lane \div 2 < 2 THEN a[2 * (lane \div 2) + (lane % 2)]
                          ELSE b[2 * ((lane \div 2) - 2) + (lane % 2)]
      BY <3>1 DEF Halved
    <3>3. 2 * (lane \div 2) + (lane % 2) = lane /\ 2 * ((lane \div 2) - 2) + (lane % 2) = lane - 4
      OBVIOUS
    <3>4. /\ \A k \in 0 .. 3 : a[k] = 2 * i + k
          /\ \A k \in 0 .. 3 : b[k] = 2 * i + 4 + k
      BY DEF Loaded
    <3> HIDE DEF a, b, i_and_q
    <3>5. CASE lane < 4
      <4>1. lane \div 2 < 2 /\ lane \in 0 .. 3
        BY <3>5
      <4> QED
        BY <3>2, <3>3, <3>4, <4>1
    <3>6. CASE lane >= 4
      <4>1. ~(lane \div 2 < 2) /\ lane - 4 \in 0 .. 3
        BY <3>6
      <4> QED
        BY <3>2, <3>3, <3>4, <4>1
    <3> QED
      BY <3>5, <3>6
  <2>2. DOMAIN i_and_q = 0 .. 7
    OBVIOUS
  <2> HIDE DEF i_and_q
  <2> QED
    BY <2>1, <2>2 DEF Consecutive
<1>2. MappedSse2(i) = StoredAt(2 * i, SoftLanes(i_and_q))
  BY DEF MappedSse2
<1> HIDE DEF i_and_q
<1>3. 2 * i \in Nat /\ 8 \in Nat
  OBVIOUS
<1>4. HoldsElements(SoftLanes(i_and_q), 8, "MapQPSK", 2 * i, length)
  BY <1>1, <1>3, SoftLanesHold
<1>5. StoredAt(2 * i, SoftLanes(i_and_q)) = ElementsFrom("MapQPSK", 2 * i, 8, length)
  BY <1>3, <1>4, StoredIsSlice
<1>6. 2 * 4 = 8 /\ 4 \in Nat
  OBVIOUS
<1> QED
  BY <1>2, <1>5, <1>6, MapQPSKNumbers

(* Packing exchanges the middle quarters, which the last shuffle undoes.   *)
LEMMA MappedAvx2Iteration ==
  ASSUME NEW i \in Nat, NEW length
  PROVE  MappedAvx2(i) = Slice("MapQPSK", i, i + 8, length)
<1> DEFINE list == <<0, 1, 2, 3, 8, 9, 10, 11, 4, 5, 6, 7, 12, 13, 14, 15>>
           a == SoftLanes(Loaded(2 * i, 8))
           b == SoftLanes(Loaded(2 * i + 8, 8))
           joined == Joined(a, b)
           packed == Permuted(joined, list)
           restored == Permuted(packed, list)
<1>1. MappedAvx2(i) = StoredAt(2 * i, restored)
  BY DEF MappedAvx2
<1>2. Len(list) = 16
  OBVIOUS
<1>3. /\ list[1] = 0 /\ list[2] = 1 /\ list[3] = 2 /\ list[4] = 3
      /\ list[5] = 8 /\ list[6] = 9 /\ list[7] = 10 /\ list[8] = 11
      /\ list[9] = 4 /\ list[10] = 5 /\ list[11] = 6 /\ list[12] = 7
      /\ list[13] = 12 /\ list[14] = 13 /\ list[15] = 14 /\ list[16] = 15
  OBVIOUS
<1> HIDE DEF list
<1>4. \A lane \in 0 .. 15 : list[lane + 1] \in 0 .. 15 /\ list[list[lane + 1] + 1] = lane
  BY <1>3
<1>5. restored = [lane \in 0 .. 15 |-> joined[lane]]
  <2>1. /\ packed = [lane \in 0 .. 15 |-> joined[list[lane + 1]]]
        /\ restored = [lane \in 0 .. 15 |-> packed[list[lane + 1]]]
    BY <1>2 DEF Permuted
  <2> HIDE DEF joined, packed, restored
  <2>2. \A lane \in 0 .. 15 : packed[list[lane + 1]] = joined[lane]
    BY <1>4, <2>1
  <2> QED
    BY <2>1, <2>2
<1>6. Consecutive(Loaded(2 * i, 8), 8, 2 * i) /\ Consecutive(Loaded(2 * i + 8, 8), 8, 2 * i + 8)
  BY DEF Consecutive, Loaded
<1>7. 2 * i \in Nat /\ 2 * i + 8 \in Nat /\ 8 \in Nat
  OBVIOUS
<1>8. HoldsElements(a, 8, "MapQPSK", 2 * i, length) /\ HoldsElements(b, 8, "MapQPSK", 2 * i + 8, length)
  BY <1>6, <1>7, SoftLanesHold
<1> HIDE DEF a, b
<1>9. HoldsElements(restored, 16, "MapQPSK", 2 * i, length)
  <2>1. Cardinality(DOMAIN a) = 8
    <3>1. DOMAIN a = 0 .. 7
      BY <1>8 DEF HoldsElements
    <3>2. 0 \in Int /\ 7 \in Int /\ 7 - 0 + 1 = 8 /\ ~(0 > 7)
      OBVIOUS
    <3>3. Cardinality(0 .. 7) = 8
      BY <3>2, FS_Interval
    <3> QED
      BY <3>1, <3>3
  <2>2. joined = [lane \in 0 .. 15 |-> IF lane < 8 THEN a[lane] ELSE b[lane - 8]]
    BY <2>1 DEF Joined
  <2>3. ASSUME NEW lane \in 0 .. 15
        PROVE  <<2 * i + lane, restored[lane]>> = Element("MapQPSK", 2 * i + lane, length)
    <3>1. restored[lane] = joined[lane]
      BY <1>5
    <3> HIDE DEF restored, joined
    <3>2. CASE lane < 8
      <4>1. restored[lane] = a[lane] /\ lane \in 0 .. 8 - 1
        BY <2>2, <3>1, <3>2
      <4> QED
        BY <1>8, <4>1 DEF HoldsElements
    <3>3. CASE lane >= 8
      <4>1. restored[lane] = b[lane - 8] /\ lane - 8 \in 0 .. 8 - 1 /\ 2 * i + 8 + (lane - 8) = 2 * i + lane
        BY <2>2, <3>1, <3>3
      <4> QED
        BY <1>8, <4>1 DEF HoldsElements
    <3> QED
      BY <3>2, <3>3
  <2>4. DOMAIN restored = 0 .. 15
    BY <1>5
  <2> HIDE DEF restored
  <2> QED
    BY <2>3, <2>4 DEF HoldsElements
<1> HIDE DEF restored
<1>10. 16 \in Nat /\ 2 * 8 = 16
  OBVIOUS
<1>11. StoredAt(2 * i, restored) = ElementsFrom("MapQPSK", 2 * i, 16, length)
  BY <1>7, <1>9, <1>10, StoredIsSlice
<1> QED
  BY <1>1, <1>7, <1>10, <1>11, MapQPSKNumbers

-----------------------------------------------------------------------------
(* Powers.                                                                 *)
LEMMA PowerNumbers ==
  ASSUME NEW i \in Nat, NEW width \in Nat, NEW length
  PROVE  Slice("PowerSpectrum", i, i + width, length) = ElementsFrom("PowerSpectrum", i, width, length)
BY DEF Slice, Numbers, ElementsFrom

LEMMA PowerScalarIteration ==
  ASSUME NEW i \in Nat, NEW length
  PROVE  PowerScalar(i) = Slice("PowerSpectrum", i, i + 1, length)
<1>1. Numbers("PowerSpectrum", i, i + 1) = {i}
  BY DEF Numbers
<1> QED
  BY <1>1 DEF PowerScalar, Slice, Element

LEMMA PowerSse2Iteration ==
  ASSUME NEW i \in Nat, NEW length
  PROVE  PowerSse2(i) = Slice("PowerSpectrum", i, i + 4, length)
<1> DEFINE low == Loaded(2 * i, 4)
           high == Loaded(2 * i + 4, 4)
           re == Halved(low, high, 0)
           im == Halved(low, high, 1)
           powers == [lane \in 0 .. 3 |-> {re[lane], im[lane]}]
<1>1. PowerSse2(i) = StoredAt(i, powers)
  BY DEF PowerSse2
<1>2. /\ \A k \in 0 .. 3 : low[k] = 2 * i + k
      /\ \A k \in 0 .. 3 : high[k] = 2 * i + 4 + k
  BY DEF Loaded
<1> HIDE DEF low, high
<1>3. ASSUME NEW lane \in 0 .. 3
      PROVE  re[lane] = 2 * (i + lane) /\ im[lane] = 2 * (i + lane) + 1
  <2>1. CASE lane < 2
    <3>1. 2 * lane + 0 \in 0 .. 3 /\ 2 * lane + 1 \in 0 .. 3
      BY <2>1
    <3>2. re[lane] = low[2 * lane + 0] /\ im[lane] = low[2 * lane + 1]
      BY <2>1 DEF Halved
    <3> HIDE DEF re, im
    <3> QED
      BY <1>2, <3>1, <3>2
  <2>2. CASE lane >= 2
    <3>1. 2 * (lane - 2) + 0 \in 0 .. 3 /\ 2 * (lane - 2) + 1 \in 0 .. 3
      BY <2>2
    <3>2. re[lane] = high[2 * (lane - 2) + 0] /\ im[lane] = high[2 * (lane - 2) + 1]
      BY <2>2 DEF Halved
    <3> HIDE DEF re, im
    <3> QED
      BY <1>2, <3>1, <3>2
  <2> QED
    BY <2>1, <2>2
<1> HIDE DEF re, im
<1>4. HoldsElements(powers, 4, "PowerSpectrum", i, length)
  BY <1>3 DEF HoldsElements, Element
<1> HIDE DEF powers
<1>5. 4 \in Nat
  OBVIOUS
<1>6. StoredAt(i, powers) = ElementsFrom("PowerSpectrum", i, 4, length)
  BY <1>4, <1>5, StoredIsSlice
<1> QED
  BY <1>1, <1>5, <1>6, PowerNumbers

(* The last permutation undoes the turns of the sums of neighbours.        *)
LEMMA PowerAvx2Iteration ==
  ASSUME NEW i \in Nat, NEW length
  PROVE  PowerAvx2(i) = Slice("PowerSpectrum", i, i + 8, length)
<1> DEFINE list == <<0, 1, 4, 5, 2, 3, 6, 7>>
           low == Loaded(2 * i, 8)
           high == Loaded(2 * i + 8, 8)
           sums == NeighbourSums(low, high)
           powers == Permuted(sums, list)
<1>1. PowerAvx2(i) = StoredAt(i, powers)
  BY DEF PowerAvx2
<1>2. Len(list) = 8
  OBVIOUS
<1>3. /\ list[1] = 0 /\ list[2] = 1 /\ list[3] = 4 /\ list[4] = 5
      /\ list[5] = 2 /\ list[6] = 3 /\ list[7] = 6 /\ list[8] = 7
  OBVIOUS
<1>4. powers = [lane \in 0 .. 7 |-> sums[list[lane + 1]]]
  BY <1>2 DEF Permuted
<1> HIDE DEF list
<1>5. /\ \A k \in 0 .. 7 : low[k] = 2 * i + k
      /\ \A k \in 0 .. 7 : high[k] = 2 * i + 8 + k
  BY DEF Loaded
<1> HIDE DEF low, high
<1>6. ASSUME NEW lane \in 0 .. 7
      PROVE  powers[lane] = {2 * (i + lane), 2 * (i + lane) + 1}
  <2> DEFINE place == list[lane + 1]
             pair == 2 * (place % 2) + (4 * (place \div 4))
  <2>1. /\ place \in 0 .. 7 /\ pair \in 0 .. 7 /\ pair + 1 \in 0 .. 7
        /\ (place % 4 < 2 <=> lane < 4)
        /\ pair = IF lane < 4 THEN 2 * lane ELSE 2 * lane - 8
    BY <1>3
  <2>2. powers[lane] = sums[place]
    BY <1>4
  <2>3. sums[place] = IF place % 4 < 2 THEN {low[pair], low[pair + 1]} ELSE {high[pair], high[pair + 1]}
    BY <2>1 DEF NeighbourSums
  <2> HIDE DEF place, pair, sums, powers
  <2>4. CASE lane < 4
    <3>1. powers[lane] = {low[pair], low[pair + 1]}
      BY <2>1, <2>2, <2>3, <2>4
    <3>2. low[pair] = 2 * (i + lane) /\ low[pair + 1] = 2 * (i + lane) + 1
      BY <1>5, <2>1, <2>4
    <3> QED
      BY <3>1, <3>2
  <2>5. CASE lane >= 4
    <3>1. powers[lane] = {high[pair], high[pair + 1]}
      BY <2>1, <2>2, <2>3, <2>5
    <3>2. high[pair] = 2 * (i + lane) /\ high[pair + 1] = 2 * (i + lane) + 1
      BY <1>5, <2>1, <2>5
    <3> QED
      BY <3>1, <3>2
  <2> QED
    BY <2>4, <2>5
<1>7. HoldsElements(powers, 8, "PowerSpectrum", i, length)
  <2>1. DOMAIN powers = 0 .. 7
    BY <1>4
  <2> HIDE DEF powers
  <2> QED
    BY <1>6, <2>1 DEF HoldsElements, Element
<1> HIDE DEF powers
<1>8. 8 \in Nat
  OBVIOUS
<1>9. StoredAt(i, powers) = ElementsFrom("PowerSpectrum", i, 8, length)
  BY <1>7, <1>8, StoredIsSlice
<1> QED
  BY <1>1, <1>8, <1>9, PowerNumbers

-----------------------------------------------------------------------------
(* Dot products, and those of symmetric taps.                              *)
Dots == {"DotProd", "DotProdSymmetric"}

DotElement(operation, part, n, length) == Element(operation, <<part, n>>, length)

LEMMA DotSlice ==
  ASSUME NEW operation \in Dots, NEW a \in Nat, NEW b \in Nat, NEW length, NEW t
  PROVE  t \in Slice(operation, a, b, length)
           <=> \E part \in {Re, Im}, n \in a .. b - 1 : t = DotElement(operation, part, n, length)
<1>1. Numbers(operation, a, b) = {Re, Im} \X (a .. b - 1)
  BY DEF Numbers, Dots
<1>2. \A both \in {Re, Im} \X (a .. b - 1) :
        both[1] \in {Re, Im} /\ both[2] \in a .. b - 1 /\ both = <<both[1], both[2]>>
  OBVIOUS
<1>3. \A part \in {Re, Im}, n \in a .. b - 1 : <<part, n>> \in {Re, Im} \X (a .. b - 1)
  OBVIOUS
<1>4. t \in Slice(operation, a, b, length)
        <=> \E both \in {Re, Im} \X (a .. b - 1) : t = Element(operation, both, length)
  BY <1>1 DEF Slice
<1>5. ASSUME NEW both \in {Re, Im} \X (a .. b - 1), t = Element(operation, both, length)
      PROVE  \E part \in {Re, Im}, n \in a .. b - 1 : t = DotElement(operation, part, n, length)
  <2>1. t = DotElement(operation, both[1], both[2], length)
    BY <1>2, <1>5 DEF DotElement
  <2> QED
    BY <1>2, <2>1
<1>6. ASSUME NEW part \in {Re, Im}, NEW n \in a .. b - 1, t = DotElement(operation, part, n, length)
      PROVE  \E both \in {Re, Im} \X (a .. b - 1) : t = Element(operation, both, length)
  BY <1>3, <1>6 DEF DotElement
<1> QED
  BY <1>4, <1>5, <1>6

LEMMA DotElements ==
  ASSUME NEW part, NEW n, NEW length
  PROVE  /\ DotElement("DotProd", part, n, length) = <<part, 2 * n + part, n>>
         /\ DotElement("DotProdSymmetric", part, n, length)
              = <<part, <<2 * n + part, 2 * (2 * length - n) + part>>, n>>
BY DEF DotElement, Element

LEMMA DotScalarIteration ==
  ASSUME NEW i \in Nat, NEW width \in Nat, NEW length
  PROVE  DotScalar(i, width) = Slice("DotProd", i, i + width, length)
<1>1. ASSUME NEW t
      PROVE  t \in DotScalar(i, width) <=> t \in Slice("DotProd", i, i + width, length)
  <2>1. t \in DotScalar(i, width)
          <=> \E part \in {Re, Im}, n \in i .. i + width - 1 : t = <<part, 2 * n + part, n>>
    BY DEF DotScalar
  <2>2. t \in Slice("DotProd", i, i + width, length)
          <=> \E part \in {Re, Im}, n \in i .. i + width - 1 : t = DotElement("DotProd", part, n, length)
    BY DotSlice DEF Dots
  <2> QED
    BY <2>1, <2>2, DotElements
<1> QED
  BY <1>1

LEMMA SymmetricScalarIteration ==
  ASSUME NEW i \in Nat, NEW width \in Nat, NEW length \in Nat
  PROVE  SymmetricScalar(i, width, length) = Slice("DotProdSymmetric", i, i + width, length)
<1>1. ASSUME NEW t
      PROVE  t \in SymmetricScalar(i, width, length)
               <=> t \in Slice("DotProdSymmetric", i, i + width, length)
  <2>1. t \in SymmetricScalar(i, width, length)
          <=> \E part \in {Re, Im}, j \in 0 .. width - 1 :
                t = <<part, <<2 * i + 2 * j + part, (4 * length - 2 * i) - 2 * j + part>>, i + j>>
    BY DEF SymmetricScalar
  <2>2. t \in Slice("DotProdSymmetric", i, i + width, length)
          <=> \E part \in {Re, Im}, n \in i .. i + width - 1 :
                t = DotElement("DotProdSymmetric", part, n, length)
    BY DotSlice DEF Dots
  <2>3. \A part \in {Re, Im}, j \in 0 .. width - 1 :
          /\ i + j \in i .. i + width - 1
          /\ <<part, <<2 * i + 2 * j + part, (4 * length - 2 * i) - 2 * j + part>>, i + j>>
               = DotElement("DotProdSymmetric", part, i + j, length)
    <3> TAKE part \in {Re, Im}, j \in 0 .. width - 1
    <3>1. /\ i + j \in i .. i + width - 1
          /\ 2 * i + 2 * j + part = 2 * (i + j) + part
          /\ (4 * length - 2 * i) - 2 * j + part = 2 * (2 * length - (i + j)) + part
      BY DEF Re, Im
    <3> QED
      BY <3>1, DotElements
  <2>4. \A n \in i .. i + width - 1 : n - i \in 0 .. width - 1 /\ i + (n - i) = n
    OBVIOUS
  <2>5. ASSUME NEW part \in {Re, Im}, NEW n \in i .. i + width - 1,
               t = DotElement("DotProdSymmetric", part, n, length)
        PROVE  t \in SymmetricScalar(i, width, length)
    <3> DEFINE j == n - i
    <3>1. j \in 0 .. width - 1 /\ i + j = n
      BY <2>4
    <3> HIDE DEF j
    <3>2. DotElement("DotProdSymmetric", part, i + j, length) = t
      BY <2>5, <3>1
    <3> QED
      BY <2>1, <2>3, <3>1, <3>2
  <2>6. ASSUME t \in SymmetricScalar(i, width, length)
        PROVE  t \in Slice("DotProdSymmetric", i, i + width, length)
    BY <2>1, <2>2, <2>3, <2>6
  <2> QED
    BY <2>2, <2>5, <2>6
<1> QED
  BY <1>1

(* Of eight lanes, two belong to each of four taps.                        *)
IsInLanes(t, operation, i, rounds, length) ==
  \E k \in 0 .. rounds - 1 : \E lane \in 0 .. 7 :
    t = DotElement(operation, lane % 2, i + 4 * k + (lane \div 2), length)

LEMMA DotLanes ==
  ASSUME NEW operation \in Dots, NEW i \in Nat, NEW rounds \in Nat, NEW length, NEW t
  PROVE  t \in Slice(operation, i, i + 4 * rounds, length)
           <=> IsInLanes(t, operation, i, rounds, length)
<1>1. t \in Slice(operation, i, i + 4 * rounds, length)
        <=> \E part \in {Re, Im}, n \in i .. i + 4 * rounds - 1 : t = DotElement(operation, part, n, length)
  BY DotSlice
<1>2. \A k \in 0 .. rounds - 1, lane \in 0 .. 7 :
        lane % 2 \in {Re, Im} /\ i + 4 * k + (lane \div 2) \in i .. i + 4 * rounds - 1
  BY DEF Re, Im
<1>3. ASSUME NEW part \in {Re, Im}, NEW n \in i .. i + 4 * rounds - 1
      PROVE  \E k \in 0 .. rounds - 1 : \E lane \in 0 .. 7 :
               lane % 2 = part /\ i + 4 * k + (lane \div 2) = n
  <2> DEFINE k == (n - i) \div 4
             lane == 2 * ((n - i) % 4) + part
  <2>1. k \in 0 .. rounds - 1 /\ (n - i) % 4 \in 0 .. 3 /\ n = i + 4 * k + ((n - i) % 4)
    OBVIOUS
  <2>2. lane \in 0 .. 7 /\ lane % 2 = part /\ lane \div 2 = (n - i) % 4
    BY DEF Re, Im
  <2>3. i + 4 * k + (lane \div 2) = n
    BY <2>1, <2>2
  <2> HIDE DEF k, lane
  <2> QED
    BY <2>1, <2>2, <2>3
<1>4. ASSUME NEW k \in 0 .. rounds - 1, NEW lane \in 0 .. 7,
             t = DotElement(operation, lane % 2, i + 4 * k + (lane \div 2), length)
      PROVE  \E part \in {Re, Im}, n \in i .. i + 4 * rounds - 1 : t = DotElement(operation, part, n, length)
  BY <1>2, <1>4
<1>5. ASSUME NEW part \in {Re, Im}, NEW n \in i .. i + 4 * rounds - 1,
             t = DotElement(operation, part, n, length)
      PROVE  \E k \in 0 .. rounds - 1 : \E lane \in 0 .. 7 :
               t = DotElement(operation, lane % 2, i + 4 * k + (lane \div 2), length)
  <2>1. PICK k \in 0 .. rounds - 1, lane \in 0 .. 7 : lane % 2 = part /\ i + 4 * k + (lane \div 2) = n
    BY <1>3
  <2>2. t = DotElement(operation, lane % 2, i + 4 * k + (lane \div 2), length)
    BY <1>5, <2>1
  <2> QED
    BY <2>2
<1> QED
  BY <1>1, <1>4, <1>5 DEF IsInLanes

LEMMA TapsTwiceFacts ==
  ASSUME NEW first \in Nat, NEW lane \in 0 .. 7
  PROVE  Permuted(Loaded(first, 4), TapsTwice)[lane] = first + (lane \div 2)
<1>1. Len(TapsTwice) = 8 /\ TapsTwice[lane + 1] = lane \div 2
  BY DEF TapsTwice
<1>2. Permuted(Loaded(first, 4), TapsTwice)[lane] = Loaded(first, 4)[TapsTwice[lane + 1]]
  BY <1>1 DEF Permuted
<1>3. lane \div 2 \in 0 .. 3
  OBVIOUS
<1> QED
  BY <1>1, <1>2, <1>3 DEF Loaded

LEMMA ReverseComplexFacts ==
  ASSUME NEW first \in Int, NEW lane \in 0 .. 7
  PROVE  ReverseComplex(Loaded(first, 8))[lane] = first + 6 - 2 * (lane \div 2) + (lane % 2)
<1> DEFINE list == <<6, 7, 4, 5, 2, 3, 0, 1>>
<1>1. Len(list) = 8 /\ list[lane + 1] = 6 - 2 * (lane \div 2) + (lane % 2)
  OBVIOUS
<1>2. ReverseComplex(Loaded(first, 8)) = Permuted(Loaded(first, 8), list)
  BY DEF ReverseComplex
<1> HIDE DEF list
<1>3. Permuted(Loaded(first, 8), list)[lane] = Loaded(first, 8)[list[lane + 1]]
  BY <1>1 DEF Permuted
<1>4. 6 - 2 * (lane \div 2) + (lane % 2) \in 0 .. 7
  OBVIOUS
<1> QED
  BY <1>1, <1>2, <1>3, <1>4 DEF Loaded

LEMMA DotVectorIteration ==
  ASSUME NEW i \in Nat, NEW width \in {4, 8, 16}, NEW length
  PROVE  DotVector(i, width) = Slice("DotProd", i, i + width, length)
<1> DEFINE Samples(k) == Loaded(2 * (i + 4 * k), 8)
           Taps(k) == Permuted(Loaded(i + 4 * k, 4), TapsTwice)
           rounds == width \div 4
<1>1. rounds \in Nat /\ 4 * rounds = width
  OBVIOUS
<1>2. ASSUME NEW k \in 0 .. rounds - 1, NEW lane \in 0 .. 7
      PROVE  <<lane % 2, Samples(k)[lane], Taps(k)[lane]>>
               = DotElement("DotProd", lane % 2, i + 4 * k + (lane \div 2), length)
  <2>1. i + 4 * k \in Nat /\ 2 * (i + 4 * k) + lane = 2 * (i + 4 * k + (lane \div 2)) + (lane % 2)
    BY <1>1
  <2>2. Samples(k)[lane] = 2 * (i + 4 * k) + lane
    BY DEF Loaded
  <2>3. Taps(k)[lane] = i + 4 * k + (lane \div 2)
    BY <2>1, TapsTwiceFacts
  <2> HIDE DEF Samples, Taps
  <2> QED
    BY <2>1, <2>2, <2>3, DotElements
<1>3. ASSUME NEW t
      PROVE  t \in DotVector(i, width) <=> t \in Slice("DotProd", i, i + width, length)
  <2>1. t \in DotVector(i, width)
          <=> \E k \in 0 .. rounds - 1 : \E lane \in 0 .. 7 :
                t = <<lane % 2, Samples(k)[lane], Taps(k)[lane]>>
    BY DEF DotVector
  <2> HIDE DEF Samples, Taps, rounds
  <2>2. t \in Slice("DotProd", i, i + 4 * rounds, length)
          <=> IsInLanes(t, "DotProd", i, rounds, length)
    BY <1>1, DotLanes DEF Dots
  <2>3. t \in DotVector(i, width)
          <=> IsInLanes(t, "DotProd", i, rounds, length)
    BY <1>2, <2>1 DEF IsInLanes
  <2> QED
    BY <1>1, <2>2, <2>3
<1> QED
  BY <1>3

LEMMA SymmetricVectorIteration ==
  ASSUME NEW i \in Nat, NEW width \in {4, 8}, NEW length \in Nat
  PROVE  SymmetricVector(i, width, length) = Slice("DotProdSymmetric", i, i + width, length)
<1> DEFINE Left(k) == Loaded(2 * (i + 4 * k), 8)
           Right(k) == ReverseComplex(Loaded(4 * length - (2 * (i + 4 * k) + 6), 8))
           Taps(k) == Permuted(Loaded(i + 4 * k, 4), TapsTwice)
           rounds == width \div 4
<1>1. rounds \in Nat /\ 4 * rounds = width
  OBVIOUS
<1>2. ASSUME NEW k \in 0 .. rounds - 1, NEW lane \in 0 .. 7
      PROVE  <<lane % 2, <<Left(k)[lane], Right(k)[lane]>>, Taps(k)[lane]>>
               = DotElement("DotProdSymmetric", lane % 2, i + 4 * k + (lane \div 2), length)
  <2> DEFINE m == i + 4 * k
             first == 4 * length - (2 * m + 6)
  <2>1. /\ m \in Nat /\ first \in Int
        /\ 2 * m + lane = 2 * (m + (lane \div 2)) + (lane % 2)
        /\ first + 6 - 2 * (lane \div 2) + (lane % 2) = 2 * (2 * length - (m + (lane \div 2))) + (lane % 2)
    BY <1>1
  <2>2. Left(k)[lane] = 2 * m + lane
    BY DEF Loaded
  <2>3. Taps(k)[lane] = m + (lane \div 2)
    BY <2>1, TapsTwiceFacts
  <2>4. Right(k)[lane] = first + 6 - 2 * (lane \div 2) + (lane % 2)
    BY <2>1, ReverseComplexFacts
  <2> HIDE DEF Left, Right, Taps, first
  <2>5. DotElement("DotProdSymmetric", lane % 2, m + (lane \div 2), length)
          = <<lane % 2, <<2 * (m + (lane \div 2)) + (lane % 2),
                          2 * (2 * length - (m + (lane \div 2))) + (lane % 2)>>, m + (lane \div 2)>>
    BY DotElements
  <2> QED
    BY <2>1, <2>2, <2>3, <2>4, <2>5
<1>3. ASSUME NEW t
      PROVE  t \in SymmetricVector(i, width, length)
               <=> t \in Slice("DotProdSymmetric", i, i + width, length)
  <2>1. t \in SymmetricVector(i, width, length)
          <=> \E k \in 0 .. rounds - 1 : \E lane \in 0 .. 7 :
                t = <<lane % 2, <<Left(k)[lane], Right(k)[lane]>>, Taps(k)[lane]>>
    BY DEF SymmetricVector
  <2> HIDE DEF Left, Right, Taps, rounds
  <2>2. t \in Slice("DotProdSymmetric", i, i + 4 * rounds, length)
          <=> IsInLanes(t, "DotProdSymmetric", i, rounds, length)
    BY <1>1, DotLanes DEF Dots
  <2>3. t \in SymmetricVector(i, width, length)
          <=> IsInLanes(t, "DotProdSymmetric", i, rounds, length)
    BY <1>2, <2>1 DEF IsInLanes
  <2> QED
    BY <1>1, <2>2, <2>3
<1> QED
  BY <1>3

-----------------------------------------------------------------------------
(* Every iteration makes the slice of elements of its width.               *)
IsLoopOf(operation, backend, width) ==
  /\ width \in Nat /\ width >= 1
  /\ operation \in Packs =>
       \/ width = 1
       \/ backend = "sse2" /\ width = 2
       \/ backend \in {"avx2", "avx512bw"} /\ width \in {4, 8}
  /\ operation \in Unpacks =>
       \/ width = 1
       \/ backend = "sse2" /\ width = 8
       \/ backend = "avx2" /\ width \in {4, 8, 16}
       \/ operation = "Unpack8_LSB" /\ backend = "avx512bw" /\ width = 8
  /\ operation \in {"MapQPSK", "PowerSpectrum"} => width \in {1, 4, 8}
  /\ operation = "DotProd" => width = 1 \/ backend = "generic" \/ width \in {4, 8, 16}
  /\ operation = "DotProdSymmetric" => width = 1 \/ backend = "generic" \/ width \in {4, 8}

LEMMA IterationIsSlice ==
  ASSUME NEW operation \in AllOperations, NEW backend, NEW width, NEW i \in Nat,
         NEW length \in Nat, IsLoopOf(operation, backend, width)
  PROVE  Iteration(operation, backend, width, i, length) = Slice(operation, i, i + width, length)
<1>1. width \in Nat /\ width >= 1
  BY DEF IsLoopOf
<1>2. CASE operation = "Invert"
  BY <1>1, <1>2, InvertIteration DEF Iteration
<1>3. CASE operation \in Packs
  <2>1. Iteration(operation, backend, width, i, length)
          = IF width > 1 /\ backend # "generic"
            THEN PackedVector(i, width, backend, MsbFirst(operation))
            ELSE PackedScalar(i, MsbFirst(operation))
    BY <1>3 DEF Iteration, MsbFirst, Packs
  <2>2. CASE width = 1
    <3>1. Iteration(operation, backend, width, i, length) = PackedScalar(i, MsbFirst(operation))
      BY <2>1, <2>2
    <3> QED
      BY <1>3, <2>2, <3>1, PackedScalarIteration
  <2>3. CASE width # 1
    <3>1. /\ width \in {2, 4, 8} /\ backend # "generic" /\ (backend = "sse2" <=> width = 2)
      BY <1>3, <2>3 DEF IsLoopOf
    <3>2. Iteration(operation, backend, width, i, length)
            = PackedVector(i, width, backend, MsbFirst(operation))
      BY <1>1, <2>1, <2>3, <3>1
    <3> QED
      BY <1>3, <3>1, <3>2, PackedVectorIteration
  <2> QED
    BY <2>2, <2>3
<1>4. CASE operation \in Unpacks
  <2>1. Iteration(operation, backend, width, i, length)
          = IF ~(width > 1 /\ backend # "generic") THEN UnpackedScalar(i, MsbFirst(operation))
            ELSE IF backend = "sse2" THEN UnpackedSse2(i, MsbFirst(operation))
            ELSE IF backend = "avx2" THEN UnpackedAvx2(i, width, MsbFirst(operation))
            ELSE UnpackedAvx512(i)
    BY <1>4 DEF Iteration, MsbFirst, Unpacks
  <2>2. CASE width = 1
    <3>1. Iteration(operation, backend, width, i, length) = UnpackedScalar(i, MsbFirst(operation))
      BY <2>1, <2>2
    <3> QED
      BY <1>4, <2>2, <3>1, UnpackedScalarIteration
  <2>3. CASE width # 1 /\ backend = "sse2"
    <3>1. width = 8
      BY <1>4, <2>3 DEF IsLoopOf
    <3>2. Iteration(operation, backend, width, i, length) = UnpackedSse2(i, MsbFirst(operation))
      BY <2>1, <2>3, <3>1
    <3> QED
      BY <1>4, <3>1, <3>2, UnpackedSse2Iteration
  <2>4. CASE width # 1 /\ backend = "avx2"
    <3>1. width \in {4, 8, 16}
      BY <1>4, <2>4 DEF IsLoopOf
    <3>2. Iteration(operation, backend, width, i, length) = UnpackedAvx2(i, width, MsbFirst(operation))
      BY <2>1, <2>4, <3>1
    <3> QED
      BY <1>4, <3>1, <3>2, UnpackedAvx2Iteration
  <2>5. CASE width # 1 /\ backend \notin {"sse2", "avx2"}
    <3>1. operation = "Unpack8_LSB" /\ backend = "avx512bw" /\ width = 8
      BY <1>4, <2>5 DEF IsLoopOf
    <3>2. Iteration(operation, backend, width, i, length) = UnpackedAvx512(i)
      BY <2>1, <3>1
    <3> QED
      BY <3>1, <3>2, UnpackedAvx512Iteration
  <2> QED
    BY <2>2, <2>3, <2>4, <2>5
<1>5. CASE operation = "MapQPSK"
  <2>1. width \in {1, 4, 8}
    BY <1>5 DEF IsLoopOf
  <2>2. Iteration(operation, backend, width, i, length)
          = IF width = 8 THEN MappedAvx2(i) ELSE IF width = 4 THEN MappedSse2(i) ELSE MappedScalar(i)
    BY <1>5 DEF Iteration
  <2> QED
    BY <1>5, <2>1, <2>2, MappedScalarIteration, MappedSse2Iteration, MappedAvx2Iteration
<1>6. CASE operation = "PowerSpectrum"
  <2>1. width \in {1, 4, 8}
    BY <1>6 DEF IsLoopOf
  <2>2. Iteration(operation, backend, width, i, length)
          = IF width = 8 THEN PowerAvx2(i) ELSE IF width = 4 THEN PowerSse2(i) ELSE PowerScalar(i)
    BY <1>6 DEF Iteration
  <2> QED
    BY <1>6, <2>1, <2>2, PowerScalarIteration, PowerSse2Iteration, PowerAvx2Iteration
<1>7. CASE operation = "DotProd"
  <2>1. Iteration(operation, backend, width, i, length)
          = IF width > 1 /\ backend # "generic" THEN DotVector(i, width) ELSE DotScalar(i, width)
    BY <1>7 DEF Iteration
  <2>2. CASE width > 1 /\ backend # "generic"
    <3>1. width \in {4, 8, 16}
      BY <1>7, <2>2 DEF IsLoopOf
    <3> QED
      BY <1>7, <2>1, <2>2, <3>1, DotVectorIteration
  <2>3. CASE ~(width > 1 /\ backend # "generic")
    BY <1>1, <1>7, <2>1, <2>3, DotScalarIteration
  <2> QED
    BY <2>2, <2>3
<1>8. CASE operation = "DotProdSymmetric"
  <2>1. Iteration(operation, backend, width, i, length)
          = IF width > 1 /\ backend # "generic" THEN SymmetricVector(i, width, length)
            ELSE SymmetricScalar(i, width, length)
    BY <1>8 DEF Iteration
  <2>2. CASE width > 1 /\ backend # "generic"
    <3>1. width \in {4, 8}
      BY <1>8, <2>2 DEF IsLoopOf
    <3> QED
      BY <1>8, <2>1, <2>2, <3>1, SymmetricVectorIteration
  <2>3. CASE ~(width > 1 /\ backend # "generic")
    BY <1>1, <1>8, <2>1, <2>3, SymmetricScalarIteration
  <2> QED
    BY <2>2, <2>3
<1> QED
  BY <1>2, <1>3, <1>4, <1>5, <1>6, <1>7, <1>8 DEF AllOperations, Packs, Unpacks

(* The loops of a backend end with one that takes single elements as long  *)
(* as there are some.                                                      *)
LoopsAreGood(loops, operation, backend) ==
  /\ Len(loops) \in Nat /\ Len(loops) >= 1
  /\ \A l \in 1 .. Len(loops) : IsLoopOf(operation, backend, loops[l].width)
  /\ loops[Len(loops)].repeats = TRUE /\ loops[Len(loops)].width = 1

LEMMA LoopsFacts ==
  ASSUME NEW operation \in AllOperations, NEW backend \in DOMAIN Loops[operation]
  PROVE  LoopsAreGood(Loops[operation][backend], operation, backend)
<1>1. CASE operation = "Invert"
  <2>1. backend \in {"generic", "sse2", "avx2", "avx512f"}
    BY <1>1 DEF Loops
  <2>2. CASE backend = "generic"
    <3>1. Loops[operation][backend] = <<Forever(8), Scalar>>
      BY <1>1, <2>2 DEF Loops
    <3>2. /\ IsLoopOf(operation, backend, 8)
          /\ IsLoopOf(operation, backend, 1)
      BY <1>1, <2>2 DEF IsLoopOf, Packs, Unpacks
    <3> QED
      BY <3>1, <3>2 DEF LoopsAreGood, Forever, Once, Scalar
  <2>3. CASE backend = "sse2"
    <3>1. Loops[operation][backend] = <<Forever(16), Forever(8), Scalar>>
      BY <1>1, <2>3 DEF Loops
    <3>2. /\ IsLoopOf(operation, backend, 16)
          /\ IsLoopOf(operation, backend, 8)
          /\ IsLoopOf(operation, backend, 1)
      BY <1>1, <2>3 DEF IsLoopOf, Packs, Unpacks
    <3> QED
      BY <3>1, <3>2 DEF LoopsAreGood, Forever, Once, Scalar
  <2>4. CASE backend = "avx2"
    <3>1. Loops[operation][backend] = <<Forever(32), Forever(8), Scalar>>
      BY <1>1, <2>4 DEF Loops
    <3>2. /\ IsLoopOf(operation, backend, 32)
          /\ IsLoopOf(operation, backend, 8)
          /\ IsLoopOf(operation, backend, 1)
      BY <1>1, <2>4 DEF IsLoopOf, Packs, Unpacks
    <3> QED
      BY <3>1, <3>2 DEF LoopsAreGood, Forever, Once, Scalar
  <2>5. CASE backend = "avx512f"
    <3>1. Loops[operation][backend] = <<Forever(64), Forever(8), Scalar>>
      BY <1>1, <2>5 DEF Loops
    <3>2. /\ IsLoopOf(operation, backend, 64)
          /\ IsLoopOf(operation, backend, 8)
          /\ IsLoopOf(operation, backend, 1)
      BY <1>1, <2>5 DEF IsLoopOf, Packs, Unpacks
    <3> QED
      BY <3>1, <3>2 DEF LoopsAreGood, Forever, Once, Scalar
  <2> QED
    BY <2>1, <2>2, <2>3, <2>4, <2>5
<1>2. CASE operation = "Pack8_LSB"
  <2>1. backend \in {"generic", "sse2", "avx2", "avx512bw"}
    BY <1>2 DEF Loops
  <2>2. CASE backend = "generic"
    <3>1. Loops[operation][backend] = <<Scalar>>
      BY <1>2, <2>2 DEF Loops
    <3>2. IsLoopOf(operation, backend, 1)
      BY <1>2, <2>2 DEF IsLoopOf, Packs, Unpacks
    <3> QED
      BY <3>1, <3>2 DEF LoopsAreGood, Forever, Once, Scalar
  <2>3. CASE backend = "sse2"
    <3>1. Loops[operation][backend] = <<Forever(2), Scalar>>
      BY <1>2, <2>3 DEF Loops
    <3>2. /\ IsLoopOf(operation, backend, 2)
          /\ IsLoopOf(operation, backend, 1)
      BY <1>2, <2>3 DEF IsLoopOf, Packs, Unpacks
    <3> QED
      BY <3>1, <3>2 DEF LoopsAreGood, Forever, Once, Scalar
  <2>4. CASE backend = "avx2"
    <3>1. Loops[operation][backend] = <<Forever(8), Once(4), Scalar>>
      BY <1>2, <2>4 DEF Loops
    <3>2. /\ IsLoopOf(operation, backend, 8)
          /\ IsLoopOf(operation, backend, 4)
          /\ IsLoopOf(operation, backend, 1)
      BY <1>2, <2>4 DEF IsLoopOf, Packs, Unpacks
    <3> QED
      BY <3>1, <3>2 DEF LoopsAreGood, Forever, Once, Scalar
  <2>5. CASE backend = "avx512bw"
    <3>1. Loops[operation][backend] = <<Forever(8), Scalar>>
      BY <1>2, <2>5 DEF Loops
    <3>2. /\ IsLoopOf(operation, backend, 8)
          /\ IsLoopOf(operation, backend, 1)
      BY <1>2, <2>5 DEF IsLoopOf, Packs, Unpacks
    <3> QED
      BY <3>1, <3>2 DEF LoopsAreGood, Forever, Once, Scalar
  <2> QED
    BY <2>1, <2>2, <2>3, <2>4, <2>5
<1>3. CASE operation = "Pack8_MSB"
  <2>1. backend \in {"generic", "sse2", "avx2"}
    BY <1>3 DEF Loops
  <2>2. CASE backend = "generic"
    <3>1. Loops[operation][backend] = <<Scalar>>
      BY <1>3, <2>2 DEF Loops
    <3>2. IsLoopOf(operation, backend, 1)
      BY <1>3, <2>2 DEF IsLoopOf, Packs, Unpacks
    <3> QED
      BY <3>1, <3>2 DEF LoopsAreGood, Forever, Once, Scalar
  <2>3. CASE backend = "sse2"
    <3>1. Loops[operation][backend] = <<Forever(2), Scalar>>
      BY <1>3, <2>3 DEF Loops
    <3>2. /\ IsLoopOf(operation, backend, 2)
          /\ IsLoopOf(operation, backend, 1)
      BY <1>3, <2>3 DEF IsLoopOf, Packs, Unpacks
    <3> QED
      BY <3>1, <3>2 DEF LoopsAreGood, Forever, Once, Scalar
  <2>4. CASE backend = "avx2"
    <3>1. Loops[operation][backend] = <<Forever(8), Once(4), Scalar>>
      BY <1>3, <2>4 DEF Loops
    <3>2. /\ IsLoopOf(operation, backend, 8)
          /\ IsLoopOf(operation, backend, 4)
          /\ IsLoopOf(operation, backend, 1)
      BY <1>3, <2>4 DEF IsLoopOf, Packs, Unpacks
    <3> QED
      BY <3>1, <3>2 DEF LoopsAreGood, Forever, Once, Scalar
  <2> QED
    BY <2>1, <2>2, <2>3, <2>4
<1>4. CASE operation = "Unpack8_LSB"
  <2>1. backend \in {"generic", "sse2", "avx2", "avx512bw"}
    BY <1>4 DEF Loops
  <2>2. CASE backend = "generic"
    <3>1. Loops[operation][backend] = <<Scalar>>
      BY <1>4, <2>2 DEF Loops
    <3>2. IsLoopOf(operation, backend, 1)
      BY <1>4, <2>2 DEF IsLoopOf, Packs, Unpacks
    <3> QED
      BY <3>1, <3>2 DEF LoopsAreGood, Forever, Once, Scalar
  <2>3. CASE backend = "sse2"
    <3>1. Loops[operation][backend] = <<Forever(8), Scalar>>
      BY <1>4, <2>3 DEF Loops
    <3>2. /\ IsLoopOf(operation, backend, 8)
          /\ IsLoopOf(operation, backend, 1)
      BY <1>4, <2>3 DEF IsLoopOf, Packs, Unpacks
    <3> QED
      BY <3>1, <3>2 DEF LoopsAreGood, Forever, Once, Scalar
  <2>4. CASE backend = "avx2"
    <3>1. Loops[operation][backend] = <<Forever(16), Once(8), Once(4), Scalar>>
      BY <1>4, <2>4 DEF Loops
    <3>2. /\ IsLoopOf(operation, backend, 16)
          /\ IsLoopOf(operation, backend, 8)
          /\ IsLoopOf(operation, backend, 4)
          /\ IsLoopOf(operation, backend, 1)
      BY <1>4, <2>4 DEF IsLoopOf, Packs, Unpacks
    <3> QED
      BY <3>1, <3>2 DEF LoopsAreGood, Forever, Once, Scalar
  <2>5. CASE backend = "avx512bw"
    <3>1. Loops[operation][backend] = <<Forever(8), Scalar>>
      BY <1>4, <2>5 DEF Loops
    <3>2. /\ IsLoopOf(operation, backend, 8)
          /\ IsLoopOf(operation, backend, 1)
      BY <1>4, <2>5 DEF IsLoopOf, Packs, Unpacks
    <3> QED
      BY <3>1, <3>2 DEF LoopsAreGood, Forever, Once, Scalar
  <2> QED
    BY <2>1, <2>2, <2>3, <2>4, <2>5
<1>5. CASE operation = "Unpack8_MSB"
  <2>1. backend \in {"generic", "sse2", "avx2"}
    BY <1>5 DEF Loops
  <2>2. CASE backend = "generic"
    <3>1. Loops[operation][backend] = <<Scalar>>
      BY <1>5, <2>2 DEF Loops
    <3>2. IsLoopOf(operation, backend, 1)
      BY <1>5, <2>2 DEF IsLoopOf, Packs, Unpacks
    <3> QED
      BY <3>1, <3>2 DEF LoopsAreGood, Forever, Once, Scalar
  <2>3. CASE backend = "sse2"
    <3>1. Loops[operation][backend] = <<Forever(8), Scalar>>
      BY <1>5, <2>3 DEF Loops
    <3>2. /\ IsLoopOf(operation, backend, 8)
          /\ IsLoopOf(operation, backend, 1)
      BY <1>5, <2>3 DEF IsLoopOf, Packs, Unpacks
    <3> QED
      BY <3>1, <3>2 DEF LoopsAreGood, Forever, Once, Scalar
  <2>4. CASE backend = "avx2"
    <3>1. Loops[operation][backend] = <<Forever(16), Once(8), Once(4), Scalar>>
      BY <1>5, <2>4 DEF Loops
    <3>2. /\ IsLoopOf(operation, backend, 16)
          /\ IsLoopOf(operation, backend, 8)
          /\ IsLoopOf(operation, backend, 4)
          /\ IsLoopOf(operation, backend, 1)
      BY <1>5, <2>4 DEF IsLoopOf, Packs, Unpacks
    <3> QED
      BY <3>1, <3>2 DEF LoopsAreGood, Forever, Once, Scalar
  <2> QED
    BY <2>1, <2>2, <2>3, <2>4
<1>6. CASE operation = "MapQPSK"
  <2>1. backend \in {"generic", "sse2", "avx2"}
    BY <1>6 DEF Loops
  <2>2. CASE backend = "generic"
    <3>1. Loops[operation][backend] = <<Scalar>>
      BY <1>6, <2>2 DEF Loops
    <3>2. IsLoopOf(operation, backend, 1)
      BY <1>6, <2>2 DEF IsLoopOf, Packs, Unpacks
    <3> QED
      BY <3>1, <3>2 DEF LoopsAreGood, Forever, Once, Scalar
  <2>3. CASE backend = "sse2"
    <3>1. Loops[operation][backend] = <<Forever(4), Scalar>>
      BY <1>6, <2>3 DEF Loops
    <3>2. /\ IsLoopOf(operation, backend, 4)
          /\ IsLoopOf(operation, backend, 1)
      BY <1>6, <2>3 DEF IsLoopOf, Packs, Unpacks
    <3> QED
      BY <3>1, <3>2 DEF LoopsAreGood, Forever, Once, Scalar
  <2>4. CASE backend = "avx2"
    <3>1. Loops[operation][backend] = <<Forever(8), Forever(4), Scalar>>
      BY <1>6, <2>4 DEF Loops
    <3>2. /\ IsLoopOf(operation, backend, 8)
          /\ IsLoopOf(operation, backend, 4)
          /\ IsLoopOf(operation, backend, 1)
      BY <1>6, <2>4 DEF IsLoopOf, Packs, Unpacks
    <3> QED
      BY <3>1, <3>2 DEF LoopsAreGood, Forever, Once, Scalar
  <2> QED
    BY <2>1, <2>2, <2>3, <2>4
<1>7. CASE operation = "PowerSpectrum"
  <2>1. backend \in {"generic", "sse2", "avx2"}
    BY <1>7 DEF Loops
  <2>2. CASE backend = "generic"
    <3>1. Loops[operation][backend] = <<Scalar>>
      BY <1>7, <2>2 DEF Loops
    <3>2. IsLoopOf(operation, backend, 1)
      BY <1>7, <2>2 DEF IsLoopOf, Packs, Unpacks
    <3> QED
      BY <3>1, <3>2 DEF LoopsAreGood, Forever, Once, Scalar
  <2>3. CASE backend = "sse2"
    <3>1. Loops[operation][backend] = <<Forever(4), Scalar>>
      BY <1>7, <2>3 DEF Loops
    <3>2. /\ IsLoopOf(operation, backend, 4)
          /\ IsLoopOf(operation, backend, 1)
      BY <1>7, <2>3 DEF IsLoopOf, Packs, Unpacks
    <3> QED
      BY <3>1, <3>2 DEF LoopsAreGood, Forever, Once, Scalar
  <2>4. CASE backend = "avx2"
    <3>1. Loops[operation][backend] = <<Forever(8), Scalar>>
      BY <1>7, <2>4 DEF Loops
    <3>2. /\ IsLoopOf(operation, backend, 8)
          /\ IsLoopOf(operation, backend, 1)
      BY <1>7, <2>4 DEF IsLoopOf, Packs, Unpacks
    <3> QED
      BY <3>1, <3>2 DEF LoopsAreGood, Forever, Once, Scalar
  <2> QED
    BY <2>1, <2>2, <2>3, <2>4
<1>8. CASE operation = "DotProd"
  <2>1. backend \in {"generic", "avx2", "avx2_fma"}
    BY <1>8 DEF Loops
  <2>2. CASE backend = "generic"
    <3>1. Loops[operation][backend] = <<Forever(2), Scalar>>
      BY <1>8, <2>2 DEF Loops
    <3>2. /\ IsLoopOf(operation, backend, 2)
          /\ IsLoopOf(operation, backend, 1)
      BY <1>8, <2>2 DEF IsLoopOf, Packs, Unpacks
    <3> QED
      BY <3>1, <3>2 DEF LoopsAreGood, Forever, Once, Scalar
  <2>3. CASE backend = "avx2"
    <3>1. Loops[operation][backend] = <<Forever(16), Forever(4), Scalar>>
      BY <1>8, <2>3 DEF Loops
    <3>2. /\ IsLoopOf(operation, backend, 16)
          /\ IsLoopOf(operation, backend, 4)
          /\ IsLoopOf(operation, backend, 1)
      BY <1>8, <2>3 DEF IsLoopOf, Packs, Unpacks
    <3> QED
      BY <3>1, <3>2 DEF LoopsAreGood, Forever, Once, Scalar
  <2>4. CASE backend = "avx2_fma"
    <3>1. Loops[operation][backend] = <<Forever(16), Forever(8), Forever(4), Scalar>>
      BY <1>8, <2>4 DEF Loops
    <3>2. /\ IsLoopOf(operation, backend, 16)
          /\ IsLoopOf(operation, backend, 8)
          /\ IsLoopOf(operation, backend, 4)
          /\ IsLoopOf(operation, backend, 1)
      BY <1>8, <2>4 DEF IsLoopOf, Packs, Unpacks
    <3> QED
      BY <3>1, <3>2 DEF LoopsAreGood, Forever, Once, Scalar
  <2> QED
    BY <2>1, <2>2, <2>3, <2>4
<1>9. CASE operation = "DotProdSymmetric"
  <2>1. backend \in {"generic", "avx2", "avx2_fma"}
    BY <1>9 DEF Loops
  <2>2. CASE backend = "generic"
    <3>1. Loops[operation][backend] = <<Forever(4), Scalar>>
      BY <1>9, <2>2 DEF Loops
    <3>2. /\ IsLoopOf(operation, backend, 4)
          /\ IsLoopOf(operation, backend, 1)
      BY <1>9, <2>2 DEF IsLoopOf, Packs, Unpacks
    <3> QED
      BY <3>1, <3>2 DEF LoopsAreGood, Forever, Once, Scalar
  <2>3. CASE backend = "avx2"
    <3>1. Loops[operation][backend] = <<Forever(4), Scalar>>
      BY <1>9, <2>3 DEF Loops
    <3>2. /\ IsLoopOf(operation, backend, 4)
          /\ IsLoopOf(operation, backend, 1)
      BY <1>9, <2>3 DEF IsLoopOf, Packs, Unpacks
    <3> QED
      BY <3>1, <3>2 DEF LoopsAreGood, Forever, Once, Scalar
  <2>4. CASE backend = "avx2_fma"
    <3>1. Loops[operation][backend] = <<Forever(8), Forever(4), Scalar>>
      BY <1>9, <2>4 DEF Loops
    <3>2. /\ IsLoopOf(operation, backend, 8)
          /\ IsLoopOf(operation, backend, 4)
          /\ IsLoopOf(operation, backend, 1)
      BY <1>9, <2>4 DEF IsLoopOf, Packs, Unpacks
    <3> QED
      BY <3>1, <3>2 DEF LoopsAreGood, Forever, Once, Scalar
  <2> QED
    BY <2>1, <2>2, <2>3, <2>4
<1> QED
  BY <1>1, <1>2, <1>3, <1>4, <1>5, <1>6, <1>7, <1>8, <1>9 DEF AllOperations

-----------------------------------------------------------------------------
(* What is there before the first iteration is none of the elements.       *)
LEMMA BegunFacts ==
  ASSUME NEW operation \in AllOperations, NEW a \in Nat, NEW b \in Nat, NEW length \in Nat
  PROVE  /\ IsFiniteSet(Begun(operation, length))
         /\ Begun(operation, length) \cap Slice(operation, a, b, length) = {}
<1>1. CASE operation = "DotProdSymmetric"
  <2>1. Begun(operation, length) = {<<0, <<2 * length + 0>>, -1>>, <<1, <<2 * length + 1>>, -1>>}
    BY <1>1 DEF Begun, Centre, Re, Im
  <2>2. IsFiniteSet(Begun(operation, length))
    <3>1. IsFiniteSet({<<0, <<2 * length + 0>>, -1>>})
      BY FS_Singleton
    <3>2. Begun(operation, length)
            = {<<0, <<2 * length + 0>>, -1>>} \cup {<<1, <<2 * length + 1>>, -1>>}
      BY <2>1
    <3> QED
      BY <3>1, <3>2, FS_AddElement
  <2>3. ASSUME NEW t \in Begun(operation, length), t \in Slice(operation, a, b, length)
        PROVE  FALSE
    <3>1. PICK part \in {Re, Im}, n \in a .. b - 1 : t = DotElement(operation, part, n, length)
      BY <1>1, <2>3, DotSlice DEF Dots
    <3>2. t[3] = n
      BY <1>1, <3>1, DotElements
    <3>3. t[3] = -1
      BY <2>1
    <3> QED
      BY <3>2, <3>3
  <2> QED
    BY <2>2, <2>3
<1>2. CASE operation # "DotProdSymmetric"
  BY <1>2, FS_EmptySet DEF Begun
<1> QED
  BY <1>1, <1>2

MadeUpTo(operation, n, length) == Begun(operation, length) \cup Slice(operation, 0, n, length)

(* Adding a slice to what has been made.                                   *)
LEMMA AnotherSlice ==
  ASSUME NEW operation \in AllOperations, NEW a \in Nat, NEW b \in Nat, NEW length \in Nat, a <= b,
         NEW made, made = MadeUpTo(operation, a, length)
  PROVE  /\ made \cup Slice(operation, a, b, length) = MadeUpTo(operation, b, length)
         /\ Cardinality(made \cup Slice(operation, a, b, length))
              = Cardinality(made) + Cardinality(Slice(operation, a, b, length))
<1>1. 0 \in Nat /\ 0 <= a /\ b <= b
  OBVIOUS
<1>2. /\ Slice(operation, 0, b, length) = Slice(operation, 0, a, length) \cup Slice(operation, a, b, length)
      /\ Slice(operation, 0, a, length) \cap Slice(operation, a, b, length) = {}
      /\ IsFiniteSet(Slice(operation, 0, a, length))
  BY <1>1, SliceFacts
<1>3. IsFiniteSet(Slice(operation, a, b, length))
  BY <1>1, SliceFacts
<1>4. /\ IsFiniteSet(Begun(operation, length))
      /\ Begun(operation, length) \cap Slice(operation, a, b, length) = {}
  BY BegunFacts
<1>5. IsFiniteSet(made)
  BY <1>2, <1>4, FS_Union DEF MadeUpTo
<1>6. made \cap Slice(operation, a, b, length) = {}
  BY <1>2, <1>4 DEF MadeUpTo
<1>7. Cardinality(made \cup Slice(operation, a, b, length))
        = Cardinality(made) + Cardinality(Slice(operation, a, b, length))
  <2>1. Cardinality(made) \in Nat /\ Cardinality(Slice(operation, a, b, length)) \in Nat
    BY <1>3, <1>5, FS_CardinalityType
  <2>2. Cardinality(made \cup Slice(operation, a, b, length))
          = Cardinality(made) + Cardinality(Slice(operation, a, b, length))
            - Cardinality(made \cap Slice(operation, a, b, length))
    BY <1>3, <1>5, FS_Union
  <2>3. Cardinality(made \cap Slice(operation, a, b, length)) = 0
    BY <1>6, FS_EmptySet
  <2> QED
    BY <2>1, <2>2, <2>3
<1> QED
  BY <1>2, <1>7 DEF MadeUpTo

(* A primitive has made the elements up to its index, each of them once,   *)
(* and is past its last loop only when it has made all of them.            *)
PrimitiveInv ==
  stage = "primitive" =>
    /\ call.operation \in AllOperations /\ call.backend \in DOMAIN Loops[call.operation]
    /\ call.length \in Nat
    /\ loop \in 1 .. Len(Current) + 1
    /\ index \in 0 .. call.length
    /\ results = MadeUpTo(call.operation, index, call.length)
    /\ stores = Cardinality(results)
    /\ loop > Len(Current) => index = call.length

LEMMA StartPrimitiveStep ==
  ASSUME NEW operation \in Operations, NEW length \in Lengths,
         NEW backend \in DOMAIN Loops[operation], StartPrimitive(operation, backend, length)
  PROVE  PrimitiveInv'
<1>1. operation \in AllOperations /\ length \in Nat
  BY OperationsAre, LengthsAssumption
<1>2. LoopsAreGood(Loops[operation][backend], operation, backend)
  BY <1>1, LoopsFacts
<1>3. /\ call' = [operation |-> operation, backend |-> backend, length |-> length]
      /\ loop' = 1 /\ index' = 0 /\ results' = Begun(operation, length)
      /\ stores' = Cardinality(Begun(operation, length))
  BY DEF StartPrimitive
<1>4. Slice(operation, 0, 0, length) = {}
  BY <1>1 DEF Slice, Numbers
<1>5. Current' = Loops[operation][backend]
  BY <1>3 DEF Current
<1>6. loop' \in 1 .. Len(Current') + 1 /\ ~(loop' > Len(Current'))
  BY <1>2, <1>3, <1>5 DEF LoopsAreGood
<1> QED
  BY <1>1, <1>3, <1>4, <1>6 DEF PrimitiveInv, MadeUpTo

LEMMA IterateStep == PrimitiveInv /\ Iterate => PrimitiveInv'
<1> SUFFICES ASSUME PrimitiveInv, Iterate PROVE PrimitiveInv'
  OBVIOUS
<1> DEFINE operation == call.operation
           backend == call.backend
           length == call.length
           width == Current[loop].width
           made == Iteration(operation, backend, width, index, length)
<1>1. /\ operation \in AllOperations /\ backend \in DOMAIN Loops[operation] /\ length \in Nat
      /\ loop \in 1 .. Len(Current) + 1 /\ index \in 0 .. length
      /\ results = MadeUpTo(operation, index, length)
      /\ stores = Cardinality(results) /\ loop <= Len(Current) /\ index + width <= length
  BY DEF PrimitiveInv, Iterate, Fits
<1>2. /\ results' = results \cup made /\ stores' = stores + Cardinality(made)
      /\ index' = index + width
      /\ loop' = IF Current[loop].repeats THEN loop ELSE loop + 1
      /\ call' = call /\ stage' = stage /\ stage = "primitive"
  BY DEF Iterate
<1>3. LoopsAreGood(Current, operation, backend)
  BY <1>1, LoopsFacts DEF Current
<1>4. Current' = Current
  BY <1>2 DEF Current
<1>5. IsLoopOf(operation, backend, width)
  BY <1>1, <1>3 DEF LoopsAreGood
<1>6. width \in Nat /\ width >= 1
  BY <1>5 DEF IsLoopOf
<1> HIDE DEF width
<1>7. made = Slice(operation, index, index + width, length)
  BY <1>1, <1>5, IterationIsSlice
<1> HIDE DEF made, operation, backend, length
<1>8. /\ index \in Nat /\ index + width \in Nat /\ index <= index + width
      /\ index + width \in 0 .. length
  BY <1>1, <1>6
<1>9. /\ results \cup made = MadeUpTo(operation, index + width, length)
      /\ Cardinality(results \cup made) = Cardinality(results) + Cardinality(made)
  <2> DEFINE next == index + width
  <2>1. next \in Nat /\ index <= next
    BY <1>8
  <2> HIDE DEF next
  <2>2. /\ operation \in AllOperations /\ length \in Nat /\ index \in Nat /\ next \in Nat
        /\ index <= next /\ results = MadeUpTo(operation, index, length)
    BY <1>1, <1>8, <2>1
  <2>3. results \cup Slice(operation, index, next, length) = MadeUpTo(operation, next, length)
    <3>1. next <= next /\ 0 \in Nat /\ 0 <= index
      BY <2>2
    <3>2. Slice(operation, 0, next, length)
            = Slice(operation, 0, index, length) \cup Slice(operation, index, next, length)
      BY <2>2, <3>1, SliceFacts
    <3> QED
      BY <2>2, <3>2 DEF MadeUpTo
  <2>4. Cardinality(results \cup Slice(operation, index, next, length))
          = Cardinality(results) + Cardinality(Slice(operation, index, next, length))
    BY <2>2, AnotherSlice
  <2> QED
    BY <1>7, <2>3, <2>4 DEF next
<1>10. loop' \in 1 .. Len(Current) /\ Len(Current) \in Nat
  <2>1. CASE Current[loop].repeats
    BY <1>1, <1>2, <1>3, <2>1 DEF LoopsAreGood
  <2>2. CASE ~Current[loop].repeats
    <3>1. loop # Len(Current)
      BY <1>3, <2>2 DEF LoopsAreGood
    <3> QED
      BY <1>1, <1>2, <1>3, <2>2, <3>1 DEF LoopsAreGood
  <2> QED
    BY <2>1, <2>2
<1>11. loop' \in 1 .. Len(Current) + 1 /\ ~(loop' > Len(Current))
  BY <1>10
<1>12. /\ results' = MadeUpTo(operation, index', length)
       /\ stores' = Cardinality(results') /\ index' \in 0 .. length
  BY <1>1, <1>2, <1>8, <1>9
<1> QED
  BY <1>1, <1>2, <1>4, <1>11, <1>12 DEF PrimitiveInv, operation, backend, length

LEMMA LeaveLoopStep == PrimitiveInv /\ LeaveLoop => PrimitiveInv'
<1> SUFFICES ASSUME PrimitiveInv, LeaveLoop PROVE PrimitiveInv'
  OBVIOUS
<1>1. /\ call.operation \in AllOperations /\ call.backend \in DOMAIN Loops[call.operation]
      /\ call.length \in Nat /\ loop \in 1 .. Len(Current) + 1 /\ index \in 0 .. call.length
      /\ loop <= Len(Current) /\ ~(index + Current[loop].width <= call.length)
  BY DEF PrimitiveInv, LeaveLoop, Fits
<1>2. /\ loop' = loop + 1 /\ call' = call /\ stage' = stage /\ index' = index
      /\ results' = results /\ stores' = stores
  BY DEF LeaveLoop
<1>3. LoopsAreGood(Current, call.operation, call.backend)
  BY <1>1, LoopsFacts DEF Current
<1>4. Current' = Current
  BY <1>2 DEF Current
<1>5. loop' \in 1 .. Len(Current) + 1
  BY <1>1, <1>2, <1>3 DEF LoopsAreGood
<1>6. ASSUME loop' > Len(Current)
      PROVE  index = call.length
  <2>1. loop = Len(Current)
    BY <1>1, <1>2, <1>3, <1>6 DEF LoopsAreGood
  <2>2. ~(index + 1 <= call.length)
    BY <1>1, <1>3, <2>1 DEF LoopsAreGood
  <2> QED
    BY <1>1, <2>2
<1> QED
  BY <1>2, <1>4, <1>5, <1>6 DEF PrimitiveInv

LEMMA PrimitiveStep == PrimitiveInv /\ [Next]_vars => PrimitiveInv'
<1> SUFFICES ASSUME PrimitiveInv, [Next]_vars PROVE PrimitiveInv'
  OBVIOUS
<1>1. CASE UNCHANGED vars
  BY <1>1 DEF PrimitiveInv, Current, vars, primitive
<1>2. CASE Iterate
  BY <1>2, IterateStep
<1>3. CASE LeaveLoop
  BY <1>3, LeaveLoopStep
<1>4. CASE ReturnPrimitive
  BY <1>4 DEF ReturnPrimitive, PrimitiveInv
<1>5. CASE TransformOne
  BY <1>5 DEF TransformOne, PrimitiveInv
<1>6. CASE ReturnBatch
  BY <1>6 DEF ReturnBatch, PrimitiveInv
<1>7. ASSUME NEW operation \in Operations, NEW length \in Lengths,
             NEW backend \in DOMAIN Loops[operation], StartPrimitive(operation, backend, length)
      PROVE  PrimitiveInv'
  BY <1>7, StartPrimitiveStep
<1>8. ASSUME NEW batch \in Batches, RefuseBatch(batch)
      PROVE  PrimitiveInv'
  BY <1>8 DEF RefuseBatch, PrimitiveInv, Current, vars, primitive
<1>9. ASSUME NEW batch \in Batches, NEW backend \in {"generic", "avx2_fma", "neon"},
             StartBatch(backend, batch)
      PROVE  PrimitiveInv'
  BY <1>9 DEF StartBatch, PrimitiveInv
<1> QED
  BY <1>1, <1>2, <1>3, <1>4, <1>5, <1>6, <1>7, <1>8, <1>9 DEF Next

LEMMA PrimitiveImplies == PrimitiveInv => ElementsAreDefined
<1> SUFFICES ASSUME PrimitiveInv, stage = "primitive"
             PROVE  /\ results \subseteq Defined(call.operation, call.length)
                                           \cup Begun(call.operation, call.length)
                    /\ stores = Cardinality(results)
                    /\ loop > Len(Current) => results = Defined(call.operation, call.length)
  BY DEF ElementsAreDefined
<1>1. /\ call.operation \in AllOperations /\ call.length \in Nat /\ index \in 0 .. call.length
      /\ results = MadeUpTo(call.operation, index, call.length)
      /\ stores = Cardinality(results)
      /\ loop > Len(Current) => index = call.length
  BY DEF PrimitiveInv
<1>2. Defined(call.operation, call.length)
        = Begun(call.operation, call.length) \cup Slice(call.operation, 0, call.length, call.length)
  BY <1>1, DefinedFacts
<1>3. Slice(call.operation, 0, call.length, call.length)
        = Slice(call.operation, 0, index, call.length)
          \cup Slice(call.operation, index, call.length, call.length)
  <2>1. 0 \in Nat /\ index \in Nat /\ 0 <= index /\ index <= call.length
    BY <1>1
  <2> QED
    BY <1>1, <2>1, SliceFacts
<1> QED
  BY <1>1, <1>2, <1>3 DEF MadeUpTo

(* Whatever the loops of a backend and wherever they end, a primitive      *)
(* makes every element it is defined to make, once, and no other, for      *)
(* every length.                                                           *)
THEOREM ElementsCorrect == Spec => []ElementsAreDefined
<1>1. Init => PrimitiveInv
  BY DEF Init, PrimitiveInv
<1>2. PrimitiveInv /\ [Next]_vars => PrimitiveInv'
  BY PrimitiveStep
<1>3. PrimitiveInv => ElementsAreDefined
  BY PrimitiveImplies
<1> QED
  BY <1>1, <1>2, <1>3, PTL DEF Spec
=============================================================================
