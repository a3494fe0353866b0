-------------------------- MODULE CostasLoopProofs --------------------------
(***************************************************************************)
(* Why the lanes of either backend are independent loops, for every delay, *)
(* period, gain, set of errors and number of lanes.                        *)
(*                                                                         *)
(* Phase and phasor stay the same angle only as long as the two forms of   *)
(* every pending step are, so the two are one invariant.  The accumulated  *)
(* phase is bounded because every pending step is; a step is, because an   *)
(* error that is clamped is no larger than what the detector found, and a  *)
(* frequency comes out of a sample before it becomes a step.  A frequency  *)
(* imposed by a call has no bound, but the call then has a sample.         *)
(*                                                                         *)
(* A lane's queue of decided steps is its ring, oldest first.  A sample    *)
(* moves both on by one step; a skip adds up all steps at once, which is   *)
(* shown step by step to be what coasting for as many samples gives.       *)
(***************************************************************************)
EXTENDS CostasLoop, FiniteSetTheorems, WellFoundedInduction, TLAPS

-----------------------------------------------------------------------------
(* Induction and recursion.                                                *)

(* A set that holds 0 and every successor holds all numbers.               *)
LEMMA Induction ==
  ASSUME NEW S, 0 \in S, \A n \in Nat : n \in S => n + 1 \in S
  PROVE  \A n \in Nat : n \in S
<1> DEFINE T == {n \in Nat : n \notin S}
<1>1. SUFFICES ASSUME T # {} PROVE FALSE
  OBVIOUS
<1> HIDE DEF T
<1>2. T \subseteq Nat
  BY DEF T
<1>3. PICK x \in T : \A y \in T : ~ (<<y, x>> \in OpToRel(<,Nat))
  BY <1>1, <1>2, WFMin, NatLessThanWellFounded
<1>4. x \in Nat /\ x # 0
  BY <1>3 DEF T
<1>5. x - 1 \in Nat /\ (x - 1) + 1 = x
  BY <1>4
<1>6. x - 1 \notin S
  <2>1. x \notin S
    BY <1>3 DEF T
  <2>2. x - 1 \in S => (x - 1) + 1 \in S
    BY <1>5
  <2>3. QED
    BY <2>1, <2>2, <1>5
<1>7. x - 1 \in T
  BY <1>5, <1>6 DEF T
<1>8. <<x - 1, x>> \in OpToRel(<, Nat)
  BY <1>4, <1>5 DEF OpToRel
<1>9. QED
  BY <1>3, <1>7, <1>8

(* Values that follow from each other, starting from the first, exist.     *)
Follow(Values, first, N, next, f) ==
  /\ f \in [0 .. N -> Values]
  /\ f[0] = first /\ \A i \in 1 .. N : f[i] = next[i][f[i - 1]]

LEMMA Recursion ==
  ASSUME NEW Values, NEW first \in Values, NEW N \in Nat,
         NEW next \in [1 .. N -> [Values -> Values]]
  PROVE  \E f : Follow(Values, first, N, next, f)
<1> DEFINE Upto(n, f) == /\ f \in [0 .. n -> Values] /\ f[0] = first
                         /\ \A i \in 1 .. n : f[i] = next[i][f[i - 1]]
           S == {n \in Nat : n <= N => \E f : Upto(n, f)}
<1>1. 0 \in S
  <2> DEFINE f == [i \in 0 .. 0 |-> first]
  <2>1. f \in [0 .. 0 -> Values] /\ f[0] = first
    OBVIOUS
  <2> HIDE DEF f
  <2>2. Upto(0, f)
    BY <2>1
  <2> QED
    BY <2>2
<1>2. ASSUME NEW n \in Nat, n \in S
      PROVE  n + 1 \in S
  <2>1. SUFFICES ASSUME n + 1 <= N
                 PROVE  \E f : Upto(n + 1, f)
    OBVIOUS
  <2>2. PICK f : Upto(n, f)
    BY <1>2, <2>1
  <2> DEFINE g == [i \in 0 .. n + 1 |-> IF i <= n THEN f[i] ELSE next[n + 1][f[n]]]
  <2>3. next[n + 1][f[n]] \in Values
    BY <2>1, <2>2
  <2>4. g \in [0 .. n + 1 -> Values]
    BY <2>2, <2>3
  <2>5. g[0] = first
    BY <2>2
  <2>6. ASSUME NEW i \in 1 .. n + 1
        PROVE  g[i] = next[i][g[i - 1]]
    <3>1. g[i - 1] = f[i - 1]
      OBVIOUS
    <3>2. CASE i <= n
      BY <3>1, <3>2, <2>2
    <3>3. CASE i = n + 1
      BY <3>1, <3>3, <2>2
    <3> QED
      BY <3>2, <3>3
  <2> HIDE DEF g
  <2>7. Upto(n + 1, g)
    BY <2>4, <2>5, <2>6
  <2> QED
    BY <2>7
<1>3. N \in S
  <2> HIDE DEF S
  <2> QED
    BY <1>1, <1>2, Induction
<1> QED
  BY <1>3 DEF Follow

(* Two functions that start alike and go on alike are alike.               *)
GoOnAlike(N, f, g) ==
  f[0] = g[0] /\ \A i \in 1 .. N : f[i - 1] = g[i - 1] => f[i] = g[i]

LEMMA SameRecursion ==
  ASSUME NEW N \in Nat, NEW f, NEW g, GoOnAlike(N, f, g)
  PROVE  \A i \in 0 .. N : f[i] = g[i]
<1> DEFINE S == {n \in Nat : n <= N => f[n] = g[n]}
<1>1. 0 \in S
  BY DEF GoOnAlike
<1>2. ASSUME NEW n \in Nat, n \in S
      PROVE  n + 1 \in S
  <2>1. SUFFICES ASSUME n + 1 <= N
                 PROVE  f[n + 1] = g[n + 1]
    OBVIOUS
  <2>2. f[n] = g[n]
    BY <1>2, <2>1
  <2>3. n + 1 \in 1 .. N /\ (n + 1) - 1 = n
    BY <2>1
  <2> QED
    BY <2>2, <2>3 DEF GoOnAlike
<1>3. \A n \in Nat : n \in S
  <2> HIDE DEF S
  <2> QED
    BY <1>1, <1>2, Induction
<1> QED
  BY <1>3

-----------------------------------------------------------------------------
(* Numbers.                                                                *)

(* Of a number, only what is left of the divisor counts.                   *)
LEMMA RemainderUnique ==
  ASSUME NEW d \in Nat \ {0}, NEW q \in Int, NEW r \in 0 .. d - 1
  PROVE  (q * d + r) % d = r
<1> DEFINE m == q * d + r
           p == m \div d
<1>1. m \in Int /\ p \in Int /\ m % d \in 0 .. d - 1 /\ m = p * d + (m % d)
  OBVIOUS
<1>2. \A e \in Nat \ {0} : e * d >= d
  OBVIOUS
<1>3. (q - p) * d = (m % d) - r
  <2>1. (q - p) * d = q * d - p * d
    BY <1>1
  <2> HIDE DEF p
  <2> QED
    BY <1>1, <2>1
<1>4. (p - q) * d = r - (m % d)
  <2>1. (p - q) * d = p * d - q * d
    BY <1>1
  <2> HIDE DEF p
  <2> QED
    BY <1>1, <2>1
<1>5. q - p \notin Nat \ {0} /\ p - q \notin Nat \ {0}
  <2> HIDE DEF p, m
  <2> QED
    BY <1>1, <1>2, <1>3, <1>4
<1>6. q = p
  <2> HIDE DEF p, m
  <2> QED
    BY <1>1, <1>5
<1> QED
  BY <1>1, <1>3, <1>6

LEMMA Division ==
  ASSUME NEW d \in Nat \ {0}, NEW m \in Int
  PROVE  /\ m \div d \in Int /\ m % d \in 0 .. d - 1
         /\ m = (m \div d) * d + (m % d)
OBVIOUS

LEMMA SameTurns ==
  ASSUME NEW d \in Nat \ {0}, NEW m \in Int, NEW k \in Int
  PROVE  (m + k * d) % d = m % d
<1> DEFINE q == m \div d
           r == m % d
<1>1. q \in Int /\ r \in 0 .. d - 1 /\ m = q * d + r
  BY Division
<1>2. (q + k) * d = q * d + k * d /\ q + k \in Int
  BY <1>1
<1>3. m + k * d = (q + k) * d + r
  <2>1. k * d \in Int /\ q * d \in Int
    BY <1>1
  <2> HIDE DEF q, r
  <2> QED
    BY <1>1, <1>2, <2>1
<1>4. ((q + k) * d + r) % d = r
  <2> HIDE DEF q, r
  <2> QED
    BY <1>1, <1>2, RemainderUnique
<1> QED
  BY <1>3, <1>4

LEMMA SumOfTurns ==
  ASSUME NEW d \in Nat \ {0}, NEW m \in Int, NEW n \in Int
  PROVE  /\ ((m % d) + n) % d = (m + n) % d
         /\ ((m % d) + (n % d)) % d = (m + n) % d
<1>1. ASSUME NEW a \in Int, NEW b \in Int
      PROVE  ((a % d) + b) % d = (a + b) % d
  <2> DEFINE q == a \div d
             r == a % d
  <2>1. q \in Int /\ r \in 0 .. d - 1 /\ a = q * d + r
    BY Division
  <2>2. a + b = (r + b) + q * d /\ r + b \in Int
    <3>1. q * d \in Int
      BY <2>1
    <3> HIDE DEF q, r
    <3> QED
      BY <2>1, <3>1
  <2>3. ((r + b) + q * d) % d = (r + b) % d
    <3> HIDE DEF q, r
    <3> QED
      BY <2>1, <2>2, SameTurns
  <2> QED
    BY <2>2, <2>3
<1>2. n % d \in Int /\ m % d \in Int
  BY Division
<1>3. ((m % d) + (n % d)) % d = (m + (n % d)) % d
  BY <1>1, <1>2
<1>4. ((n % d) + m) % d = (n + m) % d
  BY <1>1
<1>5. m + (n % d) = (n % d) + m /\ m + n = n + m
  BY <1>2
<1> QED
  BY <1>1, <1>3, <1>4, <1>5

(* Finitely many numbers have a largest one.                               *)
LEMMA MaxFacts ==
  ASSUME NEW Values, Values \subseteq Int, Values # {}, IsFiniteSet(Values)
  PROVE  Max(Values) \in Values /\ \A value \in Values : value <= Max(Values)
<1>1. PICK n \in Nat : ExistsBijection(1 .. n, Values)
  BY FS_NatBijection
<1>2. PICK f \in [1 .. n -> Values] : \A value \in Values : \E i \in 1 .. n : f[i] = value
  BY <1>1 DEF ExistsBijection, Bijection, Surjection
<1>3. n # 0
  <2>1. PICK value : value \in Values
    OBVIOUS
  <2>2. PICK i \in 1 .. n : f[i] = value
    BY <1>2, <2>1
  <2> QED
    BY <2>2
<1> DEFINE S == {k \in Nat : k + 1 <= n =>
                    \E top \in 1 .. k + 1 : \A i \in 1 .. k + 1 : f[i] <= f[top]}
<1>4. 0 \in S
  <2>1. ASSUME 0 + 1 <= n
        PROVE  \E top \in 1 .. 0 + 1 : \A i \in 1 .. 0 + 1 : f[i] <= f[top]
    <3>1. 1 \in 1 .. n /\ 0 + 1 = 1
      BY <2>1
    <3>2. f[1] \in Int
      BY <3>1
    <3>3. \A i \in 1 .. 0 + 1 : i = 1
      OBVIOUS
    <3>4. \A i \in 1 .. 0 + 1 : f[i] <= f[1]
      BY <3>2, <3>3
    <3> QED
      BY <3>1, <3>4
  <2> QED
    BY <2>1
<1>5. ASSUME NEW k \in Nat, k \in S
      PROVE  k + 1 \in S
  <2>1. SUFFICES ASSUME (k + 1) + 1 <= n
                 PROVE  \E top \in 1 .. (k + 1) + 1 : \A i \in 1 .. (k + 1) + 1 : f[i] <= f[top]
    OBVIOUS
  <2>2. PICK top \in 1 .. k + 1 : \A i \in 1 .. k + 1 : f[i] <= f[top]
    BY <1>5, <2>1
  <2>3. /\ \A i \in 1 .. (k + 1) + 1 : i \in 1 .. k + 1 \/ i = (k + 1) + 1
        /\ (k + 1) + 1 \in 1 .. (k + 1) + 1 /\ top \in 1 .. (k + 1) + 1
    OBVIOUS
  <2>6. ASSUME NEW i \in 1 .. (k + 1) + 1
        PROVE  f[i] \in Int
    <3>1. i \in 1 .. n
      BY <2>1
    <3>2. f[i] \in Values
      BY <3>1
    <3> QED
      BY <3>2
  <2>4. CASE f[(k + 1) + 1] <= f[top]
    BY <2>2, <2>3, <2>4, <2>6
  <2>5. CASE ~(f[(k + 1) + 1] <= f[top])
    <3>1. \A i \in 1 .. (k + 1) + 1 : f[i] <= f[(k + 1) + 1]
      BY <2>2, <2>3, <2>5, <2>6
    <3> QED
      BY <2>3, <3>1
  <2> QED
    BY <2>4, <2>5
<1>6. n - 1 \in S
  <2> HIDE DEF S
  <2>1. \A k \in Nat : k \in S
    BY <1>4, <1>5, Induction
  <2> QED
    BY <1>3, <2>1
<1>7. PICK top \in 1 .. n : \A i \in 1 .. n : f[i] <= f[top]
  <2>1. n - 1 \in Nat /\ (n - 1) + 1 = n
    BY <1>3
  <2> QED
    BY <1>6, <2>1
<1>8. f[top] \in Values /\ \A value \in Values : value <= f[top]
  BY <1>2, <1>7
<1>9. \E largest \in Values : \A value \in Values : value <= largest
  BY <1>8
<1>10. \E largest \in Values : \A value \in Values : largest >= value
  BY <1>9
<1> QED
  BY <1>10 DEF Max

-----------------------------------------------------------------------------
(* Angles.                                                                 *)

Half == Turn \div 2

LEMMA TurnFacts ==
  /\ Turn \in Nat \ {0} /\ Half \in Nat /\ Turn = 2 * Half
  /\ Delay \in Nat \ {0} /\ Period \in Nat \ {0}
<1>1. Turn \in Nat /\ Turn > 0 /\ Turn % 4 = 0 /\ Delay \in Nat \ {0} /\ Period \in Nat \ {0}
  BY ConstantsAssumption
<1>2. Turn = (Turn \div 4) * 4 + (Turn % 4) /\ Turn \div 4 \in Int
  BY <1>1
<1> QED
  BY <1>1, <1>2 DEF Half

(* Taking off whole turns leaves at most half a turn.                      *)
LEMMA RemainderFacts ==
  ASSUME NEW angle \in Int
  PROVE  /\ Remainder(angle) \in -Half .. Half
         /\ \E turns \in Int : Remainder(angle) = angle + turns * Turn
<1> DEFINE d == 2 * Turn
           nearest == (2 * angle + Turn) \div d
           rest == (2 * angle + Turn) % d
           taken == IF rest = 0 /\ nearest % 2 = 1 THEN nearest - 1 ELSE nearest
<1>1. Turn \in Nat \ {0} /\ Half \in Nat /\ Turn = 2 * Half /\ d \in Nat \ {0}
  BY TurnFacts
<1>2. 2 * angle + Turn \in Int
  BY <1>1
<1>3. nearest \in Int /\ rest \in 0 .. d - 1 /\ 2 * angle + Turn = nearest * d + rest
  <2> HIDE DEF d
  <2> QED
    BY <1>1, <1>2, Division
<1>4. Remainder(angle) = angle - Turn * taken
  BY DEF Remainder
<1>5. nearest * d = 2 * (Turn * nearest)
  BY <1>1, <1>3
<1> HIDE DEF rest
<1> HIDE DEF nearest
<1>6. CASE rest = 0 /\ nearest % 2 = 1
  <2>1. taken = nearest - 1
    BY <1>6
  <2>2. Turn * (nearest - 1) = (Turn * nearest) - Turn
    BY <1>1, <1>3
  <2>3. Remainder(angle) = Half
    BY <1>1, <1>3, <1>4, <1>5, <1>6, <2>1, <2>2
  <2>4. Remainder(angle) = angle + (1 - nearest) * Turn
    <3>1. (1 - nearest) * Turn = Turn - (Turn * nearest)
      BY <1>1, <1>3
    <3> QED
      BY <1>1, <1>3, <1>4, <2>1, <2>2, <3>1
  <2>5. 1 - nearest \in Int
    BY <1>3
  <2> QED
    BY <1>1, <2>3, <2>4, <2>5
<1>7. CASE ~(rest = 0 /\ nearest % 2 = 1)
  <2>1. taken = nearest
    BY <1>7
  <2> DEFINE whole == Turn * nearest
  <2>2. whole \in Int /\ 2 * angle + Turn = 2 * whole + rest /\ Remainder(angle) = angle - whole
    BY <1>1, <1>3, <1>4, <1>5, <2>1
  <2>3. (-nearest) * Turn = -whole /\ -nearest \in Int
    BY <1>1, <1>3
  <2> HIDE DEF whole, taken
  <2>4. Remainder(angle) \in -Half .. Half
    BY <1>1, <1>3, <2>2
  <2>5. Remainder(angle) = angle + (-nearest) * Turn
    BY <2>2, <2>3
  <2> QED
    BY <2>3, <2>4, <2>5
<1> QED
  BY <1>6, <1>7

LEMMA RemainderTurns ==
  ASSUME NEW angle \in Int
  PROVE  Remainder(angle) \in Int /\ Remainder(angle) % Turn = angle % Turn
<1>1. PICK turns \in Int : Remainder(angle) = angle + turns * Turn
  BY RemainderFacts
<1>2. Turn \in Nat \ {0}
  BY TurnFacts
<1>3. (angle + turns * Turn) % Turn = angle % Turn
  BY <1>2, SameTurns
<1>4. Remainder(angle) \in Int
  BY RemainderFacts
<1> QED
  BY <1>1, <1>3, <1>4

LEMMA NormalizedFacts ==
  ASSUME NEW angle \in Int
  PROVE  /\ Normalized(angle) \in -Half .. Half
         /\ Normalized(angle) % Turn = angle % Turn
<1>1. Turn \in Nat \ {0} /\ Half \in Nat /\ Turn = 2 * Half
  BY TurnFacts
<1>2. /\ Remainder(angle) \in -Half .. Half /\ Remainder(angle) \in Int
      /\ Remainder(angle) % Turn = angle % Turn
  BY RemainderFacts, RemainderTurns
<1>3. CASE 2 * Remainder(angle) <= -Turn
  <2>1. Normalized(angle) = Half /\ Half = Remainder(angle) + 1 * Turn
    BY <1>1, <1>2, <1>3 DEF Normalized, Half
  <2>2. (Remainder(angle) + 1 * Turn) % Turn = Remainder(angle) % Turn
    <3> DEFINE m == Remainder(angle)
               one == 1
    <3>1. m \in Int /\ one \in Int
      BY <1>2
    <3> HIDE DEF m, one
    <3>2. (m + one * Turn) % Turn = m % Turn
      BY <1>1, <3>1, SameTurns
    <3> QED
      BY <3>2 DEF m, one
  <2> QED
    BY <1>1, <1>2, <2>1, <2>2
<1>4. CASE ~(2 * Remainder(angle) <= -Turn)
  BY <1>2, <1>4 DEF Normalized
<1> QED
  BY <1>3, <1>4

LEMMA StepFacts ==
  ASSUME NEW delta \in Int
  PROVE  Step(delta) \in Steps /\ Step(delta).step = delta /\ Step(delta).rotor = delta % Turn
<1>1. delta % Turn \in 0 .. Turn - 1
  BY TurnFacts, Division
<1> QED
  BY <1>1 DEF Step, Steps

-----------------------------------------------------------------------------
(* Sizes.                                                                  *)

LEMMA SizeFacts ==
  /\ \A number \in Int : Size(number) \in Nat /\ number \in -Size(number) .. Size(number)
  /\ \A number \in Int, size \in Nat : number \in -size .. size => Size(number) <= size
BY DEF Size

LEMMA ProductSize ==
  ASSUME NEW a \in Int, NEW c \in Int, NEW size \in Nat, c \in -size .. size
  PROVE  a * c \in -(Size(a) * size) .. Size(a) * size
<1>1. Size(c) \in Nat /\ Size(c) <= size /\ Size(a) \in Nat
  BY SizeFacts
<1>2. Size(a) * Size(c) <= Size(a) * size
  <2>1. \A x, y, z \in Nat : y <= z => x * y <= x * z
    OBVIOUS
  <2> QED
    BY <1>1, <2>1
<1>3. a * c = Size(a) * Size(c) \/ a * c = -(Size(a) * Size(c))
  <2>1. \A x, y \in Int : x * (-y) = -(x * y) /\ (-x) * y = -(x * y) /\ (-x) * (-y) = x * y
    OBVIOUS
  <2> QED
    BY <2>1 DEF Size
<1>4. Size(a) * Size(c) \in Nat /\ Size(a) * size \in Nat /\ a * c \in Int
  BY <1>1
<1> QED
  BY <1>2, <1>3, <1>4

LEMMA LargestStepFacts ==
  /\ LargestStep \in Nat /\ MaxFrequency <= LargestStep
  /\ InitialFrequency \in -LargestStep .. LargestStep
  /\ \A error \in Errors, found \in Int, corrected \in -MaxFrequency .. MaxFrequency :
       found \in -Size(error) .. Size(error) =>
         corrected + Alpha * found \in -LargestStep .. LargestStep
<1> DEFINE Sizes == {0} \cup {Size(error) : error \in Errors}
           corrections == Size(Alpha) * Max(Sizes)
           Candidates == {MaxFrequency + corrections, Size(InitialFrequency)}
<1>1. /\ Alpha \in Int /\ InitialFrequency \in Int /\ MaxFrequency \in Nat
      /\ Errors \subseteq Int /\ IsFiniteSet(Errors)
  BY ConstantsAssumption
<1>2. Sizes \subseteq Int /\ Sizes \subseteq Nat /\ Sizes # {}
  BY <1>1, SizeFacts
<1>3. IsFiniteSet(Sizes)
  <2>1. IsFiniteSet({Size(error) : error \in Errors})
    <3> DEFINE Found == {Size(error) : error \in Errors}
               f == [error \in Errors |-> Size(error)]
    <3>1. f \in Surjection(Errors, Found)
      BY DEF Surjection
    <3> HIDE DEF f, Found
    <3>2. IsFiniteSet(Found)
      BY <1>1, <3>1, FS_Surjection
    <3> QED
      BY <3>2 DEF Found
  <2> QED
    BY <2>1, FS_AddElement, FS_EmptySet, FS_Singleton, FS_Union
<1>4. \A error \in Errors : Size(error) \in Sizes
  OBVIOUS
<1>5. LargestStep = Max(Candidates)
  BY DEF LargestStep
<1> HIDE DEF Sizes
<1>6. Max(Sizes) \in Nat /\ \A size \in Sizes : size <= Max(Sizes)
  <2>1. Max(Sizes) \in Sizes /\ \A size \in Sizes : size <= Max(Sizes)
    BY <1>2, <1>3, MaxFacts
  <2> QED
    BY <1>2, <2>1
<1>7. Size(Alpha) \in Nat /\ Size(InitialFrequency) \in Nat
  BY <1>1, SizeFacts
<1>8. corrections \in Nat
  BY <1>6, <1>7
<1> HIDE DEF corrections
<1>9. /\ LargestStep \in Nat /\ MaxFrequency + corrections <= LargestStep
      /\ Size(InitialFrequency) <= LargestStep
  <2>1. Candidates \subseteq Int /\ Candidates \subseteq Nat /\ Candidates # {}
    BY <1>1, <1>7, <1>8
  <2>2. IsFiniteSet(Candidates)
    <3> DEFINE one == MaxFrequency + corrections
               other == Size(InitialFrequency)
    <3>1. Candidates = {one} \cup {other}
      OBVIOUS
    <3> HIDE DEF one, other, Candidates
    <3>2. IsFiniteSet({one})
      BY FS_Singleton
    <3>3. IsFiniteSet({one} \cup {other})
      BY <3>2, FS_AddElement
    <3> QED
      BY <3>1, <3>3
  <2>3. MaxFrequency + corrections \in Candidates /\ Size(InitialFrequency) \in Candidates
    OBVIOUS
  <2> HIDE DEF Candidates
  <2>4. Max(Candidates) \in Candidates /\ \A size \in Candidates : size <= Max(Candidates)
    BY <2>1, <2>2, MaxFacts
  <2> QED
    BY <1>5, <2>1, <2>3, <2>4
<1>10. MaxFrequency <= LargestStep
  BY <1>1, <1>8, <1>9
<1>11. InitialFrequency \in -LargestStep .. LargestStep
  BY <1>1, <1>7, <1>9, SizeFacts
<1>12. ASSUME NEW error \in Errors, NEW found \in Int,
              NEW corrected \in -MaxFrequency .. MaxFrequency,
              found \in -Size(error) .. Size(error)
       PROVE  corrected + Alpha * found \in -LargestStep .. LargestStep
  <2>1. Size(error) \in Nat /\ Size(error) <= Max(Sizes)
    BY <1>1, <1>4, <1>6, SizeFacts
  <2>2. found \in -Max(Sizes) .. Max(Sizes)
    BY <1>6, <1>12, <2>1
  <2>3. Alpha * found \in -corrections .. corrections
    BY <1>1, <1>6, <2>2, ProductSize DEF corrections
  <2> QED
    BY <1>1, <1>8, <1>9, <2>3
<1> QED
  BY <1>9, <1>10, <1>11, <1>12

LEMMA ClampedFacts ==
  ASSUME NEW value \in Int, NEW bound \in Nat
  PROVE  /\ Clamped(value, bound) \in Int
         /\ Clamped(value, bound) \in -Size(value) .. Size(value)
         /\ bound = 0 \/ value \in -bound .. bound => Clamped(value, bound) = value
BY DEF Clamped, Size

-----------------------------------------------------------------------------
(* The invariant.                                                          *)

StepsAreSmall ==
  \A lane \in Lanes, slot \in 0 .. Delay - 1 :
    pending[lane][slot].step \in -LargestStep .. LargestStep

(* An imposed frequency has no bound, but a sample follows that bounds it. *)
FrequencyIsSmall ==
  ~busy \/ left = 0 => \A lane \in Lanes : frequency[lane] \in -LargestStep .. LargestStep

SlotStays == Backend = "generic" => pending_slot = 0

IInv ==
  /\ TypeOK /\ PhasorFollowsPhase /\ PhaseStaysSmall
  /\ StepsAreSmall /\ FrequencyIsSmall /\ SlotStays

LEMMA StartFacts ==
  /\ Start.phase \in Int /\ Start.phase \in Grown(0)
  /\ Start.phasor \in 0 .. Turn - 1 /\ Start.phasor = Start.phase % Turn
  /\ Start.phasor = InitialPhase % Turn
  /\ Start.pending = [slot \in 0 .. Delay - 1 |-> Step(0)]
  /\ Start.pending \in [0 .. Delay - 1 -> Steps]
  /\ \A slot \in 0 .. Delay - 1 :
       /\ Start.pending[slot].step = 0
       /\ Start.pending[slot].rotor = Start.pending[slot].step % Turn
<1>1. /\ Start.phase = Remainder(InitialPhase)
      /\ Start.phasor = Remainder(InitialPhase) % Turn
      /\ Start.pending = [slot \in 0 .. Delay - 1 |-> Step(0)]
  BY DEF Start
<1>2. InitialPhase \in Int
  BY ConstantsAssumption
<1>3. /\ Remainder(InitialPhase) \in -Half .. Half /\ Remainder(InitialPhase) \in Int
      /\ Remainder(InitialPhase) % Turn = InitialPhase % Turn
  BY <1>2, RemainderFacts, RemainderTurns
<1>4. Remainder(InitialPhase) % Turn \in 0 .. Turn - 1
  BY <1>3, TurnFacts, Division
<1>5. Grown(0) = -Half .. Half
  <2>1. Half + 0 * LargestStep = Half
    BY TurnFacts, LargestStepFacts
  <2> QED
    BY <2>1 DEF Grown, Half
<1>6. Step(0) \in Steps /\ Step(0).step = 0 /\ Step(0).rotor = Step(0).step % Turn
  BY StepFacts
<1> QED
  BY <1>1, <1>3, <1>4, <1>5, <1>6

LEMMA Initially == Init => IInv
<1> SUFFICES ASSUME Init
             PROVE  IInv
  OBVIOUS
<1> USE DEF Init
<1>1. TypeOK
  <2>1. InitialFrequency \in Int /\ Delay \in Nat \ {0} /\ Period \in Nat \ {0}
    BY ConstantsAssumption
  <2>2. phase \in [Lanes -> Int] /\ phasor \in [Lanes -> 0 .. Turn - 1]
    BY StartFacts
  <2>3. pending \in [Lanes -> [0 .. Delay - 1 -> Steps]]
    BY StartFacts
  <2>4. /\ frequency \in [Lanes -> Int] /\ last_error \in [Lanes -> Int]
        /\ limit \in [Lanes -> Nat]
    BY <2>1
  <2>5. pending_slot \in 0 .. Delay - 1 /\ samples_since_normalization \in 0 .. Period - 1
    BY <2>1
  <2>6. busy \in BOOLEAN
    OBVIOUS
  <2>7. left \in Nat /\ ~(left > 0) /\ pending_slot = 0
    OBVIOUS
  <2> HIDE DEF Init
  <2> QED
    BY <2>2, <2>3, <2>4, <2>5, <2>6, <2>7 DEF TypeOK
<1>2. PhasorFollowsPhase
  BY StartFacts DEF PhasorFollowsPhase
<1>3. PhaseStaysSmall
  BY StartFacts DEF PhaseStaysSmall
<1>4. StepsAreSmall
  BY StartFacts, LargestStepFacts DEF StepsAreSmall
<1>5. FrequencyIsSmall
  BY LargestStepFacts DEF FrequencyIsSmall
<1> QED
  BY <1>1, <1>2, <1>3, <1>4, <1>5 DEF IInv, SlotStays

LEMMA GrownFacts ==
  ASSUME NEW samples \in Nat
  PROVE  /\ -Half .. Half \subseteq Grown(samples)
         /\ \A angle \in Grown(samples), step \in -LargestStep .. LargestStep :
              angle + step \in Grown(samples + 1)
<1> DEFINE more == samples * LargestStep
<1>1. more \in Nat /\ Half \in Nat /\ LargestStep \in Nat
  BY LargestStepFacts, TurnFacts
<1>2. (samples + 1) * LargestStep = more + LargestStep
  BY <1>1
<1>3. Grown(samples) = -(Half + more) .. Half + more
  BY DEF Grown, Half
<1>4. Grown(samples + 1) = -(Half + (more + LargestStep)) .. Half + (more + LargestStep)
  BY <1>2 DEF Grown, Half
<1> HIDE DEF more
<1> QED
  BY <1>1, <1>3, <1>4

-----------------------------------------------------------------------------
(* A sample.                                                               *)

LEMMA SampleKeeps ==
  ASSUME IInv, NEW error \in [Lanes -> Errors], Sample(error)
  PROVE  IInv'
<1> DEFINE clipped == IF Clamps(error) THEN [lane \in Lanes |-> Clamped(error[lane], Clip)] ELSE error
           oldest(lane) == pending[lane][pending_slot]
           moved(lane) == phase[lane] + oldest(lane).step
           delta(lane) == frequency'[lane] + Alpha * clipped[lane]
<1>1. /\ busy /\ left > 0 /\ left' = left - 1
      /\ last_error' = clipped
      /\ frequency' = [lane \in Lanes |->
           LET corrected == frequency[lane] + Beta * clipped[lane]
           IN  IF Clamps(error) THEN Clamped(corrected, limit[lane]) ELSE corrected]
      /\ \A lane \in Lanes : frequency'[lane] \in -MaxFrequency .. MaxFrequency
      /\ phasor' = [lane \in Lanes |-> (phasor[lane] + oldest(lane).rotor) % Turn]
      /\ phase' = [lane \in Lanes |->
           IF Normalizing THEN Normalized(moved(lane)) ELSE moved(lane)]
      /\ pending' = [lane \in Lanes |-> Queued(lane, delta(lane))]
      /\ pending_slot' = IF Backend = "generic" THEN 0 ELSE (pending_slot + 1) % Delay
      /\ samples_since_normalization' = IF Normalizing THEN 0 ELSE samples_since_normalization + 1
      /\ busy' = busy /\ limit' = limit
  BY DEF Sample
<1>2. /\ Turn \in Nat \ {0} /\ Half \in Nat /\ Delay \in Nat \ {0} /\ Period \in Nat \ {0}
      /\ LargestStep \in Nat
  BY TurnFacts, LargestStepFacts
<1>3. TypeOK
  BY DEF IInv
<1>4. ASSUME NEW lane \in Lanes
      PROVE  /\ clipped[lane] \in Int
             /\ clipped[lane] \in -Size(error[lane]) .. Size(error[lane])
  <2>1. error[lane] \in Int /\ Clip \in Nat
    BY ConstantsAssumption
  <2>2. error[lane] \in -Size(error[lane]) .. Size(error[lane])
    BY <2>1, SizeFacts
  <2>3. /\ Clamped(error[lane], Clip) \in Int
        /\ Clamped(error[lane], Clip) \in -Size(error[lane]) .. Size(error[lane])
    BY <2>1, ClampedFacts
  <2> QED
    BY <2>1, <2>2, <2>3
<1>5. clipped \in [Lanes -> Int]
  <2>1. clipped = [lane \in Lanes |-> clipped[lane]]
    OBVIOUS
  <2> HIDE DEF clipped
  <2> QED
    BY <1>4, <2>1
<1>6. ASSUME NEW lane \in Lanes
      PROVE  /\ frequency'[lane] \in Int
             /\ delta(lane) \in Int /\ delta(lane) \in -LargestStep .. LargestStep
  <2>1. frequency'[lane] \in -MaxFrequency .. MaxFrequency /\ MaxFrequency \in Nat
    BY <1>1, ConstantsAssumption
  <2>2. error[lane] \in Errors
    OBVIOUS
  <2> HIDE DEF clipped
  <2>3. frequency'[lane] + Alpha * clipped[lane] \in -LargestStep .. LargestStep
    BY <1>4, <2>1, <2>2, LargestStepFacts
  <2> QED
    BY <1>2, <2>1, <2>3
<1> HIDE DEF clipped, delta
<1>7. ASSUME NEW lane \in Lanes
      PROVE  /\ oldest(lane) \in Steps /\ oldest(lane).step \in Int
             /\ oldest(lane).rotor = oldest(lane).step % Turn
             /\ oldest(lane).step \in -LargestStep .. LargestStep
             /\ phase[lane] \in Int /\ phasor[lane] = phase[lane] % Turn
  <2>1. pending_slot \in 0 .. Delay - 1
    BY <1>3 DEF TypeOK
  <2>2. oldest(lane) \in Steps /\ phase[lane] \in Int
    BY <1>3, <2>1 DEF TypeOK
  <2> QED
    BY <2>1, <2>2 DEF IInv, PhasorFollowsPhase, StepsAreSmall, Steps
<1> HIDE DEF oldest
<1>8. ASSUME NEW lane \in Lanes
      PROVE  /\ moved(lane) \in Int
             /\ moved(lane) % Turn = (phasor[lane] + oldest(lane).rotor) % Turn
             /\ moved(lane) \in Grown(samples_since_normalization + 1)
  <2>1. /\ samples_since_normalization \in Nat
        /\ phase[lane] \in Grown(samples_since_normalization)
    BY <1>2, <1>3 DEF TypeOK, IInv, PhaseStaysSmall
  <2>2. moved(lane) \in Int
    BY <1>2, <1>7
  <2>3. moved(lane) \in Grown(samples_since_normalization + 1)
    BY <1>7, <2>1, GrownFacts
  <2>4. ((phase[lane] % Turn) + (oldest(lane).step % Turn)) % Turn
          = (phase[lane] + oldest(lane).step) % Turn
    BY <1>2, <1>7, SumOfTurns
  <2> QED
    BY <1>7, <2>2, <2>3, <2>4
<1>9. ASSUME NEW lane \in Lanes
      PROVE  /\ phase'[lane] \in Int /\ phase'[lane] \in Grown(samples_since_normalization')
             /\ phasor'[lane] \in 0 .. Turn - 1 /\ phasor'[lane] = phase'[lane] % Turn
  <2>1. phasor'[lane] = moved(lane) % Turn /\ moved(lane) % Turn \in 0 .. Turn - 1
    BY <1>1, <1>2, <1>8, Division
  <2>2. CASE Normalizing
    <3>1. phase'[lane] = Normalized(moved(lane)) /\ samples_since_normalization' = 0
      BY <1>1, <2>2
    <3>2. /\ Normalized(moved(lane)) \in -Half .. Half
          /\ Normalized(moved(lane)) % Turn = moved(lane) % Turn
      BY <1>8, NormalizedFacts
    <3>3. -Half .. Half \subseteq Grown(0)
      BY GrownFacts
    <3> QED
      BY <1>2, <2>1, <3>1, <3>2, <3>3
  <2>3. CASE ~Normalizing
    <3>1. /\ phase'[lane] = moved(lane)
          /\ samples_since_normalization' = samples_since_normalization + 1
      BY <1>1, <2>3
    <3> QED
      BY <1>8, <2>1, <3>1
  <2> QED
    BY <2>2, <2>3
<1>10. ASSUME NEW lane \in Lanes
       PROVE  /\ pending'[lane] \in [0 .. Delay - 1 -> Steps]
              /\ \A slot \in 0 .. Delay - 1 :
                   /\ pending'[lane][slot].rotor = pending'[lane][slot].step % Turn
                   /\ pending'[lane][slot].step \in -LargestStep .. LargestStep
  <2> DEFINE new == Step(delta(lane))
  <2>1. new \in Steps /\ new.rotor = new.step % Turn /\ new.step \in -LargestStep .. LargestStep
    BY <1>6, StepFacts
  <2>2. /\ pending[lane] \in [0 .. Delay - 1 -> Steps]
        /\ \A slot \in 0 .. Delay - 1 :
             /\ pending[lane][slot].rotor = pending[lane][slot].step % Turn
             /\ pending[lane][slot].step \in -LargestStep .. LargestStep
    BY <1>3 DEF TypeOK, IInv, PhasorFollowsPhase, StepsAreSmall
  <2>3. pending'[lane] = Queued(lane, delta(lane))
    BY <1>1
  <2> HIDE DEF new
  <2>4. /\ DOMAIN pending'[lane] = 0 .. Delay - 1
        /\ pending'[lane] = [slot \in 0 .. Delay - 1 |-> pending'[lane][slot]]
    BY <2>2, <2>3 DEF Queued
  <2>5. ASSUME NEW slot \in 0 .. Delay - 1
        PROVE  \/ pending'[lane][slot] = new
               \/ \E other \in 0 .. Delay - 1 : pending'[lane][slot] = pending[lane][other]
    <3>1. CASE Backend = "generic"
      <4>1. slot = Delay - 1 \/ slot + 1 \in 0 .. Delay - 1
        BY <1>2
      <4> QED
        BY <2>3, <3>1, <4>1 DEF Queued, new
    <3>2. CASE Backend # "generic"
      BY <2>2, <2>3, <3>2 DEF Queued, new
    <3> QED
      BY <3>1, <3>2
  <2>6. ASSUME NEW slot \in 0 .. Delay - 1
        PROVE  /\ pending'[lane][slot] \in Steps
               /\ pending'[lane][slot].rotor = pending'[lane][slot].step % Turn
               /\ pending'[lane][slot].step \in -LargestStep .. LargestStep
    BY <2>1, <2>2, <2>5
  <2> QED
    BY <2>4, <2>6
<1>11. pending_slot' \in 0 .. Delay - 1 /\ SlotStays'
  <2>1. pending_slot + 1 \in Int /\ 0 \in 0 .. Delay - 1
    BY <1>2, <1>3 DEF TypeOK
  <2>2. (pending_slot + 1) % Delay \in 0 .. Delay - 1
    BY <1>2, <2>1, Division
  <2> QED
    BY <1>1, <2>1, <2>2 DEF SlotStays
<1>12. samples_since_normalization' \in 0 .. Period - 1
  BY <1>1, <1>2, <1>3 DEF TypeOK, Normalizing
<1>13. TypeOK'
  <2>1. phase' \in [Lanes -> Int] /\ phasor' \in [Lanes -> 0 .. Turn - 1]
    BY <1>1, <1>9
  <2>2. frequency' \in [Lanes -> Int] /\ last_error' \in [Lanes -> Int]
    <3>1. frequency' = [lane \in Lanes |-> frequency'[lane]]
      BY <1>1
    <3> QED
      BY <1>1, <1>5, <1>6, <3>1
  <2>3. pending' \in [Lanes -> [0 .. Delay - 1 -> Steps]]
    BY <1>1, <1>10
  <2> QED
    BY <1>1, <1>3, <1>11, <1>12, <2>1, <2>2, <2>3 DEF TypeOK
<1>14. PhasorFollowsPhase' /\ PhaseStaysSmall'
  BY <1>9, <1>10 DEF PhasorFollowsPhase, PhaseStaysSmall
<1>15. StepsAreSmall'
  BY <1>10 DEF StepsAreSmall
<1>16. FrequencyIsSmall'
  <2>1. \A lane \in Lanes : frequency'[lane] \in -LargestStep .. LargestStep
    BY <1>1, <1>2, LargestStepFacts, ConstantsAssumption
  <2> QED
    BY <2>1 DEF FrequencyIsSmall
<1> QED
  BY <1>11, <1>13, <1>14, <1>15, <1>16 DEF IInv

-----------------------------------------------------------------------------
(* The other operations.                                                   *)

LEMMA ExecuteKeeps ==
  ASSUME IInv, NEW count \in SampleCounts, NEW limits \in [Lanes -> Limits],
         Execute(count, limits)
  PROVE  IInv'
<1> USE DEF IInv
<1>1. /\ count \in Nat \ {0} /\ busy' = TRUE /\ left' = count /\ limit' = limits
      /\ UNCHANGED <<phase, phasor, last_error, pending, pending_slot, samples_since_normalization>>
  BY ConstantsAssumption DEF Execute
<1>2. PICK mask \in SUBSET Lanes, override \in [Lanes -> Overrides] :
        frequency' = [lane \in Lanes |-> IF lane \in mask THEN override[lane] ELSE frequency[lane]]
  BY DEF Execute
<1>3. frequency' \in [Lanes -> Int] /\ limit' \in [Lanes -> Nat]
  <2>1. \A lane \in Lanes : override[lane] \in Int /\ frequency[lane] \in Int
    BY ConstantsAssumption DEF TypeOK
  <2>2. limits \in [Lanes -> Nat]
    BY ConstantsAssumption
  <2> QED
    BY <1>1, <1>2, <2>1, <2>2
<1>4. TypeOK'
  BY <1>1, <1>3 DEF TypeOK
<1>5. FrequencyIsSmall'
  BY <1>1 DEF FrequencyIsSmall
<1> QED
  BY <1>1, <1>4, <1>5
     DEF PhasorFollowsPhase, PhaseStaysSmall, StepsAreSmall, SlotStays

(* The ring, from its oldest step on, holds the steps it holds.            *)
LEMMA OldestFirstFacts ==
  ASSUME TypeOK, NEW lane \in Lanes
  PROVE  /\ OldestFirst(lane) \in [0 .. Delay - 1 -> Steps]
         /\ \A slot \in 0 .. Delay - 1 : \E place \in 0 .. Delay - 1 :
              OldestFirst(lane)[slot] = pending[lane][place]
         /\ pending_slot = 0 => OldestFirst(lane) = pending[lane]
<1>1. /\ Delay \in Nat \ {0} /\ pending_slot \in 0 .. Delay - 1
      /\ pending[lane] \in [0 .. Delay - 1 -> Steps]
  BY TurnFacts DEF TypeOK
<1>2. ASSUME NEW slot \in 0 .. Delay - 1
      PROVE  (pending_slot + slot) % Delay \in 0 .. Delay - 1
  <2> DEFINE n == pending_slot + slot
  <2>1. n \in Int
    BY <1>1
  <2> HIDE DEF n
  <2>2. n % Delay \in 0 .. Delay - 1
    BY <1>1, <2>1, Division
  <2> QED
    BY <2>2 DEF n
<1>3. ASSUME pending_slot = 0
      PROVE  OldestFirst(lane) = pending[lane]
  <2>1. \A slot \in 0 .. Delay - 1 : (0 + slot) % Delay = slot
    BY <1>1
  <2>2. OldestFirst(lane) = [slot \in 0 .. Delay - 1 |-> pending[lane][slot]]
    BY <1>3, <2>1 DEF OldestFirst
  <2> QED
    BY <1>1, <2>2
<1> QED
  BY <1>1, <1>2, <1>3 DEF OldestFirst

LEMMA ReturnKeeps == IInv /\ Return => IInv'
<1> SUFFICES ASSUME IInv, Return
             PROVE  IInv'
  OBVIOUS
<1> USE DEF IInv
<1>1. /\ left = 0 /\ busy' = FALSE /\ limit' = [lane \in Lanes |-> 0] /\ pending_slot' = 0
      /\ pending' = [lane \in Lanes |-> OldestFirst(lane)]
      /\ UNCHANGED <<phase, phasor, frequency, last_error, samples_since_normalization, left>>
  BY DEF Return
<1>2. ASSUME NEW lane \in Lanes
      PROVE  /\ pending'[lane] \in [0 .. Delay - 1 -> Steps]
             /\ \A slot \in 0 .. Delay - 1 : \E place \in 0 .. Delay - 1 :
                  pending'[lane][slot] = pending[lane][place]
  BY <1>1, OldestFirstFacts
<1>3. TypeOK'
  <2>1. pending' \in [Lanes -> [0 .. Delay - 1 -> Steps]]
    BY <1>1, <1>2
  <2>2. pending_slot' \in 0 .. Delay - 1
    BY <1>1, TurnFacts
  <2>3. limit' \in [Lanes -> Nat]
    BY <1>1
  <2>4. busy' \in BOOLEAN
    BY <1>1
  <2>5. left' \in Nat /\ ~(left' > 0) /\ pending_slot' = 0
    BY <1>1
  <2> QED
    BY <1>1, <2>1, <2>2, <2>3, <2>4, <2>5 DEF TypeOK
<1>4. PhasorFollowsPhase'
  BY <1>1, <1>2 DEF PhasorFollowsPhase
<1>5. StepsAreSmall'
  <2> SUFFICES ASSUME NEW lane \in Lanes, NEW slot \in 0 .. Delay - 1
               PROVE  pending'[lane][slot].step \in -LargestStep .. LargestStep
    BY DEF StepsAreSmall
  <2>1. PICK place \in 0 .. Delay - 1 : pending'[lane][slot] = pending[lane][place]
    BY <1>2
  <2> QED
    BY <2>1 DEF StepsAreSmall
<1>6. PhaseStaysSmall' /\ FrequencyIsSmall' /\ SlotStays'
  BY <1>1 DEF PhaseStaysSmall, FrequencyIsSmall, SlotStays
<1> QED
  BY <1>3, <1>4, <1>5, <1>6

(* What is summed up when steps are skipped.                               *)
Sums(lane, applied, made) ==
  /\ made \in [0 .. applied -> Int] /\ made[0] = phase[lane]
  /\ \A n \in 1 .. applied : made[n] = made[n - 1] + pending[lane][n - 1].step

Least(count) == IF count < Delay THEN count ELSE Delay

LEMMA CoastedFacts ==
  ASSUME TypeOK, NEW lane \in Lanes, NEW count \in Nat
  PROVE  \E made : /\ Sums(lane, Least(count), made)
                   /\ Coasted(lane, count)
                        = made[Least(count)] + (count - Least(count)) * frequency[lane]
<1> DEFINE N == Least(count)
           first == phase[lane]
           next == [n \in 1 .. N |-> [sum \in Int |-> sum + pending[lane][n - 1].step]]
           Is(made) == made = [n \in 0 .. N |->
                                 IF n = 0 THEN first ELSE made[n - 1] + pending[lane][n - 1].step]
<1>1. N \in Nat /\ N <= Delay /\ Delay \in Nat \ {0}
  BY TurnFacts DEF Least
<1>2. first \in Int
  BY DEF TypeOK
<1>3. \A n \in 1 .. N : pending[lane][n - 1].step \in Int
  <2>1. pending[lane] \in [0 .. Delay - 1 -> Steps]
    BY Zenon DEF TypeOK
  <2>2. ASSUME NEW n \in 1 .. N
        PROVE  n - 1 \in 0 .. Delay - 1
    BY <1>1
  <2>3. \A pair \in Steps : pair.step \in Int
    BY DEF Steps
  <2> QED
    BY <2>1, <2>2, <2>3, Zenon
<1>4. next \in [1 .. N -> [Int -> Int]]
  <2>1. ASSUME NEW n \in 1 .. N
        PROVE  [sum \in Int |-> sum + pending[lane][n - 1].step] \in [Int -> Int]
    <3>1. \A sum \in Int : sum + pending[lane][n - 1].step \in Int
      BY <1>3
    <3> QED
      BY <3>1, Zenon
  <2> QED
    BY <2>1, Zenon
<1>5. \A n \in 1 .. N, sum \in Int : next[n][sum] = sum + pending[lane][n - 1].step
  OBVIOUS
<1>6. Coasted(lane, count)
        = LET made[n \in 0 .. N] ==
                IF n = 0 THEN first ELSE made[n - 1] + pending[lane][n - 1].step
          IN  made[N] + (count - N) * frequency[lane]
  BY DEF Coasted, Least
<1> HIDE DEF N, first, next
<1>7. PICK made : Follow(Int, first, N, next, made)
  BY <1>1, <1>2, <1>4, Recursion
<1>8. \A n \in 1 .. N : made[n] = made[n - 1] + pending[lane][n - 1].step
  <2> SUFFICES ASSUME NEW n \in 1 .. N
               PROVE  made[n] = made[n - 1] + pending[lane][n - 1].step
    OBVIOUS
  <2>1. n - 1 \in 0 .. N
    BY <1>1
  <2>2. made[n - 1] \in Int
    BY <1>7, <2>1 DEF Follow
  <2> QED
    BY <1>5, <1>7, <2>2 DEF Follow
<1>9. Is(made)
  <2> DEFINE values == [n \in 0 .. N |->
                          IF n = 0 THEN first ELSE made[n - 1] + pending[lane][n - 1].step]
  <2>1. ASSUME NEW n \in 0 .. N
        PROVE  made[n] = values[n]
    <3>1. n = 0 \/ n \in 1 .. N
      BY <1>1
    <3> QED
      BY <1>7, <1>8, <3>1 DEF Follow
  <2> HIDE DEF values
  <2>2. values = [n \in 0 .. N |-> values[n]]
    BY DEF values
  <2>3. made = [n \in 0 .. N |-> made[n]]
    BY <1>7 DEF Follow
  <2>4. made = values
    BY <2>1, <2>2, <2>3
  <2> QED
    BY <2>4 DEF values
<1> DEFINE that == CHOOSE f : Is(f)
<1>10. Is(that)
  BY <1>9
<1>11. Coasted(lane, count) = that[N] + (count - N) * frequency[lane]
  BY <1>6
<1> HIDE DEF that
<1>12. that[0] = first /\ \A n \in 1 .. N : that[n] = that[n - 1] + pending[lane][n - 1].step
  BY <1>1, <1>10
<1> HIDE DEF Is
<1>13. \A n \in 0 .. N : that[n] = made[n]
  <2>1. GoOnAlike(N, that, made)
    BY <1>7, <1>8, <1>12 DEF Follow, GoOnAlike
  <2> QED
    BY <1>1, <2>1, SameRecursion
<1>14. Sums(lane, N, made)
  BY <1>7, <1>8 DEF Follow, Sums, first
<1>15. that[N] = made[N]
  BY <1>1, <1>13
<1> QED
  BY <1>11, <1>14, <1>15 DEF N

LEMMA CoastedType ==
  ASSUME TypeOK, NEW lane \in Lanes, NEW count \in Nat
  PROVE  Coasted(lane, count) \in Int
<1>1. PICK made : /\ Sums(lane, Least(count), made)
                  /\ Coasted(lane, count)
                       = made[Least(count)] + (count - Least(count)) * frequency[lane]
  BY CoastedFacts
<1>2. Least(count) \in Nat /\ Least(count) \in 0 .. Least(count)
  BY TurnFacts DEF Least
<1>3. made[Least(count)] \in Int
  BY <1>1, <1>2 DEF Sums
<1>4. frequency[lane] \in Int
  BY DEF TypeOK
<1>5. (count - Least(count)) * frequency[lane] \in Int
  BY <1>2, <1>4
<1> QED
  BY <1>1, <1>3, <1>5

(* Between calls, the frequency is bounded and the ring is in order.       *)
LEMMA IdleFacts ==
  ASSUME IInv, ~busy
  PROVE  /\ pending_slot = 0 /\ ~(left > 0)
         /\ \A lane \in Lanes :
              frequency[lane] \in Int /\ frequency[lane] \in -LargestStep .. LargestStep
<1>1. pending_slot = 0 /\ ~(left > 0)
  BY DEF IInv, TypeOK
<1>2. \A lane \in Lanes : frequency[lane] \in -LargestStep .. LargestStep
  BY DEF IInv, FrequencyIsSmall
<1>3. \A lane \in Lanes : frequency[lane] \in Int
  BY DEF IInv, TypeOK
<1> QED
  BY <1>1, <1>2, <1>3

LEMMA SkipKeeps == ASSUME IInv, NEW count \in SkipCounts, Skip(count) PROVE IInv'
<1> USE DEF IInv
<1>1. /\ ~busy /\ count \in Nat
      /\ phase' = [lane \in Lanes |-> Remainder(Coasted(lane, count))]
      /\ phasor' = [lane \in Lanes |-> phase'[lane] % Turn]
      /\ pending' = [lane \in Lanes |-> [slot \in 0 .. Delay - 1 |->
           IF slot + count < Delay THEN pending[lane][slot + count] ELSE Step(frequency[lane])]]
      /\ last_error' = [lane \in Lanes |-> 0]
      /\ UNCHANGED <<frequency, pending_slot, samples_since_normalization, busy, left, limit>>
  BY ConstantsAssumption DEF Skip
<1>2. ASSUME NEW lane \in Lanes
      PROVE  /\ phase'[lane] \in Int /\ phase'[lane] \in Grown(samples_since_normalization)
             /\ phasor'[lane] \in 0 .. Turn - 1 /\ phasor'[lane] = phase'[lane] % Turn
  <2>1. Coasted(lane, count) \in Int
    BY <1>1, CoastedType
  <2>2. Remainder(Coasted(lane, count)) \in -Half .. Half /\ Remainder(Coasted(lane, count)) \in Int
    BY <2>1, RemainderFacts, RemainderTurns
  <2>3. -Half .. Half \subseteq Grown(samples_since_normalization)
    <3>1. samples_since_normalization \in Nat
      BY TurnFacts DEF TypeOK
    <3> QED
      BY <3>1, GrownFacts
  <2>4. phase'[lane] = Remainder(Coasted(lane, count)) /\ phasor'[lane] = phase'[lane] % Turn
    BY <1>1
  <2> QED
    BY <2>2, <2>3, <2>4, TurnFacts, Division
<1>3. ASSUME NEW lane \in Lanes
      PROVE  /\ pending'[lane] \in [0 .. Delay - 1 -> Steps]
             /\ \A slot \in 0 .. Delay - 1 :
                  /\ pending'[lane][slot].rotor = pending'[lane][slot].step % Turn
                  /\ pending'[lane][slot].step \in -LargestStep .. LargestStep
  <2> DEFINE new == Step(frequency[lane])
  <2>1. new \in Steps /\ new.rotor = new.step % Turn /\ new.step \in -LargestStep .. LargestStep
    BY <1>1, IdleFacts, StepFacts
  <2>2. /\ pending[lane] \in [0 .. Delay - 1 -> Steps]
        /\ \A slot \in 0 .. Delay - 1 :
             /\ pending[lane][slot].rotor = pending[lane][slot].step % Turn
             /\ pending[lane][slot].step \in -LargestStep .. LargestStep
    BY DEF TypeOK, PhasorFollowsPhase, StepsAreSmall
  <2> HIDE DEF new
  <2>3. pending'[lane] = [slot \in 0 .. Delay - 1 |->
          IF slot + count < Delay THEN pending[lane][slot + count] ELSE new]
    BY <1>1 DEF new
  <2>4. ASSUME NEW slot \in 0 .. Delay - 1
        PROVE  \/ pending'[lane][slot] = new
               \/ \E other \in 0 .. Delay - 1 : pending'[lane][slot] = pending[lane][other]
    <3>1. slot + count < Delay => slot + count \in 0 .. Delay - 1
      BY <1>1, TurnFacts
    <3> QED
      BY <2>3, <3>1
  <2>5. ASSUME NEW slot \in 0 .. Delay - 1
        PROVE  /\ pending'[lane][slot] \in Steps
               /\ pending'[lane][slot].rotor = pending'[lane][slot].step % Turn
               /\ pending'[lane][slot].step \in -LargestStep .. LargestStep
    BY <2>1, <2>2, <2>4
  <2>6. /\ DOMAIN pending'[lane] = 0 .. Delay - 1
        /\ pending'[lane] = [slot \in 0 .. Delay - 1 |-> pending'[lane][slot]]
    BY <2>3
  <2> QED
    BY <2>5, <2>6
<1>4. TypeOK'
  <2>1. phase' \in [Lanes -> Int] /\ phasor' \in [Lanes -> 0 .. Turn - 1]
    BY <1>1, <1>2
  <2>2. pending' \in [Lanes -> [0 .. Delay - 1 -> Steps]]
    BY <1>1, <1>3
  <2> QED
    BY <1>1, <2>1, <2>2 DEF TypeOK
<1>5. PhasorFollowsPhase' /\ PhaseStaysSmall'
  BY <1>1, <1>2, <1>3 DEF PhasorFollowsPhase, PhaseStaysSmall
<1>6. StepsAreSmall'
  BY <1>3 DEF StepsAreSmall
<1>7. FrequencyIsSmall' /\ SlotStays'
  BY <1>1 DEF FrequencyIsSmall, SlotStays
<1> QED
  BY <1>4, <1>5, <1>6, <1>7

LEMMA QuartersFacts ==
  ASSUME NEW turns \in Int
  PROVE  /\ Quarters(turns) \in Int
         /\ \A angle \in Int :
              (angle + Quarters(turns)) % Turn = (angle + turns * (Turn \div 4)) % Turn
<1> DEFINE quarter == Turn \div 4
           q == turns \div 4
           r == turns % 4
<1>1. Turn \in Nat \ {0} /\ quarter \in Int /\ Turn = 4 * quarter
  BY ConstantsAssumption
<1>2. q \in Int /\ r \in 0 .. 3 /\ turns = 4 * q + r
  OBVIOUS
<1>3. Quarters(turns) = r * quarter
  BY DEF Quarters
<1>4. turns * quarter = r * quarter + q * Turn
  <2> HIDE DEF quarter, q, r
  <2>1. (4 * q + r) * quarter = 4 * (q * quarter) + r * quarter
    BY <1>1, <1>2
  <2>2. q * (4 * quarter) = 4 * (q * quarter)
    BY <1>1, <1>2
  <2>3. q * quarter \in Int /\ r * quarter \in Int
    BY <1>1, <1>2
  <2> QED
    BY <1>1, <1>2, <2>1, <2>2, <2>3
<1> HIDE DEF quarter, q, r
<1>5. r * quarter \in Int
  BY <1>1, <1>2
<1>6. ASSUME NEW angle \in Int
      PROVE  (angle + Quarters(turns)) % Turn = (angle + turns * quarter) % Turn
  <2> DEFINE m == angle + r * quarter
  <2>1. m \in Int
    BY <1>5
  <2>2. q * Turn \in Int
    BY <1>1, <1>2
  <2>3. angle + turns * quarter = m + q * Turn
    BY <1>4, <1>5, <2>2
  <2> HIDE DEF m
  <2>4. (m + q * Turn) % Turn = m % Turn
    BY <1>1, <1>2, <2>1, SameTurns
  <2> QED
    BY <1>3, <2>3, <2>4 DEF m
<1> QED
  BY <1>3, <1>5, <1>6 DEF quarter

LEMMA RotateKeeps ==
  ASSUME IInv, NEW turns \in [Lanes -> QuarterTurns], Rotate(turns)
  PROVE  IInv'
<1> USE DEF IInv
<1>1. /\ phasor' = [lane \in Lanes |-> (phasor[lane] + Quarters(turns[lane])) % Turn]
      /\ phase' = [lane \in Lanes |-> RotatedPhase(lane, turns[lane])]
      /\ UNCHANGED <<frequency, last_error, pending, pending_slot, samples_since_normalization,
                     busy, left, limit>>
  BY DEF Rotate
<1>2. ASSUME NEW lane \in Lanes
      PROVE  /\ phase'[lane] \in Int /\ phase'[lane] \in Grown(samples_since_normalization)
             /\ phasor'[lane] \in 0 .. Turn - 1 /\ phasor'[lane] = phase'[lane] % Turn
  <2> DEFINE by == Quarters(turns[lane])
             moved == phase[lane] + by
  <2>1. by \in Int
    <3>1. turns[lane] \in Int
      BY ConstantsAssumption
    <3> QED
      BY <3>1, QuartersFacts
  <2>2. phase[lane] \in Int /\ phasor[lane] = phase[lane] % Turn
    BY DEF TypeOK, PhasorFollowsPhase
  <2>3. phase'[lane] = Remainder(moved) /\ phasor'[lane] = (phasor[lane] + by) % Turn
    BY <1>1 DEF RotatedPhase
  <2> HIDE DEF by
  <2>4. ((phase[lane] % Turn) + by) % Turn = moved % Turn
    BY <2>1, <2>2, TurnFacts, SumOfTurns
  <2>5. moved \in Int
    BY <2>1, <2>2
  <2> HIDE DEF moved
  <2>6. /\ Remainder(moved) \in -Half .. Half /\ Remainder(moved) \in Int
        /\ Remainder(moved) % Turn = moved % Turn
    BY <2>5, RemainderFacts, RemainderTurns
  <2>7. -Half .. Half \subseteq Grown(samples_since_normalization)
    <3>1. samples_since_normalization \in Nat
      BY TurnFacts DEF TypeOK
    <3> QED
      BY <3>1, GrownFacts
  <2>8. moved % Turn \in 0 .. Turn - 1
    BY <2>5, TurnFacts, Division
  <2> QED
    BY <2>2, <2>3, <2>4, <2>6, <2>7, <2>8
<1>3. TypeOK'
  <2>1. phase' \in [Lanes -> Int] /\ phasor' \in [Lanes -> 0 .. Turn - 1]
    BY <1>1, <1>2
  <2> QED
    BY <1>1, <2>1 DEF TypeOK
<1>4. PhasorFollowsPhase' /\ PhaseStaysSmall'
  BY <1>1, <1>2 DEF PhasorFollowsPhase, PhaseStaysSmall
<1>5. StepsAreSmall' /\ FrequencyIsSmall' /\ SlotStays'
  BY <1>1 DEF StepsAreSmall, FrequencyIsSmall, SlotStays
<1> QED
  BY <1>3, <1>4, <1>5

LEMMA ResetKeeps == IInv /\ Reset => IInv'
<1> SUFFICES ASSUME IInv, Reset
             PROVE  IInv'
  OBVIOUS
<1> USE DEF IInv
<1>1. /\ ~busy
      /\ phase' = [lane \in Lanes |-> Start.phase] /\ phasor' = [lane \in Lanes |-> Start.phasor]
      /\ frequency' = [lane \in Lanes |-> InitialFrequency]
      /\ last_error' = [lane \in Lanes |-> 0]
      /\ pending' = [lane \in Lanes |-> Start.pending]
      /\ samples_since_normalization' = 0
      /\ UNCHANGED <<pending_slot, busy, left, limit>>
  BY DEF Reset
<1>2. TypeOK'
  <2>1. phase' \in [Lanes -> Int] /\ phasor' \in [Lanes -> 0 .. Turn - 1]
    BY <1>1, StartFacts
  <2>2. pending' \in [Lanes -> [0 .. Delay - 1 -> Steps]]
    BY <1>1, StartFacts
  <2>3. frequency' \in [Lanes -> Int] /\ last_error' \in [Lanes -> Int]
    BY <1>1, ConstantsAssumption
  <2>4. samples_since_normalization' \in 0 .. Period - 1
    BY <1>1, TurnFacts
  <2> QED
    BY <1>1, <2>1, <2>2, <2>3, <2>4 DEF TypeOK
<1>3. PhasorFollowsPhase'
  BY <1>1, StartFacts DEF PhasorFollowsPhase
<1>4. PhaseStaysSmall'
  BY <1>1, StartFacts DEF PhaseStaysSmall
<1>5. StepsAreSmall'
  BY <1>1, StartFacts, LargestStepFacts DEF StepsAreSmall
<1>6. FrequencyIsSmall'
  BY <1>1, LargestStepFacts DEF FrequencyIsSmall
<1>7. SlotStays'
  BY <1>1 DEF SlotStays
<1> QED
  BY <1>2, <1>3, <1>4, <1>5, <1>6, <1>7

LEMMA CopyStateKeeps == ASSUME IInv, NEW source \in Sources, CopyState(source) PROVE IInv'
<1> USE DEF IInv
<1>1. /\ phase' = source.phase /\ phasor' = source.phasor
      /\ frequency' = source.frequency /\ last_error' = source.last_error
      /\ pending' = source.pending
      /\ samples_since_normalization' = source.samples_since_normalization
      /\ UNCHANGED <<pending_slot, busy, left, limit>>
  BY DEF CopyState, CopiedSamples
<1>2. BetweenCalls(source)
  BY SourcesAssumption
<1>3. /\ source.phase \in [Lanes -> Int] /\ source.phasor \in [Lanes -> 0 .. Turn - 1]
      /\ source.frequency \in [Lanes -> -LargestStep .. LargestStep]
      /\ source.last_error \in [Lanes -> Int]
      /\ source.pending \in [Lanes -> [0 .. Delay - 1 -> Steps]]
      /\ source.samples_since_normalization \in 0 .. Period - 1
  BY <1>2 DEF BetweenCalls, Loops
<1>4. TypeOK'
  <2>1. source.frequency \in [Lanes -> Int]
    BY <1>3
  <2> QED
    BY <1>1, <1>3, <2>1 DEF TypeOK
<1>5. PhasorFollowsPhase' /\ PhaseStaysSmall'
  BY <1>1, <1>2 DEF BetweenCalls, PhasorFollowsPhase, PhaseStaysSmall
<1>6. StepsAreSmall'
  BY <1>1, <1>2 DEF BetweenCalls, StepsAreSmall
<1>7. FrequencyIsSmall' /\ SlotStays'
  BY <1>1, <1>3 DEF FrequencyIsSmall, SlotStays
<1> QED
  BY <1>4, <1>5, <1>6, <1>7

LEMMA Preserved == IInv /\ [Next]_vars => IInv'
<1> SUFFICES ASSUME IInv, [Next]_vars
             PROVE  IInv'
  OBVIOUS
<1>1. ASSUME UNCHANGED vars
      PROVE  IInv'
  BY <1>1 DEF IInv, TypeOK, PhasorFollowsPhase, PhaseStaysSmall, StepsAreSmall,
              FrequencyIsSmall, SlotStays, vars, loop
<1> QED
  BY <1>1, ExecuteKeeps, SampleKeeps, ReturnKeeps, ResetKeeps, SkipKeeps, RotateKeeps,
     CopyStateKeeps DEF Next

LEMMA Invariance == Spec => []IInv
BY Initially, Preserved, PTL DEF Spec

(* The loop's variables have their types.                                  *)
THEOREM TypeCorrect == Spec => []TypeOK
<1>1. IInv => TypeOK
  BY DEF IInv
<1> QED
  BY <1>1, Invariance, PTL

(* Phase and phasor, and the two forms of every pending step, are the same *)
(* angle after every operation of either backend.                          *)
THEOREM PhasorCorrect == Spec => []PhasorFollowsPhase
<1>1. IInv => PhasorFollowsPhase
  BY DEF IInv
<1> QED
  BY <1>1, Invariance, PTL

(* The accumulated phase stays within the steps of a period.               *)
THEOREM PhaseBounded == Spec => []PhaseStaysSmall
<1>1. IInv => PhaseStaysSmall
  BY DEF IInv
<1> QED
  BY <1>1, Invariance, PTL

(* This loop, seen as the source of a copy of a loop state.                *)
AsSource ==
  [phase |-> phase, phasor |-> phasor, frequency |-> frequency, last_error |-> last_error,
   pending |-> pending, samples_since_normalization |-> samples_since_normalization]

(* What is assumed of a loop whose state is copied holds of this loop      *)
(* whenever no call is under way in it.                                    *)
THEOREM OthersAreAlike == Spec => [](~busy => BetweenCalls(AsSource))
<1>1. ASSUME IInv, ~busy
      PROVE  BetweenCalls(AsSource)
  <2>1. /\ AsSource.phase = phase /\ AsSource.phasor = phasor /\ AsSource.pending = pending
        /\ AsSource.samples_since_normalization = samples_since_normalization
    BY DEF AsSource
  <2>2. AsSource \in Loops
    <3>1. frequency \in [Lanes -> -LargestStep .. LargestStep]
      BY <1>1, IdleFacts DEF IInv, TypeOK
    <3> QED
      BY <1>1, <3>1 DEF AsSource, Loops, IInv, TypeOK
  <2> QED
    BY <1>1, <2>1, <2>2
       DEF BetweenCalls, IInv, PhasorFollowsPhase, PhaseStaysSmall, StepsAreSmall
<1> QED
  BY <1>1, Invariance, PTL

-----------------------------------------------------------------------------
(* Every lane is a lane of its own.                                        *)

Decided(lane) == [step \in 1 .. Delay |-> OldestFirst(lane)[step - 1].step]

LEMMA DecidedFacts ==
  ASSUME TypeOK, NEW lane \in Lanes
  PROVE  /\ Decided(lane) \in [1 .. Delay -> Int]
         /\ Decided(lane)[1] = pending[lane][pending_slot].step
         /\ pending_slot = 0 =>
              Decided(lane) = [step \in 1 .. Delay |-> pending[lane][step - 1].step]
<1>1. OldestFirst(lane) \in [0 .. Delay - 1 -> Steps] /\ Delay \in Nat \ {0}
  BY OldestFirstFacts, TurnFacts
<1>2. ASSUME NEW step \in 1 .. Delay
      PROVE  OldestFirst(lane)[step - 1].step \in Int
  <2>1. step - 1 \in 0 .. Delay - 1
    BY <1>1
  <2> QED
    BY <1>1, <2>1 DEF Steps
<1>3. OldestFirst(lane)[0] = pending[lane][pending_slot]
  <2>1. pending_slot \in 0 .. Delay - 1 /\ 0 \in 0 .. Delay - 1
    BY <1>1 DEF TypeOK
  <2>2. (pending_slot + 0) % Delay = pending_slot
    BY <1>1, <2>1
  <2> QED
    BY <2>1, <2>2 DEF OldestFirst
<1>4. Decided(lane)[1] = pending[lane][pending_slot].step
  <2>1. 1 \in 1 .. Delay /\ 1 - 1 = 0
    BY <1>1
  <2> QED
    BY <1>3, <2>1 DEF Decided
<1>5. pending_slot = 0 => OldestFirst(lane) = pending[lane]
  BY OldestFirstFacts
<1> QED
  BY <1>2, <1>4, <1>5 DEF Decided

(* Moving a sequence of decided steps on by one.                           *)
LEMMA QueueFacts ==
  ASSUME NEW steps \in [1 .. Delay -> Int], NEW new \in Int
  PROVE  /\ Head(steps) = steps[1]
         /\ Append(Tail(steps), new)
              = [step \in 1 .. Delay |-> IF step < Delay THEN steps[step + 1] ELSE new]
<1>1. Delay \in Nat \ {0}
  BY TurnFacts
<1>2. steps \in Seq(Int) /\ Len(steps) = Delay
  BY <1>1
<1>3. /\ Tail(steps) \in Seq(Int) /\ Len(Tail(steps)) = Delay - 1
      /\ \A step \in 1 .. Delay - 1 : Tail(steps)[step] = steps[step + 1]
  BY <1>1, <1>2
<1>4. /\ Len(Append(Tail(steps), new)) = Delay
      /\ Append(Tail(steps), new) \in Seq(Int)
      /\ \A step \in 1 .. Delay - 1 : Append(Tail(steps), new)[step] = Tail(steps)[step]
      /\ Append(Tail(steps), new)[Delay] = new
  BY <1>1, <1>3
<1>5. ASSUME NEW step \in 1 .. Delay
      PROVE  Append(Tail(steps), new)[step] = IF step < Delay THEN steps[step + 1] ELSE new
  <2>1. CASE step < Delay
    <3>1. step \in 1 .. Delay - 1
      BY <1>1, <2>1
    <3> QED
      BY <1>3, <1>4, <2>1, <3>1
  <2>2. CASE ~(step < Delay)
    <3>1. step = Delay
      BY <1>1, <2>2
    <3> QED
      BY <1>4, <2>2, <3>1
  <2> QED
    BY <2>1, <2>2
<1>6. Append(Tail(steps), new) = [step \in 1 .. Delay |-> Append(Tail(steps), new)[step]]
  <2> DEFINE s == Append(Tail(steps), new)
  <2>1. s \in Seq(Int) /\ Len(s) = Delay
    BY <1>4
  <2> HIDE DEF s
  <2>2. s = [step \in 1 .. Delay |-> s[step]]
    BY <2>1
  <2> QED
    BY <2>2 DEF s
<1>7. Head(steps) = steps[1]
  BY <1>2
<1> QED
  BY <1>5, <1>6, <1>7

LEMMA WrapFacts ==
  ASSUME NEW n \in 0 .. 2 * Delay - 1
  PROVE  n % Delay = IF n < Delay THEN n ELSE n - Delay
<1>1. Delay \in Nat \ {0}
  BY TurnFacts
<1>2. CASE n < Delay
  BY <1>1, <1>2
<1>3. CASE ~(n < Delay)
  <2> DEFINE r == n - Delay
             one == 1
  <2>1. r \in 0 .. Delay - 1 /\ one \in Int /\ n = one * Delay + r
    BY <1>1, <1>3
  <2> HIDE DEF r, one
  <2>2. (one * Delay + r) % Delay = r
    BY <1>1, <2>1, RemainderUnique
  <2> QED
    BY <1>3, <2>1, <2>2 DEF r
<1> QED
  BY <1>2, <1>3

(* Whether it is moved or turned, the ring moves on by one step.           *)
LEMMA RingMovesOn ==
  ASSUME IInv, NEW error \in [Lanes -> Errors], Sample(error), NEW lane \in Lanes,
         NEW delta \in Int, pending'[lane] = Queued(lane, delta)
  PROVE  Decided(lane)' = Append(Tail(Decided(lane)), delta)
<1>1. /\ Delay \in Nat \ {0} /\ pending_slot \in 0 .. Delay - 1
      /\ pending[lane] \in [0 .. Delay - 1 -> Steps]
  BY TurnFacts DEF IInv, TypeOK
<1>2. pending_slot' = IF Backend = "generic" THEN 0 ELSE (pending_slot + 1) % Delay
  BY DEF Sample
<1>4. ASSUME NEW slot \in 0 .. Delay - 1
      PROVE  pending'[lane][(pending_slot' + slot) % Delay]
               = IF slot < Delay - 1 THEN pending[lane][(pending_slot + (slot + 1)) % Delay]
                 ELSE Step(delta)
  <2>1. CASE Backend = "generic"
    <3>1. pending_slot' = 0 /\ pending_slot = 0
      BY <1>2, <2>1 DEF IInv, SlotStays
    <3>2. (0 + slot) % Delay = slot
      BY <1>1
    <3>4. slot < Delay - 1 => (0 + (slot + 1)) % Delay = slot + 1
      <4> SUFFICES ASSUME slot < Delay - 1 PROVE (0 + (slot + 1)) % Delay = slot + 1
        OBVIOUS
      <4> DEFINE after == slot + 1
      <4>1. after \in 0 .. Delay - 1 /\ 0 + after = after
        BY <1>1
      <4> HIDE DEF after
      <4>2. (0 + after) % Delay = after
        BY <1>1, <4>1
      <4> QED
        BY <4>2 DEF after
    <3>3. pending'[lane] = [place \in 0 .. Delay - 1 |->
             IF place = Delay - 1 THEN Step(delta) ELSE pending[lane][place + 1]]
      BY <2>1 DEF Queued
    <3> QED
      BY <1>1, <3>1, <3>2, <3>3, <3>4
  <2>2. CASE Backend # "generic"
    <3>1. pending'[lane] = [pending[lane] EXCEPT ![pending_slot] = Step(delta)]
      BY <2>2 DEF Queued
    <3>2. /\ pending_slot + 1 \in 0 .. 2 * Delay - 1 /\ pending_slot' = (pending_slot + 1) % Delay
      BY <1>1, <1>2, <2>2
    <3>3. pending_slot' = IF pending_slot + 1 < Delay THEN pending_slot + 1 ELSE 0
      <4> DEFINE n == pending_slot + 1
      <4>1. n \in 0 .. 2 * Delay - 1 /\ (~(n < Delay) => n - Delay = 0)
        BY <1>1, <3>2
      <4> HIDE DEF n
      <4>2. n % Delay = IF n < Delay THEN n ELSE n - Delay
        BY <4>1, WrapFacts
      <4>3. pending_slot' = n % Delay
        BY <3>2 DEF n
      <4>4. pending_slot' = IF n < Delay THEN n ELSE 0
        BY <4>1, <4>2, <4>3
      <4> QED
        BY <4>4 DEF n
    <3>5. (pending_slot' + slot) % Delay
            = IF pending_slot' + slot < Delay THEN pending_slot' + slot
              ELSE pending_slot' + slot - Delay
      <4>1. ASSUME NEW place \in 0 .. Delay - 1
            PROVE  (place + slot) % Delay
                     = IF place + slot < Delay THEN place + slot ELSE place + slot - Delay
        <5> DEFINE n == place + slot
        <5>1. n \in 0 .. 2 * Delay - 1
          BY <1>1
        <5> HIDE DEF n
        <5>2. n % Delay = IF n < Delay THEN n ELSE n - Delay
          BY <5>1, WrapFacts
        <5> QED
          BY <1>1, <5>2 DEF n
      <4>2. pending_slot' \in 0 .. Delay - 1
        BY <1>1, <3>3
      <4> QED
        BY <4>1, <4>2
    <3>6. CASE slot < Delay - 1
      <4>1. pending_slot + (slot + 1) \in 0 .. 2 * Delay - 1
        BY <1>1, <3>6
      <4>2. (pending_slot + (slot + 1)) % Delay
              = IF pending_slot + (slot + 1) < Delay THEN pending_slot + (slot + 1)
                ELSE pending_slot + (slot + 1) - Delay
        <5> DEFINE n == pending_slot + (slot + 1)
        <5>1. n \in 0 .. 2 * Delay - 1
          BY <4>1
        <5> HIDE DEF n
        <5>2. n % Delay = IF n < Delay THEN n ELSE n - Delay
          BY <5>1, WrapFacts
        <5> QED
          BY <1>1, <5>2 DEF n
      <4>3. (pending_slot' + slot) % Delay = (pending_slot + (slot + 1)) % Delay
        BY <1>1, <3>3, <3>5, <3>6, <4>2
      <4>4. (pending_slot + (slot + 1)) % Delay # pending_slot
        BY <1>1, <3>6, <4>2
      <4>5. (pending_slot + (slot + 1)) % Delay \in 0 .. Delay - 1
        BY <1>1, <4>1, <4>2
      <4> QED
        BY <1>1, <3>1, <3>6, <4>3, <4>4, <4>5
    <3>7. CASE ~(slot < Delay - 1)
      <4>1. (pending_slot' + slot) % Delay = pending_slot
        BY <1>1, <3>3, <3>5, <3>7
      <4> QED
        BY <1>1, <3>1, <3>7, <4>1
    <3> QED
      BY <3>6, <3>7
  <2> QED
    BY <2>1, <2>2
<1>5. ASSUME NEW step \in 1 .. Delay
      PROVE  Decided(lane)'[step] = IF step < Delay THEN Decided(lane)[step + 1] ELSE delta
  <2>1. /\ step - 1 \in 0 .. Delay - 1 /\ (step - 1 < Delay - 1 <=> step < Delay)
        /\ (step - 1) + 1 = step
    BY <1>1
  <2>2. Decided(lane)'[step] = pending'[lane][(pending_slot' + (step - 1)) % Delay].step
    BY <2>1 DEF Decided, OldestFirst
  <2>3. CASE step < Delay
    <3>1. step + 1 \in 1 .. Delay /\ (step + 1) - 1 = step /\ step \in 0 .. Delay - 1
      BY <1>1, <2>3
    <3>2. Decided(lane)[step + 1] = pending[lane][(pending_slot + step) % Delay].step
      BY <3>1 DEF Decided, OldestFirst
    <3>3. pending'[lane][(pending_slot' + (step - 1)) % Delay]
            = pending[lane][(pending_slot + step) % Delay]
      BY <1>4, <2>1, <2>3
    <3> QED
      BY <2>2, <2>3, <3>2, <3>3
  <2>4. CASE ~(step < Delay)
    <3>1. pending'[lane][(pending_slot' + (step - 1)) % Delay] = Step(delta)
      BY <1>4, <2>1, <2>4
    <3> QED
      BY <2>2, <2>4, <3>1, StepFacts
  <2> QED
    BY <2>3, <2>4
<1>6. Decided(lane)' = [step \in 1 .. Delay |-> Decided(lane)'[step]]
  BY DEF Decided
<1>7. Decided(lane) \in [1 .. Delay -> Int]
  BY DecidedFacts DEF IInv
<1>8. Append(Tail(Decided(lane)), delta)
        = [step \in 1 .. Delay |-> IF step < Delay THEN Decided(lane)[step + 1] ELSE delta]
  BY <1>7, QueueFacts
<1> QED
  BY <1>5, <1>6, <1>8

LEMMA LaneStarts == ASSUME Init, NEW lane \in Lanes PROVE Lane(lane)!Init
<1>1. TypeOK
  BY Initially DEF IInv
<1>2. Decided(lane) = [step \in 1 .. Delay |-> 0]
  <2>1. Decided(lane) = [step \in 1 .. Delay |-> pending[lane][step - 1].step]
    BY <1>1, DecidedFacts DEF Init
  <2>2. \A step \in 1 .. Delay : pending[lane][step - 1].step = 0
    <3> SUFFICES ASSUME NEW step \in 1 .. Delay PROVE pending[lane][step - 1].step = 0
      OBVIOUS
    <3>1. step - 1 \in 0 .. Delay - 1
      BY TurnFacts
    <3> QED
      BY <3>1, StartFacts DEF Init
  <2> QED
    BY <2>1, <2>2
<1>3. phasor[lane] = InitialPhase % Turn
  BY StartFacts DEF Init
<1>4. ~busy /\ limit[lane] = 0 /\ last_error[lane] = 0 /\ frequency[lane] = InitialFrequency
  BY DEF Init
<1> QED
  BY <1>2, <1>3, <1>4 DEF Decided, Lane!Init, Lane!Still

(* The lane steps that change nothing of the ring.                         *)
LEMMA SameDecided ==
  ASSUME NEW lane \in Lanes, UNCHANGED <<pending, pending_slot>>
  PROVE  Decided(lane)' = Decided(lane)
  BY DEF Decided, OldestFirst

LEMMA LaneBegins ==
  ASSUME IInv, NEW count \in SampleCounts, NEW limits \in [Lanes -> Limits],
         Execute(count, limits), NEW lane \in Lanes
  PROVE  Lane(lane)!Begin(limits[lane]) /\ limits[lane] \in Limits
<1>1. Decided(lane)' = Decided(lane)
  BY SameDecided DEF Execute
<1>2. frequency'[lane] \in {frequency[lane]} \cup Overrides
  BY DEF Execute
<1>3. /\ ~busy /\ busy' = TRUE /\ limit'[lane] = limits[lane]
      /\ phasor'[lane] = phasor[lane] /\ last_error'[lane] = last_error[lane]
  BY DEF Execute
<1> QED
  BY <1>1, <1>2, <1>3 DEF Decided, Lane!Begin

LEMMA LaneEnds == ASSUME IInv, Return, NEW lane \in Lanes PROVE Lane(lane)!End
<1>1. TypeOK
  BY DEF IInv
<1>2. Decided(lane)' = Decided(lane)
  <2>1. pending_slot' = 0 /\ pending'[lane] = OldestFirst(lane)
    BY DEF Return
  <2>2. OldestFirst(lane)' = [slot \in 0 .. Delay - 1 |-> OldestFirst(lane)[(0 + slot) % Delay]]
    BY <2>1 DEF OldestFirst
  <2>3. \A slot \in 0 .. Delay - 1 : (0 + slot) % Delay = slot
    BY TurnFacts
  <2>4. OldestFirst(lane)' = [slot \in 0 .. Delay - 1 |-> OldestFirst(lane)[slot]]
    BY <2>2, <2>3
  <2>5. OldestFirst(lane)' = OldestFirst(lane)
    BY <1>1, <2>4, OldestFirstFacts
  <2> QED
    BY <2>5 DEF Decided
<1>3. /\ busy /\ busy' = FALSE /\ limit'[lane] = 0 /\ frequency'[lane] = frequency[lane]
      /\ phasor'[lane] = phasor[lane] /\ last_error'[lane] = last_error[lane]
  BY DEF Return
<1> QED
  BY <1>2, <1>3 DEF Decided, Lane!End

(* Where the AVX2 loop does not clamp, clamping would change nothing.      *)
LEMMA ClampingIsNeeded ==
  ASSUME IInv, NEW error \in [Lanes -> Errors], NEW lane \in Lanes, ~Clamps(error)
  PROVE  /\ Clamped(error[lane], Clip) = error[lane]
         /\ Clamped(frequency[lane] + Beta * error[lane], limit[lane])
              = frequency[lane] + Beta * error[lane]
<1>1. /\ Clip \in Nat /\ Beta \in Int /\ error[lane] \in Int
      /\ frequency[lane] \in Int /\ limit[lane] \in Nat
  BY ConstantsAssumption DEF IInv, TypeOK
<1> DEFINE corrected == frequency[lane] + Beta * error[lane]
<1>2. corrected \in Int
  BY <1>1
<1>3. Clip = 0 \/ error[lane] \in -Clip .. Clip
  BY DEF Clamps, Outside
<1>4. limit[lane] = 0 \/ corrected \in -limit[lane] .. limit[lane]
  BY DEF Clamps, Outside
<1> HIDE DEF corrected
<1>5. Clamped(error[lane], Clip) = error[lane]
  BY <1>1, <1>3, ClampedFacts
<1>6. Clamped(corrected, limit[lane]) = corrected
  BY <1>1, <1>2, <1>4, ClampedFacts
<1> QED
  BY <1>5, <1>6 DEF corrected

LEMMA LaneSamples ==
  ASSUME IInv, NEW error \in [Lanes -> Errors], Sample(error), NEW lane \in Lanes
  PROVE  Lane(lane)!Sample(error[lane]) /\ error[lane] \in Errors
<1>1. /\ Clip \in Nat /\ {Alpha, Beta} \subseteq Int /\ error[lane] \in Int
      /\ frequency[lane] \in Int /\ limit[lane] \in Nat /\ TypeOK
      /\ error[lane] \in Errors
  BY ConstantsAssumption DEF IInv, TypeOK
<1>2. last_error'[lane] = Clamped(error[lane], Clip)
  <2>1. CASE Clamps(error)
    BY <2>1 DEF Sample
  <2>2. CASE ~Clamps(error)
    <3>1. last_error'[lane] = error[lane]
      BY <2>2 DEF Sample
    <3> QED
      BY <2>2, <3>1, ClampingIsNeeded
  <2> QED
    BY <2>1, <2>2
<1>3. frequency'[lane] = Clamped(frequency[lane] + Beta * last_error'[lane], limit[lane])
  <2>1. CASE Clamps(error)
    BY <2>1 DEF Sample
  <2>2. CASE ~Clamps(error)
    <3>1. frequency'[lane] = frequency[lane] + Beta * error[lane]
      BY <2>2 DEF Sample
    <3>2. last_error'[lane] = error[lane]
      BY <1>2, <2>2, ClampingIsNeeded
    <3> QED
      BY <2>2, <3>1, <3>2, ClampingIsNeeded
  <2> QED
    BY <2>1, <2>2
<1>4. last_error'[lane] \in Int
  BY <1>1, <1>2, ClampedFacts
<1>5. frequency'[lane] \in -MaxFrequency .. MaxFrequency
  BY DEF Sample
<1> DEFINE delta == frequency'[lane] + Alpha * last_error'[lane]
<1>6. delta \in Int
  <2>1. frequency'[lane] \in Int
    BY <1>5, ConstantsAssumption
  <2>2. Alpha * last_error'[lane] \in Int
    BY <1>1, <1>4
  <2> QED
    BY <2>1, <2>2
<1>7. pending'[lane] = Queued(lane, delta)
  BY DEF Sample
<1> HIDE DEF delta
<1>8. Decided(lane)' = Append(Tail(Decided(lane)), delta)
  BY <1>6, <1>7, RingMovesOn
<1>9. Head(Decided(lane)) = pending[lane][pending_slot].step
  <2>1. Decided(lane) \in [1 .. Delay -> Int]
    BY <1>1, DecidedFacts
  <2>2. Head(Decided(lane)) = Decided(lane)[1]
    BY <1>6, <2>1, QueueFacts
  <2> QED
    BY <1>1, <2>2, DecidedFacts
<1>10. phasor'[lane] = (phasor[lane] + Head(Decided(lane))) % Turn
  <2> DEFINE step == pending[lane][pending_slot].step
             rotor == pending[lane][pending_slot].rotor
             was == phasor[lane]
  <2>1. pending_slot \in 0 .. Delay - 1
    BY <1>1 DEF TypeOK
  <2>2. step \in Int /\ rotor = step % Turn
    BY <1>1, <2>1 DEF TypeOK, Steps, IInv, PhasorFollowsPhase
  <2>3. was \in 0 .. Turn - 1 /\ was \in Int
    BY <1>1, TurnFacts DEF TypeOK
  <2>4. phasor'[lane] = (was + rotor) % Turn
    BY DEF Sample
  <2> HIDE DEF step, rotor, was
  <2>5. was % Turn = was
    BY <2>3, TurnFacts
  <2>6. ((was % Turn) + (step % Turn)) % Turn = (was + step) % Turn
    BY <2>2, <2>3, TurnFacts, SumOfTurns
  <2>7. phasor'[lane] = (was + step) % Turn
    BY <2>2, <2>4, <2>5, <2>6
  <2> QED
    BY <1>9, <2>7 DEF was, step
<1>11. busy /\ busy' = busy /\ limit'[lane] = limit[lane]
  BY DEF Sample
<1>12. /\ last_error'[lane] = Lane(lane)!Bounded(error[lane], Clip)
       /\ frequency'[lane]
            = Lane(lane)!Bounded(frequency[lane] + Beta * last_error'[lane], limit[lane])
  BY <1>2, <1>3 DEF Clamped, Lane!Bounded
<1> QED
  BY <1>1, <1>5, <1>8, <1>10, <1>11, <1>12 DEF Decided, Lane!Sample, delta

LEMMA LaneRotates ==
  ASSUME IInv, NEW turns \in [Lanes -> QuarterTurns], Rotate(turns), NEW lane \in Lanes
  PROVE  Lane(lane)!Rotate(turns[lane]) /\ turns[lane] \in QuarterTurns
<1>1. Decided(lane)' = Decided(lane)
  BY SameDecided DEF Rotate
<1>2. turns[lane] \in Int /\ phasor[lane] \in Int /\ turns[lane] \in QuarterTurns
  <2>1. turns[lane] \in QuarterTurns /\ QuarterTurns \subseteq Int
    BY ConstantsAssumption
  <2>2. phasor[lane] \in 0 .. Turn - 1
    BY DEF IInv, TypeOK
  <2>3. \A n \in 0 .. Turn - 1 : n \in Int
    BY TurnFacts
  <2>4. turns[lane] \in Int
    BY <2>1
  <2> QED
    BY <2>1, <2>2, <2>3, <2>4
<1>3. phasor'[lane] = (phasor[lane] + turns[lane] * (Turn \div 4)) % Turn
  BY <1>2, QuartersFacts DEF Rotate
<1>4. /\ ~busy /\ busy' = busy /\ limit'[lane] = limit[lane]
      /\ frequency'[lane] = frequency[lane] /\ last_error'[lane] = last_error[lane]
  BY DEF Rotate
<1> QED
  BY <1>1, <1>2, <1>3, <1>4 DEF Decided, Lane!Rotate

(* What is stored between calls is the ring, oldest first.                 *)
LEMMA StoredDecided ==
  ASSUME IInv, ~busy, UNCHANGED pending_slot, NEW lane \in Lanes,
         pending'[lane] \in [0 .. Delay - 1 -> Steps]
  PROVE  Decided(lane)' = [step \in 1 .. Delay |-> pending'[lane][step - 1].step]
<1>1. pending_slot' = 0
  BY IdleFacts
<1>2. OldestFirst(lane)' = [slot \in 0 .. Delay - 1 |-> pending'[lane][(0 + slot) % Delay]]
  BY <1>1 DEF OldestFirst
<1>3. \A slot \in 0 .. Delay - 1 : (0 + slot) % Delay = slot
  BY TurnFacts
<1>4. OldestFirst(lane)' = [slot \in 0 .. Delay - 1 |-> pending'[lane][slot]]
  BY <1>2, <1>3
<1>5. OldestFirst(lane)' = pending'[lane]
  BY <1>4
<1> QED
  BY <1>5 DEF Decided

LEMMA LaneResets == ASSUME IInv, Reset, NEW lane \in Lanes PROVE Lane(lane)!Reset
<1>1. pending'[lane] = Start.pending
  BY DEF Reset
<1>2. Decided(lane)' = [step \in 1 .. Delay |-> pending'[lane][step - 1].step]
  <2>1. ~busy /\ UNCHANGED pending_slot
    BY DEF Reset
  <2>2. pending'[lane] \in [0 .. Delay - 1 -> Steps]
    BY <1>1, StartFacts
  <2> QED
    BY <2>1, <2>2, StoredDecided
<1>3. Decided(lane)' = [step \in 1 .. Delay |-> 0]
  <2>1. \A step \in 1 .. Delay : pending'[lane][step - 1].step = 0
    <3> SUFFICES ASSUME NEW step \in 1 .. Delay PROVE pending'[lane][step - 1].step = 0
      OBVIOUS
    <3>1. step - 1 \in 0 .. Delay - 1
      BY TurnFacts
    <3> QED
      BY <1>1, <3>1, StartFacts
  <2> QED
    BY <1>2, <2>1
<1>4. phasor'[lane] = InitialPhase % Turn
  BY StartFacts DEF Reset
<1>5. /\ ~busy /\ busy' = busy /\ limit'[lane] = limit[lane]
      /\ frequency'[lane] = InitialFrequency /\ last_error'[lane] = 0
  BY DEF Reset
<1> QED
  BY <1>3, <1>4, <1>5 DEF Decided, Lane!Reset, Lane!Still

LaneOf(source, lane) ==
  [angle |-> source.phasor[lane], frequency |-> source.frequency[lane],
   last_error |-> source.last_error[lane],
   decided |-> [step \in 1 .. Delay |-> source.pending[lane][step - 1].step]]

LEMMA LaneCopies ==
  ASSUME IInv, NEW source \in Sources, CopyState(source), NEW lane \in Lanes
  PROVE  Lane(lane)!Copy(LaneOf(source, lane))
<1>1. pending' = source.pending /\ source.pending \in [Lanes -> [0 .. Delay - 1 -> Steps]]
  BY SourcesAssumption DEF CopyState, BetweenCalls, Loops
<1>2. Decided(lane)' = [step \in 1 .. Delay |-> source.pending[lane][step - 1].step]
  <2>1. ~busy /\ UNCHANGED pending_slot
    BY DEF CopyState
  <2> QED
    BY <1>1, <2>1, StoredDecided
<1>3. /\ phasor'[lane] = source.phasor[lane] /\ frequency'[lane] = source.frequency[lane]
      /\ last_error'[lane] = source.last_error[lane]
  BY DEF CopyState
<1>4. ~busy /\ busy' = busy /\ limit'[lane] = limit[lane]
  BY DEF CopyState
<1> QED
  BY <1>2, <1>3, <1>4 DEF Decided, LaneOf, Lane!Copy

(* The step an oscillator makes, so many samples from now, as it coasts.   *)
Ahead(lane, n) == IF n < Delay THEN pending[lane][n].step ELSE frequency[lane]

LEMMA AheadType ==
  ASSUME TypeOK, NEW lane \in Lanes, NEW n \in Nat
  PROVE  Ahead(lane, n) \in Int
<1>1. CASE n < Delay
  <2>1. n \in 0 .. Delay - 1
    BY <1>1, TurnFacts
  <2> QED
    BY <1>1, <2>1 DEF Ahead, TypeOK, Steps
<1>2. CASE ~(n < Delay)
  BY <1>2 DEF Ahead, TypeOK
<1> QED
  BY <1>1, <1>2

LEMMA CoastedStep ==
  ASSUME TypeOK, NEW lane \in Lanes, NEW n \in Nat
  PROVE  /\ Coasted(lane, 0) = phase[lane]
         /\ Coasted(lane, n + 1) = Coasted(lane, n) + Ahead(lane, n)
<1>1. Delay \in Nat \ {0} /\ frequency[lane] \in Int /\ phase[lane] \in Int
  BY TurnFacts DEF TypeOK
<1>2. Coasted(lane, 0) = phase[lane]
  <2>1. PICK made : /\ Sums(lane, Least(0), made)
                    /\ Coasted(lane, 0)
                         = made[Least(0)] + (0 - Least(0)) * frequency[lane]
    BY <1>1, CoastedFacts
  <2>2. Least(0) = 0 /\ (0 - 0) * frequency[lane] = 0
    BY <1>1 DEF Least
  <2>3. made[0] = phase[lane]
    BY <2>1 DEF Sums
  <2> QED
    BY <1>1, <2>1, <2>2, <2>3
<1>3. PICK made : /\ Sums(lane, Least(n), made)
                  /\ Coasted(lane, n) = made[Least(n)] + (n - Least(n)) * frequency[lane]
  BY CoastedFacts
<1>4. PICK more : /\ Sums(lane, Least(n + 1), more)
                  /\ Coasted(lane, n + 1)
                       = more[Least(n + 1)] + ((n + 1) - Least(n + 1)) * frequency[lane]
  BY CoastedFacts
<1>5. Least(n) \in Nat /\ Least(n) <= Least(n + 1) /\ Least(n + 1) \in Nat
  BY <1>1 DEF Least
<1>6. \A i \in 0 .. Least(n) : made[i] = more[i]
  <2>1. GoOnAlike(Least(n), made, more)
    <3>1. made[0] = more[0]
      BY <1>3, <1>4 DEF Sums
    <3>2. ASSUME NEW i \in 1 .. Least(n), made[i - 1] = more[i - 1]
          PROVE  made[i] = more[i]
      <4>1. i \in 1 .. Least(n + 1)
        BY <1>5
      <4>2. made[i] = made[i - 1] + pending[lane][i - 1].step
        BY <1>3 DEF Sums
      <4>3. more[i] = more[i - 1] + pending[lane][i - 1].step
        BY <1>4, <4>1 DEF Sums
      <4> QED
        BY <3>2, <4>2, <4>3
    <3> QED
      BY <3>1, <3>2 DEF GoOnAlike
  <2> QED
    BY <1>5, <2>1, SameRecursion
<1>7. made[Least(n)] = more[Least(n)] /\ made[Least(n)] \in Int
  <2>1. Least(n) \in 0 .. Least(n)
    BY <1>5
  <2> QED
    BY <1>3, <1>6, <2>1 DEF Sums
<1>8. CASE n < Delay
  <2>1. Least(n) = n /\ Least(n + 1) = n + 1 /\ n - n = 0 /\ (n + 1) - (n + 1) = 0
    BY <1>1, <1>8 DEF Least
  <2>2. 0 * frequency[lane] = 0
    BY <1>1
  <2>3. n + 1 \in 1 .. n + 1 /\ (n + 1) - 1 = n
    OBVIOUS
  <2>4. more[n + 1] = more[n] + pending[lane][n].step
    BY <1>4, <2>1, <2>3 DEF Sums
  <2>5. pending[lane][n].step = Ahead(lane, n) /\ Ahead(lane, n) \in Int
    BY <1>8, AheadType DEF Ahead
  <2>6. Coasted(lane, n) = made[n] + 0 /\ Coasted(lane, n + 1) = more[n + 1] + 0
    BY <1>3, <1>4, <2>1, <2>2
  <2>7. made[n] \in Int /\ made[n] = more[n]
    BY <1>7, <2>1
  <2> QED
    BY <1>2, <2>4, <2>5, <2>6, <2>7
<1>9. CASE ~(n < Delay)
  <2> DEFINE f == frequency[lane]
             k == n - Delay
             sum == made[Delay]
  <2>1. Least(n) = Delay /\ Least(n + 1) = Delay /\ (n + 1) - Delay = k + 1 /\ k \in Nat
    BY <1>1, <1>9 DEF Least
  <2>2. Ahead(lane, n) = f /\ f \in Int
    BY <1>1, <1>9 DEF Ahead
  <2>3. sum \in Int /\ more[Delay] = sum
    BY <1>7, <2>1
  <2>4. Coasted(lane, n) = sum + k * f /\ Coasted(lane, n + 1) = more[Delay] + (k + 1) * f
    BY <1>3, <1>4, <2>1
  <2> HIDE DEF f, k, sum
  <2>5. sum + (k + 1) * f = (sum + k * f) + f
    BY <2>1, <2>2, <2>3
  <2> QED
    BY <1>2, <2>2, <2>3, <2>4, <2>5
<1> QED
  BY <1>8, <1>9

(* Where the oscillator of a lane is when it has coasted.                  *)
CoastedTo(lane, n) ==
  [angle |-> Coasted(lane, n) % Turn,
   decided |-> [step \in 1 .. Delay |-> Ahead(lane, (step - 1) + n)]]

LEMMA CoastsOn ==
  ASSUME TypeOK, NEW lane \in Lanes, NEW n \in Nat
  PROVE  Lane(lane)!Coast(CoastedTo(lane, n)) = CoastedTo(lane, n + 1)
<1> DEFINE steps == [step \in 1 .. Delay |-> Ahead(lane, (step - 1) + n)]
<1>1. Delay \in Nat \ {0} /\ Turn \in Nat \ {0} /\ frequency[lane] \in Int
  BY TurnFacts DEF TypeOK
<1>2. steps \in [1 .. Delay -> Int]
  <2> SUFFICES ASSUME NEW step \in 1 .. Delay PROVE Ahead(lane, (step - 1) + n) \in Int
    OBVIOUS
  <2>1. (step - 1) + n \in Nat
    BY <1>1
  <2> QED
    BY <2>1, AheadType
<1>3. steps[1] = Ahead(lane, n)
  <2>1. 1 \in 1 .. Delay /\ (1 - 1) + n = n
    BY <1>1
  <2> QED
    BY <2>1
<1>4. CoastedTo(lane, n).decided = steps /\ CoastedTo(lane, n).angle = Coasted(lane, n) % Turn
  BY DEF CoastedTo
<1>5. ASSUME NEW step \in 1 .. Delay
      PROVE  Ahead(lane, (step - 1) + (n + 1))
               = IF step < Delay THEN steps[step + 1] ELSE frequency[lane]
  <2>1. CASE step < Delay
    <3>1. step + 1 \in 1 .. Delay /\ ((step + 1) - 1) + n = (step - 1) + (n + 1)
      BY <1>1, <2>1
    <3>2. steps[step + 1] = Ahead(lane, ((step + 1) - 1) + n)
      BY <3>1
    <3> QED
      BY <2>1, <3>1, <3>2
  <2>2. CASE ~(step < Delay)
    <3>1. ~((step - 1) + (n + 1) < Delay)
      BY <1>1, <2>2
    <3> QED
      BY <2>2, <3>1 DEF Ahead
  <2> QED
    BY <2>1, <2>2
<1> HIDE DEF steps
<1>6. /\ Head(steps) = Ahead(lane, n)
      /\ Append(Tail(steps), frequency[lane])
           = [step \in 1 .. Delay |-> IF step < Delay THEN steps[step + 1] ELSE frequency[lane]]
  BY <1>1, <1>2, <1>3, QueueFacts
<1>7. Append(Tail(steps), frequency[lane]) = CoastedTo(lane, n + 1).decided
  BY <1>5, <1>6 DEF CoastedTo
<1>8. (CoastedTo(lane, n).angle + Head(steps)) % Turn = CoastedTo(lane, n + 1).angle
  <2> DEFINE sum == Coasted(lane, n)
             next == Ahead(lane, n)
  <2>1. sum \in Int /\ next \in Int
    BY CoastedType, AheadType
  <2>2. Coasted(lane, n + 1) = sum + next
    BY CoastedStep
  <2>3. CoastedTo(lane, n + 1).angle = Coasted(lane, n + 1) % Turn
    BY DEF CoastedTo
  <2> HIDE DEF sum, next
  <2>4. ((sum % Turn) + next) % Turn = (sum + next) % Turn
    BY <1>1, <2>1, SumOfTurns
  <2>5. (CoastedTo(lane, n).angle + Head(steps)) % Turn = ((sum % Turn) + next) % Turn
    BY <1>4, <1>6 DEF sum, next
  <2> QED
    BY <2>2, <2>3, <2>4, <2>5
<1>9. Lane(lane)!Coast(CoastedTo(lane, n))
        = [angle |-> (CoastedTo(lane, n).angle + Head(steps)) % Turn,
           decided |-> Append(Tail(steps), frequency[lane])]
  BY <1>4 DEF Lane!Coast
<1>10. CoastedTo(lane, n + 1)
         = [angle |-> CoastedTo(lane, n + 1).angle, decided |-> CoastedTo(lane, n + 1).decided]
  BY DEF CoastedTo
<1> QED
  BY <1>7, <1>8, <1>9, <1>10

LEMMA Coasts ==
  ASSUME TypeOK, NEW lane \in Lanes, NEW count \in Nat,
         phasor[lane] = phase[lane] % Turn, pending_slot = 0
  PROVE  Lane(lane)!Coasting(count) = CoastedTo(lane, count)
<1> DEFINE first == [angle |-> phasor[lane], decided |-> Decided(lane)]
           Is(after) == after = [n \in 0 .. count |->
                          IF n = 0 THEN first ELSE Lane(lane)!Coast(after[n - 1])]
           expected == [n \in 0 .. count |-> CoastedTo(lane, n)]
<1>1. first = CoastedTo(lane, 0)
  <2>1. Coasted(lane, 0) = phase[lane]
    BY CoastedStep
  <2>2. Decided(lane) = [step \in 1 .. Delay |-> pending[lane][step - 1].step]
    BY DecidedFacts
  <2>3. \A step \in 1 .. Delay : Ahead(lane, (step - 1) + 0) = pending[lane][step - 1].step
    <3> SUFFICES ASSUME NEW step \in 1 .. Delay
                 PROVE  Ahead(lane, (step - 1) + 0) = pending[lane][step - 1].step
      OBVIOUS
    <3>1. (step - 1) + 0 = step - 1 /\ step - 1 < Delay
      BY TurnFacts
    <3> QED
      BY <3>1 DEF Ahead
  <2> QED
    BY <2>1, <2>2, <2>3 DEF CoastedTo
<1>2. \A n \in 1 .. count : CoastedTo(lane, n) = Lane(lane)!Coast(CoastedTo(lane, n - 1))
  <2> SUFFICES ASSUME NEW n \in 1 .. count
               PROVE  CoastedTo(lane, n) = Lane(lane)!Coast(CoastedTo(lane, n - 1))
    OBVIOUS
  <2>1. n - 1 \in Nat /\ (n - 1) + 1 = n
    OBVIOUS
  <2>2. Lane(lane)!Coast(CoastedTo(lane, n - 1)) = CoastedTo(lane, (n - 1) + 1)
    BY <2>1, CoastsOn
  <2> QED
    BY <2>1, <2>2
<1>3. Is(expected)
  <2> DEFINE values == [n \in 0 .. count |->
                          IF n = 0 THEN first ELSE Lane(lane)!Coast(expected[n - 1])]
  <2>1. ASSUME NEW n \in 0 .. count PROVE expected[n] = values[n]
    <3>1. CASE n = 0
      BY <1>1, <3>1
    <3>2. CASE n # 0
      <4>1. n \in 1 .. count /\ n - 1 \in 0 .. count
        BY <3>2
      <4>2. expected[n - 1] = CoastedTo(lane, n - 1)
        BY <4>1
      <4>3. values[n] = Lane(lane)!Coast(expected[n - 1])
        BY <3>2
      <4>4. expected[n] = CoastedTo(lane, n)
        OBVIOUS
      <4> HIDE DEF values, expected
      <4> QED
        BY <1>2, <4>1, <4>2, <4>3, <4>4
    <3> QED
      BY <3>1, <3>2
  <2>2. values = [n \in 0 .. count |-> values[n]]
    OBVIOUS
  <2>3. expected = [n \in 0 .. count |-> expected[n]]
    OBVIOUS
  <2> HIDE DEF values
  <2>4. expected = values
    <3> HIDE DEF expected
    <3> QED
      BY <2>1, <2>2, <2>3
  <2> QED
    BY <2>4 DEF values
<1> DEFINE that == CHOOSE f : Is(f)
<1>4. Is(that)
  BY <1>3
<1>5. Lane(lane)!Coasting(count) = that[count]
  BY DEF Lane!Coasting, Decided
<1> HIDE DEF that
<1>6. that[0] = first /\ \A n \in 1 .. count : that[n] = Lane(lane)!Coast(that[n - 1])
  BY <1>4
<1>7. GoOnAlike(count, that, expected)
  <2>1. that[0] = expected[0]
    BY <1>1, <1>6
  <2>2. ASSUME NEW n \in 1 .. count, that[n - 1] = expected[n - 1]
        PROVE  that[n] = expected[n]
    <3>1. n \in 0 .. count /\ n - 1 \in 0 .. count
      OBVIOUS
    <3>2. expected[n] = CoastedTo(lane, n) /\ expected[n - 1] = CoastedTo(lane, n - 1)
      BY <3>1
    <3> QED
      BY <1>2, <1>6, <2>2, <3>2
  <2> QED
    BY <2>1, <2>2 DEF GoOnAlike
<1>8. that[count] = expected[count]
  <2> HIDE DEF expected
  <2>1. count \in 0 .. count
    OBVIOUS
  <2> QED
    BY <1>7, <2>1, SameRecursion
<1> QED
  BY <1>5, <1>8

LEMMA LaneSkips ==
  ASSUME IInv, NEW count \in SkipCounts, Skip(count), NEW lane \in Lanes
  PROVE  Lane(lane)!Skip(count)
<1>1. ~busy /\ count > 0 /\ count \in Nat /\ TypeOK /\ pending_slot = 0
  BY ConstantsAssumption, IdleFacts DEF IInv, Skip
<1>2. phasor[lane] = phase[lane] % Turn
  BY DEF IInv, PhasorFollowsPhase
<1>3. Lane(lane)!Coasting(count) = CoastedTo(lane, count)
  BY <1>1, <1>2, Coasts
<1>4. phasor'[lane] = Coasted(lane, count) % Turn
  <2>1. phasor'[lane] = Remainder(Coasted(lane, count)) % Turn
    BY DEF Skip
  <2> QED
    BY <1>1, <2>1, CoastedType, RemainderTurns
<1>5. Decided(lane)' = [step \in 1 .. Delay |-> Ahead(lane, (step - 1) + count)]
  <2>1. pending'[lane] = [slot \in 0 .. Delay - 1 |->
          IF slot + count < Delay THEN pending[lane][slot + count] ELSE Step(frequency[lane])]
    BY DEF Skip
  <2>2. pending'[lane] \in [0 .. Delay - 1 -> Steps]
    <3>1. TypeOK'
      BY SkipKeeps DEF IInv
    <3> QED
      BY <3>1 DEF TypeOK
  <2>3. Decided(lane)' = [step \in 1 .. Delay |-> pending'[lane][step - 1].step]
    <3>1. UNCHANGED pending_slot
      BY DEF Skip
    <3> QED
      BY <1>1, <2>2, <3>1, StoredDecided
  <2>4. ASSUME NEW step \in 1 .. Delay
        PROVE  pending'[lane][step - 1].step = Ahead(lane, (step - 1) + count)
    <3>1. step - 1 \in 0 .. Delay - 1
      BY TurnFacts
    <3>2. frequency[lane] \in Int
      BY <1>1 DEF TypeOK
    <3> QED
      BY <2>1, <3>1, <3>2, StepFacts DEF Ahead
  <2> QED
    BY <2>3, <2>4
<1>6. /\ phasor'[lane] = Lane(lane)!Coasting(count).angle
      /\ Decided(lane)' = Lane(lane)!Coasting(count).decided
  BY <1>3, <1>4, <1>5 DEF CoastedTo
<1>7. /\ busy' = busy /\ limit'[lane] = limit[lane] /\ frequency'[lane] = frequency[lane]
      /\ last_error'[lane] = 0
  BY DEF Skip
<1> QED
  BY <1>1, <1>6, <1>7 DEF Decided, Lane!Skip

LEMMA LanesStep ==
  ASSUME IInv, [Next]_vars, NEW lane \in Lanes
  PROVE  LaneStep(lane)
<1>1. CASE \E count \in SampleCounts, limits \in [Lanes -> Limits] : Execute(count, limits)
  BY <1>1, LaneBegins DEF LaneStep, Lane!Next
<1>2. CASE \E error \in [Lanes -> Errors] : Sample(error)
  BY <1>2, LaneSamples DEF LaneStep, Lane!Next
<1>3. CASE Return
  BY <1>3, LaneEnds DEF LaneStep, Lane!Next
<1>4. CASE Reset
  BY <1>4, LaneResets DEF LaneStep, Lane!Next
<1>5. CASE \E count \in SkipCounts : Skip(count)
  BY <1>5, LaneSkips DEF LaneStep, Lane!Next
<1>6. CASE \E turns \in [Lanes -> QuarterTurns] : Rotate(turns)
  BY <1>6, LaneRotates DEF LaneStep, Lane!Next
<1>7. CASE \E source \in Sources : CopyState(source)
  <2>1. PICK source \in Sources : CopyState(source)
    BY <1>7
  <2>2. Lane(lane)!Copy(LaneOf(source, lane))
    BY <2>1, LaneCopies
  <2>3. Lane(lane)!Next
    BY <2>2 DEF Lane!Next, LaneOf
  <2> QED
    BY <2>3 DEF LaneStep
<1>8. CASE UNCHANGED vars
  <2>1. Decided(lane)' = Decided(lane)
    BY <1>8, SameDecided DEF vars, loop
  <2>2. UNCHANGED <<busy, limit[lane], phasor[lane], frequency[lane], last_error[lane]>>
    BY <1>8 DEF vars, loop
  <2> QED
    BY <2>1, <2>2 DEF LaneStep, Lane!vars, Decided
<1> QED
  BY <1>1, <1>2, <1>3, <1>4, <1>5, <1>6, <1>7, <1>8 DEF Next

(* Every lane is the loop CostasLane describes, on its own: all lanes in   *)
(* lockstep, the ring in place of a queue, the clamping left out and the   *)
(* skip in one go (costas_loop_generic.cpp, costas_loop_avx2_fma.cpp,      *)
(* costas_loop_common.cpp) take no step that the lane alone would not.     *)
THEOREM LanesAreLanes == Spec => AreLanes
<1>1. Init => \A lane \in Lanes : Lane(lane)!Init
  BY LaneStarts
<1>2. IInv /\ [Next]_vars => [\A lane \in Lanes : LaneStep(lane)]_vars
  BY LanesStep
<1> QED
  BY <1>1, <1>2, Invariance, PTL DEF Spec, AreLanes
=============================================================================
