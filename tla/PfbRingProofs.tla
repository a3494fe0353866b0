---------------------------- MODULE PfbRingProofs ----------------------------
(***************************************************************************)
(* Proofs about PfbRing, for every layout, ring size and block size, and   *)
(* that it implements PfbStream.                                           *)
(*                                                                         *)
(* The argument about the ring.  HistorySize is at least the filter span,  *)
(* plus what a staged loop writes ahead, plus three decimations.           *)
(* RingIsStream says what every cell of the ring holds; a hop that waits   *)
(* is described by its age, the number of samples written since its own,   *)
(* which the queue bounds keep small enough that none of the cells of its  *)
(* window has been overwritten.                                            *)
(*                                                                         *)
(* The argument about the stream, in the second half.  Every hop that is   *)
(* written was filtered from its own window.  What is left are its number  *)
(* and phase: the loops count hops, phases and samples separately, and     *)
(* Follows says that all three counts describe the same position of the    *)
(* stream, and that the hops written or queued are the next ones, without  *)
(* a gap.                                                                  *)
(***************************************************************************)
EXTENDS PfbRing, TLAPS, WellFoundedInduction

-----------------------------------------------------------------------------
(* Facts about the layout.                                                 *)

(* A ring of the size the constructor asks for exists, and it is as large  *)
(* as the constructor asked.                                               *)
LEMMA HistorySizeFacts ==
  /\ HistorySize \in Nat \ {0}
  /\ HistorySize >= HistoryNeeded
<1> DEFINE Fitting == {p \in PowersOfTwo : p >= HistoryNeeded}
<1>1. Fitting \subseteq Nat /\ Fitting # {} /\ Fitting \subseteq PowersOfTwo
  BY HistoryAssumption, LayoutAssumption DEF PowersOfTwo
<1>2. PICK least \in Fitting : \A q \in Fitting : ~(q < least)
  <2>1. \E least \in Fitting : \A q \in Fitting : ~(<<q, least>> \in OpToRel(<, Nat))
    BY <1>1, NatLessThanWellFounded, WFMin
  <2> QED
    BY <1>1, <2>1 DEF OpToRel
<1>3. \A q \in PowersOfTwo : q >= HistoryNeeded => least <= q
  <2> SUFFICES ASSUME NEW q \in PowersOfTwo, q >= HistoryNeeded
               PROVE  least <= q
    OBVIOUS
  <2>1. q \in Fitting /\ ~(q < least)
    BY <1>2
  <2> QED
    BY <1>1, <2>1
<1>4. HistorySize \in PowersOfTwo /\ HistorySize >= HistoryNeeded
  BY <1>2, <1>3 DEF HistorySize, NextPowerOfTwo
<1> QED
  BY <1>4, LayoutAssumption DEF PowersOfTwo

(* The room the ring leaves for writes ahead of a hop, for each loop.      *)
LEMMA RoomFacts ==
  /\ Decimation \in Nat \ {0} /\ PhasePeriod \in Nat \ {0} /\ Bins \in Nat \ {0}
  /\ FilterSpan \in Nat \ {0} /\ Bins <= FilterSpan
  /\ HistorySize \in Nat \ {0}
  /\ HistorySize >= FilterSpan + 3 * Decimation
  /\ UsesD4x4Loop /\ Outputs # 0 =>
       /\ Bins = 8 /\ Decimation = 4
       /\ HistorySize >= FilterSpan + 76
  /\ UsesD4x4Loop /\ Outputs # 0 /\ RunsD4x4 => HistorySize >= FilterSpan + 268
<1>1. FilterSpan \in Nat \ {0} /\ Bins <= FilterSpan
  <2>1. Rows \in Nat \ {0} /\ Bins \in Nat \ {0}
    BY LayoutAssumption
  <2>2. \A r \in Nat \ {0}, b \in Nat \ {0} : r * b \in Nat /\ b <= r * b
    OBVIOUS
  <2> QED
    BY <2>1, <2>2 DEF FilterSpan
<1>2. /\ Staging \in Nat
      /\ StagedD4x4 => Staging >= 64
      /\ RunsD4x4 => Staging >= 256
  BY DEF Staging, RunsD4x4, StagedD4x4, WriteLookahead, RunsSpan, Larger
<1>3. UsesD4x4Loop /\ Outputs # 0 => StagedD4x4 /\ Bins = 8 /\ Decimation = 4
  BY LayoutAssumption, PeriodAssumption DEF UsesD4x4Loop, ExactD4x4, StagedD4x4, StagedLayout
<1> QED
  BY <1>1, <1>2, <1>3, HistorySizeFacts, LayoutAssumption DEF HistoryNeeded

(* Up to four hops wait for their batch.                                   *)
LEMMA BatchLimitFacts == BatchLimit \in 1 .. 4
<1>1. (HistorySize - FilterSpan) \div Decimation \in Nat
  BY RoomFacts
<1> QED
  BY <1>1 DEF BatchLimit, Smaller

-----------------------------------------------------------------------------
(* Facts about the ring.                                                   *)

(* A cursor moved by at most one ring wraps at most once.                  *)
LEMMA WrapOnce ==
  ASSUME NEW slot \in Slots, NEW count \in 0 .. HistorySize
  PROVE  /\ Wrap(slot + count) \in Slots
         /\ Wrap(slot + count) =
              IF slot + count < HistorySize THEN slot + count ELSE slot + count - HistorySize
BY HistorySizeFacts DEF Wrap, Slots

(* The distance of a cell of either copy from a cursor.                    *)
LEMMA WrapBack ==
  ASSUME NEW slot \in Slots, NEW s \in Slots
  PROVE  LET k == IF s < slot THEN s - slot + HistorySize ELSE s - slot
         IN  /\ k \in 0 .. HistorySize - 1
             /\ Wrap(s - slot) = k
             /\ Wrap((s + HistorySize) - slot) = k
BY HistorySizeFacts DEF Wrap, Slots

(* The remainder is the only number below the divisor that is left when a  *)
(* multiple of the divisor is taken away.                                  *)
LEMMA RemainderUnique ==
  ASSUME NEW d \in Nat \ {0}, NEW q \in Int, NEW r \in 0 .. d - 1
  PROVE  (q * d + r) % d = r
<1> DEFINE m == q * d + r
           p == m \div d
<1>1. m \in Int /\ p \in Int /\ m % d \in 0 .. d - 1 /\ m = p * d + (m % d)
  OBVIOUS
<1>2. \A e \in Nat \ {0} : e * d >= d
  OBVIOUS
<1>3. (q - p) * d = (m % d) - r
  <2>1. (q - p) * d = q * d - p * d
    BY <1>1
  <2> HIDE DEF p
  <2> QED
    BY <1>1, <2>1
<1>4. (p - q) * d = r - (m % d)
  <2>1. (p - q) * d = p * d - q * d
    BY <1>1
  <2> HIDE DEF p
  <2> QED
    BY <1>1, <2>1
<1>5. q - p \notin Nat \ {0} /\ p - q \notin Nat \ {0}
  <2> HIDE DEF p, m
  <2> QED
    BY <1>1, <1>2, <1>3, <1>4
<1>6. q = p
  <2> HIDE DEF p, m
  <2> QED
    BY <1>1, <1>5
<1> QED
  BY <1>1, <1>3, <1>6

(* A full turn of the ring leads back to the same slot.                    *)
LEMMA WrapTurn ==
  ASSUME NEW n \in Nat
  PROVE  Wrap(n + HistorySize) = Wrap(n)
<1> DEFINE q == n \div HistorySize
<1>1. /\ HistorySize \in Nat \ {0} /\ q \in Int
      /\ n % HistorySize \in 0 .. HistorySize - 1
      /\ n = q * HistorySize + (n % HistorySize)
  BY HistorySizeFacts
<1>2. n + HistorySize = (q + 1) * HistorySize + (n % HistorySize)
  <2>1. (q + 1) * HistorySize = q * HistorySize + HistorySize
    BY <1>1
  <2> HIDE DEF q
  <2> QED
    BY <1>1, <2>1
<1>3. ((q + 1) * HistorySize + (n % HistorySize)) % HistorySize = n % HistorySize
  <2>1. q + 1 \in Int
    BY <1>1
  <2> HIDE DEF q
  <2> QED
    BY <1>1, <2>1, RemainderUnique, Zenon
<1> QED
  BY <1>2, <1>3 DEF Wrap

(* Any cursor a mask yields is a slot.                                     *)
LEMMA ModRange == \A x \in Int, d \in Nat \ {0} : x % d \in 0 .. d - 1
  OBVIOUS

LEMMA WrapSlot ==
  ASSUME NEW n \in Nat
  PROVE  Wrap(n) \in Slots
BY HistorySizeFacts DEF Wrap, Slots

(* One cell after a write.                                                 *)
LEMMA WrittenCell ==
  ASSUME NEW cells, NEW slot, NEW first, NEW count, NEW i \in 0 .. 2 * HistorySize - 1
  PROVE  Written(cells, slot, first, count)[i] =
           IF Wrap(i - slot) < count THEN first + Wrap(i - slot) ELSE cells[i]
BY DEF Written

(* The number of the newest sample a slot can hold before sample n.        *)
NumberIn(s, slot, n) == IF s < slot THEN n - slot + s ELSE n - slot + s - HistorySize

LEMMA HoldsNumbers ==
  ASSUME NEW cells, NEW slot, NEW n
  PROVE  Holds(cells, slot, n) <=>
           \A s \in Slots : /\ cells[s] = Stream!Sample(NumberIn(s, slot, n))
                           /\ cells[s + HistorySize] = Stream!Sample(NumberIn(s, slot, n))
BY DEF Holds, NumberIn

(* Writing at most a whole ring behind the newest sample keeps the ring a  *)
(* suffix of the stream; writing a whole ring makes it one.                *)
LEMMA WriteHolds ==
  ASSUME NEW cells, NEW slot \in Slots, NEW n \in Nat, NEW count \in 0 .. HistorySize,
         Holds(cells, slot, n) \/ count = HistorySize
  PROVE  Holds(Written(cells, slot, n, count), Wrap(slot + count), n + count)
<1> DEFINE written == Written(cells, slot, n, count)
           next == Wrap(slot + count)
<1>1. HistorySize \in Nat \ {0} /\ slot \in Nat /\ slot < HistorySize
  BY HistorySizeFacts DEF Slots
<1>2. next = IF slot + count < HistorySize THEN slot + count ELSE slot + count - HistorySize
  BY WrapOnce
<1>3. ASSUME NEW s \in Slots
      PROVE  /\ written[s] = Stream!Sample(NumberIn(s, next, n + count))
             /\ written[s + HistorySize] = Stream!Sample(NumberIn(s, next, n + count))
  <2> DEFINE back == IF s < slot THEN s - slot + HistorySize ELSE s - slot
  <2>1. /\ back \in 0 .. HistorySize - 1
        /\ Wrap(s - slot) = back /\ Wrap((s + HistorySize) - slot) = back
    BY WrapBack
  <2>2. /\ s \in Nat /\ s < HistorySize
        /\ s \in 0 .. 2 * HistorySize - 1 /\ s + HistorySize \in 0 .. 2 * HistorySize - 1
    BY <1>1 DEF Slots
  <2>3. /\ written[s] = IF back < count THEN n + back ELSE cells[s]
        /\ written[s + HistorySize] = IF back < count THEN n + back
                                     ELSE cells[s + HistorySize]
    <3>1. \A i \in 0 .. 2 * HistorySize - 1 :
            written[i] = IF Wrap(i - slot) < count THEN n + Wrap(i - slot) ELSE cells[i]
      BY WrittenCell
    <3> HIDE DEF back, written
    <3> QED
      BY <2>1, <2>2, <3>1
  <2> HIDE DEF written, next
  <2>4. CASE back < count
    <3>1. NumberIn(s, next, n + count) = n + back
      BY <1>1, <1>2, <2>2, <2>4 DEF NumberIn
    <3> QED
      BY <2>1, <2>3, <2>4, <3>1 DEF Stream!Sample
  <2>5. CASE ~(back < count)
    <3>1. Holds(cells, slot, n)
      BY <2>1, <2>5
    <3>2. NumberIn(s, next, n + count) = NumberIn(s, slot, n)
      BY <1>1, <1>2, <2>2, <2>5 DEF NumberIn
    <3> QED
      BY <2>3, <2>5, <3>1, <3>2, HoldsNumbers
  <2> QED
    BY <2>4, <2>5
<1> QED
  <2> HIDE DEF written, next
  <2>1. Holds(written, next, n + count)
    BY <1>3, HoldsNumbers
  <2> QED
    BY <2>1 DEF written, next

(* The samples written are samples of the stream.                          *)
LEMMA WrittenType ==
  ASSUME NEW cells \in [0 .. 2 * HistorySize - 1 -> Samples], NEW slot \in Slots,
         NEW n \in Nat, NEW count \in Nat, n + count <= MaxPosition
  PROVE  Written(cells, slot, n, count) \in [0 .. 2 * HistorySize - 1 -> Samples]
<1> SUFFICES ASSUME NEW i \in 0 .. 2 * HistorySize - 1
             PROVE  (LET k == Wrap(i - slot) IN IF k < count THEN n + k ELSE cells[i]) \in Samples
  BY DEF Written
<1>1. Wrap(i - slot) \in Nat
  BY HistorySizeFacts DEF Wrap, Slots
<1> QED
  BY <1>1, LayoutAssumption DEF Samples

(* Any cell of either copy that lies behind the cursor by the age of a     *)
(* sample the ring still has holds that sample.                            *)
LEMMA ReadCell ==
  ASSUME NEW cells, NEW slot \in Slots, NEW n \in Nat, Holds(cells, slot, n),
         NEW age \in 1 .. HistorySize, NEW i \in 0 .. 2 * HistorySize - 1,
         \/ i = slot - age \/ i = slot - age + HistorySize
         \/ i = slot - age + 2 * HistorySize
  PROVE  cells[i] = Stream!Sample(n - age)
<1> DEFINE s == IF i < HistorySize THEN i ELSE i - HistorySize
<1>1. HistorySize \in Nat \ {0} /\ slot \in Nat /\ slot < HistorySize
  BY HistorySizeFacts DEF Slots
<1>2. s \in Slots /\ (i = s \/ i = s + HistorySize)
  BY <1>1 DEF Slots
<1>3. (IF s < slot THEN n - slot + s ELSE n - slot + s - HistorySize) = n - age
  BY <1>1
<1> HIDE DEF s
<1> QED
  BY <1>2, <1>3 DEF Holds

-----------------------------------------------------------------------------
(* Facts about filtering.                                                  *)

(* slot is where sample n goes, and the window of the hop is still in the  *)
(* ring then.                                                              *)
Behind(hop, slot, n) ==
  /\ n - hop.at \in 1 .. HistorySize - FilterSpan + 1
  /\ slot = Wrap(hop.cursor + (n - hop.at))

Spaced(batch) == \A j \in 3 .. Len(batch) : batch[j].at = batch[j - 2].at + 2 * Decimation

(* Hops that were filtered from the samples that end on them.              *)
Intact(hops) ==
  /\ hops \in Seq(Hops)
  /\ \A j \in 1 .. Len(hops) : hops[j].window = Stream!Window(hops[j].at)

LEMMA ElementOfSeq ==
  ASSUME NEW S, NEW s \in Seq(S), NEW i \in 1 .. Len(s)
  PROVE  s[i] \in S
OBVIOUS

LEMMA QueuedHopType ==
  ASSUME NEW hop \in QueuedHops
  PROVE  /\ hop.cursor \in Slots /\ hop.phase \in 0 .. PhasePeriod - 1
         /\ hop.at \in 0 .. MaxPosition - 1 /\ hop.at \in Int
BY DEF QueuedHops

(* A tap of a hop that is not too old reads the sample of the stream that  *)
(* lies as far behind the hop's own.                                       *)
LEMMA HopCell ==
  ASSUME NEW cells, NEW slot \in Slots, NEW n \in Nat, Holds(cells, slot, n),
         NEW hop \in QueuedHops, Behind(hop, slot, n), NEW tap \in 0 .. FilterSpan - 1
  PROVE  cells[hop.cursor + HistorySize - tap] = Stream!Sample(hop.at - tap)
<1> DEFINE age == n - hop.at
           i == hop.cursor + HistorySize - tap
<1>1. /\ HistorySize \in Nat \ {0} /\ FilterSpan \in Nat \ {0} /\ FilterSpan <= HistorySize
      /\ slot \in Nat /\ slot < HistorySize
  BY RoomFacts DEF Slots
<1>2. /\ hop.cursor \in Slots /\ hop.cursor \in Nat /\ hop.cursor < HistorySize
      /\ hop.at \in Nat
  BY <1>1 DEF QueuedHops, Slots
<1>3. /\ age \in 1 .. HistorySize - FilterSpan + 1
      /\ slot = Wrap(hop.cursor + age)
  BY DEF Behind
<1> HIDE DEF age
<1>4. age + tap \in 1 .. HistorySize /\ age \in 0 .. HistorySize
  BY <1>1, <1>3
<1>5. slot = IF hop.cursor + age < HistorySize THEN hop.cursor + age
             ELSE hop.cursor + age - HistorySize
  BY <1>2, <1>3, <1>4, WrapOnce
<1>6. /\ i \in 0 .. 2 * HistorySize - 1
      /\ \/ i = slot - (age + tap) \/ i = slot - (age + tap) + HistorySize
         \/ i = slot - (age + tap) + 2 * HistorySize
  BY <1>1, <1>2, <1>4, <1>5
<1>7. cells[i] = Stream!Sample(n - (age + tap))
  <2> HIDE DEF i
  <2> QED
    BY <1>4, <1>6, ReadCell
<1>8. n - (age + tap) = hop.at - tap
  BY <1>2 DEF age
<1> QED
  BY <1>7, <1>8

(* The samples shared between the hops of a batch are the hop's own.       *)
LEMMA BatchReads ==
  ASSUME NEW cells, NEW slot \in Slots, NEW n \in Nat, Holds(cells, slot, n),
         NEW batch \in Seq(QueuedHops), Spaced(batch),
         \A j \in 1 .. Len(batch) : Behind(batch[j], slot, n),
         NEW j \in 1 .. Len(batch)
  PROVE  BatchWindow(cells, batch, j) = Stream!Window(batch[j].at)
<1> SUFFICES ASSUME NEW tap \in 0 .. FilterSpan - 1
             PROVE  (IF SharesLoads(batch) /\ (j - 1) % 4 >= 2 /\ (tap \div Bins) % 2 = 1
                     THEN cells[batch[j - 2].cursor + HistorySize - (tap - Bins)]
                     ELSE cells[batch[j].cursor + HistorySize - tap])
                    = Stream!Sample(batch[j].at - tap)
  BY DEF BatchWindow, Stream!Window
<1>1. /\ batch[j] \in QueuedHops /\ batch[j].at \in Int
      /\ cells[batch[j].cursor + HistorySize - tap] = Stream!Sample(batch[j].at - tap)
  <2>1. batch[j] \in QueuedHops
    OBVIOUS
  <2> QED
    BY <2>1, QueuedHopType, HopCell
<1>2. CASE SharesLoads(batch) /\ (j - 1) % 4 >= 2 /\ (tap \div Bins) % 2 = 1
  <2>1. Bins = 8 /\ Decimation = 4
    BY <1>2 DEF SharesLoads, StagedLayout
  <2>2. j \in 3 .. Len(batch) /\ j - 2 \in 1 .. Len(batch) /\ batch[j - 2] \in QueuedHops
    BY <1>2
  <2>3. tap - Bins \in 0 .. FilterSpan - 1
    BY <1>2, <2>1, RoomFacts
  <2>4. cells[batch[j - 2].cursor + HistorySize - (tap - Bins)]
          = Stream!Sample(batch[j - 2].at - (tap - Bins))
    BY <2>2, <2>3, HopCell
  <2>5. batch[j].at = batch[j - 2].at + 8
    BY <2>1, <2>2 DEF Spaced
  <2>6. batch[j - 2].at - (tap - Bins) = batch[j].at - tap
    <3>1. batch[j - 2].at \in Int /\ batch[j].at \in Int /\ tap \in Int
      BY <1>1, <2>2, QueuedHopType
    <3>2. \A a, b, t \in Int : a = b + 8 => b - (t - 8) = a - t
      OBVIOUS
    <3> QED
      BY <2>1, <2>5, <3>1, <3>2, Zenon
  <2> QED
    BY <1>2, <2>4, <2>6
<1> QED
  BY <1>1, <1>2

LEMMA HopBuilt ==
  ASSUME NEW at \in 0 .. MaxPosition - 1, NEW phase \in 0 .. PhasePeriod - 1,
         NEW window \in [0 .. FilterSpan - 1 -> Samples]
  PROVE  [at |-> at, phase |-> phase, window |-> window] \in Hops
BY DEF Hops

LEMMA WindowType ==
  ASSUME NEW at \in 0 .. MaxPosition - 1
  PROVE  Stream!Window(at) \in [0 .. FilterSpan - 1 -> Samples]
BY RoomFacts, LayoutAssumption
   DEF Stream!Window, Stream!Sample, Samples, Silence, Stream!Silence

(* A filtered batch is intact.                                             *)
LEMMA FilteredIntact ==
  ASSUME NEW cells, NEW slot \in Slots, NEW n \in Nat, Holds(cells, slot, n),
         NEW batch \in Seq(QueuedHops), Spaced(batch),
         \A j \in 1 .. Len(batch) : Behind(batch[j], slot, n)
  PROVE  Intact(Filtered(cells, batch))
<1>1. ASSUME NEW j \in 1 .. Len(batch)
      PROVE  /\ batch[j].at \in 0 .. MaxPosition - 1 /\ batch[j].phase \in 0 .. PhasePeriod - 1
             /\ BatchWindow(cells, batch, j) = Stream!Window(batch[j].at)
             /\ BatchWindow(cells, batch, j) \in [0 .. FilterSpan - 1 -> Samples]
  <2>1. batch[j].at \in 0 .. MaxPosition - 1 /\ batch[j].phase \in 0 .. PhasePeriod - 1
    <3>1. batch[j] \in QueuedHops
      OBVIOUS
    <3> QED
      BY <3>1, QueuedHopType
  <2>2. BatchWindow(cells, batch, j) = Stream!Window(batch[j].at)
    BY BatchReads
  <2> QED
    BY <2>1, <2>2, WindowType
<1>2. Len(batch) \in Nat
  OBVIOUS
<1> QED
  BY <1>1, <1>2 DEF Intact, Filtered, Hops

LEMMA IntactConcat ==
  ASSUME NEW first, NEW second, Intact(first), Intact(second)
  PROVE  Intact(first \o second)
BY DEF Intact

-----------------------------------------------------------------------------
(* The hops of a staged span: count of them, written samples staged.       *)
LEMMA NextHopsBehind ==
  ASSUME TypeOK, UsesD4x4Loop, Outputs # 0, NEW count \in Nat, NEW written \in Nat,
         4 * count < written + 4, written + FilterSpan <= HistorySize,
         Now + written <= MaxPosition
  PROVE  /\ NextHops(count) \in Seq(QueuedHops)
         /\ Len(NextHops(count)) = count
         /\ Spaced(NextHops(count))
         /\ \A j \in 1 .. count :
              Behind(NextHops(count)[j], Wrap(run_cursor + written), Now + written)
<1>1. /\ Decimation = 4 /\ HistorySize \in Nat \ {0} /\ FilterSpan \in Nat \ {0}
      /\ PhasePeriod \in Nat \ {0}
  BY RoomFacts
<1>2. run_cursor \in Slots /\ run_cursor \in Nat /\ run_cursor < HistorySize /\ Now \in Nat
  BY <1>1 DEF TypeOK, Slots, Now
<1>3. ASSUME NEW hops \in Nat
      PROVE  PhaseAfter(hops) \in 0 .. PhasePeriod - 1
  <2>1. ExactD4x4 => PhasePeriod = 4
    BY PeriodAssumption DEF ExactD4x4
  <2> QED
    BY <1>1, <2>1 DEF PhaseAfter, TypeOK
<1>4. ASSUME NEW j \in 1 .. count
      PROVE  /\ NextHops(count)[j] \in QueuedHops
             /\ NextHops(count)[j].at = Now + (j - 1) * 4
             /\ NextHops(count)[j].cursor = Wrap(run_cursor + (j - 1) * 4)
  <2>1. (j - 1) * 4 \in 0 .. HistorySize /\ Now + (j - 1) * 4 \in 0 .. MaxPosition - 1
    BY <1>1, <1>2, LayoutAssumption
  <2>2. Wrap(run_cursor + (j - 1) * 4) \in Slots
    BY <1>2, <2>1, WrapOnce
  <2>3. j - 1 \in Nat /\ PhaseAfter(j - 1) \in 0 .. PhasePeriod - 1
    BY <1>3
  <2>4. NextHops(count)[j] = [cursor |-> Wrap(run_cursor + (j - 1) * 4),
                              phase  |-> PhaseAfter(j - 1),
                              at     |-> Now + (j - 1) * 4]
    BY <1>1 DEF NextHops
  <2> QED
    BY <2>1, <2>2, <2>3, <2>4 DEF QueuedHops
<1>5. NextHops(count) \in Seq(QueuedHops) /\ Len(NextHops(count)) = count
  <2>1. NextHops(count) = [j \in 1 .. count |-> NextHops(count)[j]]
    BY DEF NextHops
  <2> QED
    BY <1>4, <2>1
<1>6. Spaced(NextHops(count))
  <2> SUFFICES ASSUME NEW j \in 3 .. count
               PROVE  NextHops(count)[j].at = NextHops(count)[j - 2].at + 8
    BY <1>1, <1>5 DEF Spaced
  <2>1. j \in 1 .. count /\ j - 2 \in 1 .. count
    OBVIOUS
  <2>2. NextHops(count)[j].at = Now + (j - 1) * 4
    BY <1>4, <2>1
  <2>3. NextHops(count)[j - 2].at = Now + ((j - 2) - 1) * 4
    BY <1>4, <2>1
  <2> QED
    BY <1>2, <2>2, <2>3
<1>7. ASSUME NEW j \in 1 .. count
      PROVE  Behind(NextHops(count)[j], Wrap(run_cursor + written), Now + written)
  <2> DEFINE before == (j - 1) * 4
             slot == Wrap(run_cursor + before)
  <2>1. before \in 0 .. written - 1 /\ before \in 0 .. HistorySize
        /\ written - before \in 1 .. HistorySize - FilterSpan + 1
        /\ written - before \in 0 .. HistorySize /\ written \in 0 .. HistorySize
    BY <1>1
  <2>2. /\ NextHops(count)[j].at = Now + before /\ NextHops(count)[j].cursor = slot
    BY <1>4
  <2> HIDE DEF before
  <2>3. (Now + written) - (Now + before) = written - before
    BY <1>2, <2>1
  <2>4. slot \in Slots
        /\ slot = IF run_cursor + before < HistorySize THEN run_cursor + before
                  ELSE run_cursor + before - HistorySize
    BY <1>2, <2>1, WrapOnce
  <2> HIDE DEF slot
  <2>5. Wrap(slot + (written - before)) = Wrap(run_cursor + written)
    <3>1. Wrap(slot + (written - before)) =
            IF slot + (written - before) < HistorySize THEN slot + (written - before)
            ELSE slot + (written - before) - HistorySize
      BY <2>1, <2>4, WrapOnce
    <3>2. Wrap(run_cursor + written) =
            IF run_cursor + written < HistorySize THEN run_cursor + written
            ELSE run_cursor + written - HistorySize
      BY <1>2, <2>1, WrapOnce
    <3> QED
      BY <1>1, <1>2, <2>1, <2>4, <3>1, <3>2
  <2> QED
    BY <2>1, <2>2, <2>3, <2>5 DEF Behind
<1> QED
  BY <1>5, <1>6, <1>7

-----------------------------------------------------------------------------
(* The queue.  Its hops end on consecutive hop positions, the last of them *)
(* phase samples before the next one (or a whole decimation, when the next *)
(* sample ends a hop), and each knows the slot its sample went to.         *)

Ages(batch, slot, n, phase) ==
  \A j \in 1 .. Len(batch) :
    /\ n - batch[j].at =
         (Len(batch) - j) * Decimation + (IF phase = 0 THEN Decimation ELSE phase)
    /\ slot = Wrap(batch[j].cursor + (n - batch[j].at))

Young(batch, n, limit) == \A j \in 1 .. Len(batch) : n - batch[j].at \in 1 .. limit

LEMMA AgesSpaced ==
  ASSUME NEW batch \in Seq(QueuedHops), NEW slot, NEW n \in Nat,
         NEW phase \in 0 .. Decimation - 1, Ages(batch, slot, n, phase)
  PROVE  Spaced(batch)
<1> SUFFICES ASSUME NEW j \in 3 .. Len(batch)
             PROVE  batch[j].at = batch[j - 2].at + 2 * Decimation
  BY DEF Spaced
<1> DEFINE rest == IF phase = 0 THEN Decimation ELSE phase
<1>1. Decimation \in Nat /\ rest \in Nat /\ Len(batch) \in Nat
  BY RoomFacts
<1>2. /\ j \in 1 .. Len(batch) /\ j - 2 \in 1 .. Len(batch)
      /\ batch[j] \in QueuedHops /\ batch[j - 2] \in QueuedHops
  OBVIOUS
<1>3. batch[j].at \in Int /\ batch[j - 2].at \in Int
  BY <1>2, QueuedHopType
<1>4. /\ n - batch[j].at = (Len(batch) - j) * Decimation + rest
      /\ n - batch[j - 2].at = (Len(batch) - (j - 2)) * Decimation + rest
  BY <1>2 DEF Ages
<1>5. (Len(batch) - (j - 2)) * Decimation = (Len(batch) - j) * Decimation + 2 * Decimation
  <2>1. \A l, d \in Int : (l - (j - 2)) * d = (l - j) * d + 2 * d
    OBVIOUS
  <2> QED
    BY <1>1, <2>1
<1>6. (Len(batch) - j) * Decimation \in Int
  BY <1>1
<1> DEFINE older == (Len(batch) - (j - 2)) * Decimation
           newer == (Len(batch) - j) * Decimation
<1>7. older \in Int /\ newer \in Int /\ older = newer + 2 * Decimation
  BY <1>1, <1>5, <1>6
<1>8. n - batch[j].at = newer + rest /\ n - batch[j - 2].at = older + rest
  BY <1>4
<1> HIDE DEF rest, older, newer
<1> DEFINE this == batch[j].at
           before == batch[j - 2].at
<1>9. this \in Int /\ before \in Int /\ n \in Int /\ rest \in Int /\ Decimation \in Int
  BY <1>1, <1>3
<1>10. n - this = newer + rest /\ n - before = older + rest
  BY <1>8
<1> HIDE DEF this, before
<1>11. this = before + 2 * Decimation
  BY <1>7, <1>9, <1>10
<1> QED
  BY <1>11 DEF this, before

LEMMA AgesBehind ==
  ASSUME NEW batch \in Seq(QueuedHops), NEW slot, NEW n \in Nat, NEW phase, NEW limit \in Nat,
         limit <= HistorySize - FilterSpan + 1,
         Ages(batch, slot, n, phase), Young(batch, n, limit)
  PROVE  \A j \in 1 .. Len(batch) : Behind(batch[j], slot, n)
<1> SUFFICES ASSUME NEW j \in 1 .. Len(batch)
             PROVE  Behind(batch[j], slot, n)
  OBVIOUS
<1>1. n - batch[j].at \in 1 .. limit /\ slot = Wrap(batch[j].cursor + (n - batch[j].at))
  BY DEF Ages, Young
<1>2. HistorySize - FilterSpan + 1 \in Int
  BY RoomFacts
<1> QED
  BY <1>1, <1>2 DEF Behind

(* The slot of a hop moves with the cursor.                                *)
LEMMA SlotStep ==
  ASSUME NEW hop \in QueuedHops, NEW slot, NEW n \in Nat,
         n - hop.at \in 0 .. HistorySize - 1, slot = Wrap(hop.cursor + (n - hop.at))
  PROVE  Wrap(slot + 1) = Wrap(hop.cursor + ((n + 1) - hop.at))
<1> DEFINE age == n - hop.at
<1>1. hop.cursor \in Slots /\ hop.at \in Int /\ HistorySize \in Nat \ {0}
  BY QueuedHopType, RoomFacts
<1>2. (n + 1) - hop.at = age + 1
  BY <1>1
<1>3. age \in 0 .. HistorySize - 1 /\ age \in 0 .. HistorySize /\ age + 1 \in 0 .. HistorySize
      /\ 1 \in 0 .. HistorySize
  BY <1>1
<1> HIDE DEF age
<1>4. slot \in Slots /\ slot = IF hop.cursor + age < HistorySize THEN hop.cursor + age
                               ELSE hop.cursor + age - HistorySize
  BY <1>1, <1>3, WrapOnce DEF age
<1>5. Wrap(slot + 1) = IF slot + 1 < HistorySize THEN slot + 1 ELSE slot + 1 - HistorySize
  BY <1>3, <1>4, WrapOnce
<1>6. Wrap(hop.cursor + (age + 1)) =
        IF hop.cursor + (age + 1) < HistorySize THEN hop.cursor + (age + 1)
        ELSE hop.cursor + (age + 1) - HistorySize
  BY <1>1, <1>3, WrapOnce
<1>7. hop.cursor \in Nat /\ hop.cursor < HistorySize
  BY <1>1 DEF Slots
<1>8. Wrap(slot + 1) = Wrap(hop.cursor + (age + 1))
  BY <1>1, <1>3, <1>4, <1>5, <1>6, <1>7
<1> QED
  BY <1>2, <1>8

(* A sample that ends no hop makes every queued hop one sample older.      *)
LEMMA AgesStep ==
  ASSUME NEW batch \in Seq(QueuedHops), NEW slot, NEW n \in Nat,
         NEW phase \in 1 .. Decimation - 1,
         Ages(batch, slot, n, phase), Young(batch, n, HistorySize - 1)
  PROVE  Ages(batch, Wrap(slot + 1), n + 1, Counted(phase, Decimation))
<1> SUFFICES ASSUME NEW j \in 1 .. Len(batch)
             PROVE  /\ (n + 1) - batch[j].at = (Len(batch) - j) * Decimation
                         + (IF Counted(phase, Decimation) = 0 THEN Decimation
                            ELSE Counted(phase, Decimation))
                    /\ Wrap(slot + 1) = Wrap(batch[j].cursor + ((n + 1) - batch[j].at))
  BY DEF Ages
<1>1. batch[j] \in QueuedHops /\ Len(batch) - j \in Nat
  OBVIOUS
<1>2. /\ n - batch[j].at = (Len(batch) - j) * Decimation + phase
      /\ slot = Wrap(batch[j].cursor + (n - batch[j].at))
      /\ n - batch[j].at \in 0 .. HistorySize - 1
  <2>1. phase # 0
    OBVIOUS
  <2>2. n - batch[j].at \in 1 .. HistorySize - 1
    BY DEF Young
  <2> QED
    BY <2>1, <2>2 DEF Ages
<1>3. Wrap(slot + 1) = Wrap(batch[j].cursor + ((n + 1) - batch[j].at))
  BY <1>1, <1>2, SlotStep
<1>4. batch[j].at \in Int /\ Decimation \in Nat \ {0}
  BY <1>1, QueuedHopType, RoomFacts
<1>5. (Len(batch) - j) * Decimation \in Int
  BY <1>1, <1>4
<1>6. (IF Counted(phase, Decimation) = 0 THEN Decimation ELSE Counted(phase, Decimation))
        = phase + 1
  BY <1>4 DEF Counted
<1>7. (n + 1) - batch[j].at = (Len(batch) - j) * Decimation + (phase + 1)
  <2> DEFINE whole == (Len(batch) - j) * Decimation
  <2>1. whole \in Int /\ n - batch[j].at = whole + phase
    BY <1>2, <1>5
  <2> HIDE DEF whole
  <2>2. (n + 1) - batch[j].at = whole + (phase + 1)
    BY <1>4, <2>1
  <2> QED
    BY <2>2 DEF whole
<1> QED
  BY <1>3, <1>6, <1>7

(* A sample that ends a hop joins the queue.                               *)
LEMMA AgesAppend ==
  ASSUME NEW batch \in Seq(QueuedHops), NEW slot, NEW n \in Nat, NEW hop \in QueuedHops,
         hop.at = n, hop.cursor = slot,
         Ages(batch, slot, n, 0), Young(batch, n, HistorySize - 1)
  PROVE  Ages(Append(batch, hop), Wrap(slot + 1), n + 1, Counted(0, Decimation))
<1> DEFINE longer == Append(batch, hop)
<1>1. Decimation \in Nat \ {0}
      /\ (IF Counted(0, Decimation) = 0 THEN Decimation ELSE Counted(0, Decimation)) = 1
  BY RoomFacts DEF Counted
<1>2. /\ longer \in Seq(QueuedHops) /\ Len(longer) = Len(batch) + 1 /\ Len(batch) \in Nat
      /\ longer[Len(longer)] = hop
      /\ \A j \in 1 .. Len(batch) : longer[j] = batch[j]
  OBVIOUS
<1> HIDE DEF longer
<1> SUFFICES ASSUME NEW j \in 1 .. Len(longer)
             PROVE  /\ (n + 1) - longer[j].at = (Len(longer) - j) * Decimation + 1
                    /\ Wrap(slot + 1) = Wrap(longer[j].cursor + ((n + 1) - longer[j].at))
  BY <1>1 DEF Ages, longer
<1>3. CASE j \in 1 .. Len(batch)
  <2>1. longer[j] = batch[j] /\ batch[j] \in QueuedHops
    BY <1>2, <1>3
  <2>2. /\ n - batch[j].at = (Len(batch) - j) * Decimation + Decimation
        /\ slot = Wrap(batch[j].cursor + (n - batch[j].at))
        /\ n - batch[j].at \in 0 .. HistorySize - 1
    BY <1>3 DEF Ages, Young
  <2>3. Wrap(slot + 1) = Wrap(batch[j].cursor + ((n + 1) - batch[j].at))
    BY <2>1, <2>2, SlotStep
  <2>4. (Len(longer) - j) * Decimation = (Len(batch) - j) * Decimation + Decimation
    <3>1. \A l, d \in Int : ((l + 1) - j) * d = (l - j) * d + d
      OBVIOUS
    <3> QED
      BY <1>1, <1>2, <3>1
  <2>5. batch[j].at \in Int /\ (Len(batch) - j) * Decimation \in Int
    BY <1>1, <1>2, <2>1, QueuedHopType
  <2>6. (n + 1) - batch[j].at = ((Len(batch) - j) * Decimation + Decimation) + 1
    <3> DEFINE whole == (Len(batch) - j) * Decimation
    <3>1. whole \in Int /\ n - batch[j].at = whole + Decimation
      BY <2>2, <2>5
    <3> HIDE DEF whole
    <3>2. \A a, w, d \in Int : n - a = w + d => (n + 1) - a = (w + d) + 1
      OBVIOUS
    <3>3. (n + 1) - batch[j].at = (whole + Decimation) + 1
      BY <1>1, <2>5, <3>1, <3>2
    <3> QED
      BY <3>3 DEF whole
  <2> QED
    BY <2>1, <2>3, <2>4, <2>6
<1>4. CASE j = Len(longer)
  <2>1. longer[j] = hop
    BY <1>2, <1>4
  <2>2. (Len(longer) - j) * Decimation = 0
    BY <1>1, <1>2, <1>4
  <2> QED
    BY <2>1, <2>2
<1> QED
  BY <1>2, <1>3, <1>4

(* What keeps waiting hops young: at most three of them in the streaming   *)
(* loop, less than a group of samples in the tail of the d4x4 loop.        *)
LEMMA FewAreYoung ==
  ASSUME NEW batch \in Seq(QueuedHops), NEW slot, NEW n \in Nat,
         NEW phase \in 0 .. Decimation - 1, Ages(batch, slot, n, phase), Len(batch) <= 3
  PROVE  Young(batch, n, 3 * Decimation)
<1> SUFFICES ASSUME NEW j \in 1 .. Len(batch)
             PROVE  n - batch[j].at \in 1 .. 3 * Decimation
  BY DEF Young
<1> DEFINE rest == IF phase = 0 THEN Decimation ELSE phase
<1>1. rest \in 1 .. Decimation /\ Decimation \in Nat
  BY RoomFacts
<1>2. n - batch[j].at = (Len(batch) - j) * Decimation + rest
  BY DEF Ages
<1>3. Len(batch) - j \in 0 .. 2
  OBVIOUS
<1>4. \A k \in 0 .. 2, d \in Nat : k * d \in 0 .. 2 * d
  OBVIOUS
<1>5. (Len(batch) - j) * Decimation \in 0 .. 2 * Decimation
  BY <1>1, <1>3, <1>4
<1> HIDE DEF rest
<1> QED
  BY <1>1, <1>2, <1>5

LEMMA FirstIsOldest ==
  ASSUME NEW batch \in Seq(QueuedHops), NEW slot, NEW n \in Nat,
         NEW phase \in 0 .. Decimation - 1, Ages(batch, slot, n, phase),
         NEW limit \in Nat, batch # << >> => n - batch[1].at <= limit
  PROVE  Young(batch, n, limit)
<1> SUFFICES ASSUME NEW j \in 1 .. Len(batch)
             PROVE  n - batch[j].at \in 1 .. limit
  BY DEF Young
<1> DEFINE rest == IF phase = 0 THEN Decimation ELSE phase
<1>1. rest \in 1 .. Decimation /\ Decimation \in Nat
  BY RoomFacts
<1>2. 1 \in 1 .. Len(batch) /\ batch # << >>
  OBVIOUS
<1>3. /\ n - batch[j].at = (Len(batch) - j) * Decimation + rest
      /\ n - batch[1].at = (Len(batch) - 1) * Decimation + rest
  BY <1>2 DEF Ages
<1>4. \A d, k, l \in Nat : k <= l => k * d \in 0 .. l * d
  OBVIOUS
<1>5. (Len(batch) - j) * Decimation \in 0 .. (Len(batch) - 1) * Decimation
  BY <1>1, <1>4
<1>6. (Len(batch) - 1) * Decimation \in Int
  BY <1>1
<1> HIDE DEF rest
<1> QED
  BY <1>1, <1>2, <1>3, <1>5, <1>6

LEMMA YoungMore ==
  ASSUME NEW batch, NEW n, NEW limit \in Int, NEW more \in Int, limit <= more,
         Young(batch, n, limit)
  PROVE  Young(batch, n, more)
BY DEF Young

LEMMA YoungAppend ==
  ASSUME NEW batch \in Seq(QueuedHops), NEW n \in Nat, NEW hop \in QueuedHops, hop.at = n,
         NEW limit \in Nat, Young(batch, n, limit)
  PROVE  Young(Append(batch, hop), n + 1, limit + 1)
<1> DEFINE longer == Append(batch, hop)
<1>1. /\ Len(longer) = Len(batch) + 1 /\ Len(batch) \in Nat
      /\ longer[Len(longer)] = hop
      /\ \A j \in 1 .. Len(batch) : longer[j] = batch[j]
  OBVIOUS
<1> HIDE DEF longer
<1> SUFFICES ASSUME NEW j \in 1 .. Len(longer)
             PROVE  (n + 1) - longer[j].at \in 1 .. limit + 1
  BY DEF Young, longer
<1>2. CASE j \in 1 .. Len(batch)
  <2>1. batch[j] \in QueuedHops /\ batch[j].at \in Int /\ longer[j] = batch[j]
    BY <1>1, <1>2, QueuedHopType
  <2>2. n - batch[j].at \in 1 .. limit
    BY <1>2 DEF Young
  <2>3. \A a \in Int : n - a \in 1 .. limit => (n + 1) - a \in 1 .. limit + 1
    OBVIOUS
  <2> QED
    BY <2>1, <2>2, <2>3
<1>3. CASE j = Len(longer)
  <2>1. (n + 1) - n \in 1 .. limit + 1
    OBVIOUS
  <2> QED
    BY <1>1, <1>3, <2>1
<1> QED
  BY <1>1, <1>2, <1>3

-----------------------------------------------------------------------------
(* The inductive invariant.                                                *)

(* What the loops rely on about the call they are part of.                 *)
CallOK ==
  /\ stage = "idle" => input_count = 0 /\ input_index = 0 /\ queued = << >>
  /\ stage # "idle" => Outputs # 0
  /\ stage = "d4x4" => UsesD4x4Loop

QueueAges == Ages(queued, run_cursor, Now, run_decimation_phase)

(* The streaming loop filters a full batch before it writes again; the     *)
(* d4x4 loop only queues the hops of its last few samples.                 *)
QueueBounded ==
  /\ stage = "stream" => Len(queued) < BatchLimit
  /\ stage = "d4x4" /\ queued # << >> =>
       Remaining + (Now - queued[1].at) <= GroupSamples - 1

IInv ==
  /\ TypeOK /\ RingIsStream /\ WindowsIntact
  /\ CallOK /\ QueueAges /\ QueueBounded

LEMMA NumbersType ==
  ASSUME TypeOK
  PROVE  /\ Now \in Nat /\ Remaining \in Nat
         /\ input_count \in Nat /\ input_index \in Nat /\ position \in Nat
         /\ Now + Remaining <= MaxPosition /\ MaxPosition \in Nat
         /\ Now + Remaining = position + input_count
BY LayoutAssumption DEF TypeOK, Now, Remaining

(* Every queued hop is young enough to wait for one more sample.           *)
LEMMA QueueYoung ==
  ASSUME IInv
  PROVE  /\ Young(queued, Now, HistorySize - FilterSpan)
         /\ Young(queued, Now, HistorySize - 1)
<1>1. /\ queued \in Seq(QueuedHops) /\ run_decimation_phase \in 0 .. Decimation - 1
      /\ Ages(queued, run_cursor, Now, run_decimation_phase)
      /\ stage \in {"idle", "stream", "d4x4"}
  BY DEF IInv, TypeOK, QueueAges
<1>2. Now \in Nat /\ Remaining \in Nat
  BY NumbersType DEF IInv
<1>3. /\ HistorySize \in Nat /\ FilterSpan \in Nat \ {0} /\ Decimation \in Nat
      /\ HistorySize - FilterSpan >= 3 * Decimation
  BY RoomFacts
<1>4. Young(queued, Now, HistorySize - FilterSpan)
  <2>1. CASE stage = "idle"
    BY <2>1 DEF IInv, CallOK, Young
  <2>2. CASE stage = "stream"
    <3>1. Len(queued) <= 3
      BY <1>1, <2>2, BatchLimitFacts DEF IInv, QueueBounded
    <3>2. Young(queued, Now, 3 * Decimation)
      BY <1>1, <1>2, <3>1, FewAreYoung
    <3> QED
      BY <1>3, <3>2, YoungMore
  <2>3. CASE stage = "d4x4"
    <3>1. HistorySize - FilterSpan >= 76
      BY <1>3, <2>3, RoomFacts DEF IInv, CallOK
    <3>2. queued # << >> => Now - queued[1].at <= 15
      <4> SUFFICES ASSUME queued # << >>
                   PROVE  Now - queued[1].at <= 15
        OBVIOUS
      <4>1. queued[1] \in QueuedHops /\ queued[1].at \in Int
        BY <1>1, QueuedHopType
      <4>2. Remaining + (Now - queued[1].at) <= 15
        BY <2>3 DEF IInv, QueueBounded, GroupSamples
      <4>3. Now - queued[1].at \in Int
        BY <1>2, <4>1
      <4> QED
        BY <1>2, <4>2, <4>3
    <3>3. Young(queued, Now, 15)
      BY <1>1, <1>2, <3>2, FirstIsOldest
    <3> QED
      BY <1>3, <3>1, <3>3, YoungMore
  <2> QED
    BY <1>1, <2>1, <2>2, <2>3
<1>5. Young(queued, Now, HistorySize - 1)
  BY <1>3, <1>4, YoungMore
<1> QED
  BY <1>4, <1>5

(* Writing behind the newest sample, for every loop.                       *)
LEMMA WriteFacts ==
  ASSUME IInv, stage # "idle", NEW count \in 1 .. HistorySize, count <= Remaining,
         WriteSamples(count), position' = position, input_count' = input_count
  PROVE  /\ history' \in [0 .. 2 * HistorySize - 1 -> Samples]
         /\ run_cursor' \in Slots /\ run_cursor' = Wrap(run_cursor + count)
         /\ input_index' \in 0 .. input_count'
         /\ Now' = Now + count /\ Remaining' = Remaining - count
         /\ Holds(history', run_cursor', Now')
<1>1. /\ history \in [0 .. 2 * HistorySize - 1 -> Samples] /\ run_cursor \in Slots
      /\ input_index \in 0 .. input_count /\ input_count \in Nat
  BY DEF IInv, TypeOK
<1>2. /\ Now \in Nat /\ Remaining \in Nat /\ position \in Nat
      /\ Now + Remaining <= MaxPosition /\ MaxPosition \in Nat
  BY NumbersType DEF IInv
<1>3. HistorySize \in Nat \ {0} /\ count \in 0 .. HistorySize /\ count \in Nat
  BY RoomFacts
<1>4. Holds(history, run_cursor, Now)
  BY DEF IInv, RingIsStream, CallOK, WriteSlot
<1>5. /\ history' = Written(history, run_cursor, Now, count)
      /\ run_cursor' = Wrap(run_cursor + count)
      /\ input_index' = input_index + count
  BY DEF WriteSamples
<1>6. input_index' \in 0 .. input_count' /\ Now' = Now + count /\ Remaining' = Remaining - count
  BY <1>1, <1>2, <1>3, <1>5 DEF Now, Remaining
<1>7. Now + count <= MaxPosition
  BY <1>2, <1>3
<1>8. history' \in [0 .. 2 * HistorySize - 1 -> Samples]
  BY <1>1, <1>2, <1>3, <1>5, <1>7, WrittenType
<1>9. Holds(history', run_cursor', Now')
  BY <1>1, <1>2, <1>3, <1>4, <1>5, <1>6, WriteHolds
<1> QED
  BY <1>1, <1>3, <1>5, <1>6, <1>8, <1>9, WrapOnce

LEMMA CountedType ==
  ASSUME NEW period \in Nat \ {0}, NEW phase \in 0 .. period - 1
  PROVE  Counted(phase, period) \in 0 .. period - 1
BY DEF Counted

(* The iterations of the loops that end no hop keep the invariant.         *)
LEMMA WriteBetweenHopsStep == IInv /\ WriteBetweenHops => IInv'
<1> SUFFICES ASSUME IInv, WriteBetweenHops
             PROVE  IInv'
  OBVIOUS
<1>1. /\ stage # "idle" /\ Remaining > 0 /\ run_decimation_phase # 0 /\ WriteSamples(1)
      /\ run_decimation_phase' = Counted(run_decimation_phase, Decimation)
      /\ UNCHANGED <<cursor, decimation_phase, post_phase, stage, input_count, run_post_phase,
                     queued, output, position, delivered>>
  BY DEF WriteBetweenHops
<1>2. 1 \in 1 .. HistorySize /\ 1 <= Remaining
  BY <1>1, RoomFacts, NumbersType DEF IInv
<1>3. /\ history' \in [0 .. 2 * HistorySize - 1 -> Samples]
      /\ run_cursor' \in Slots /\ run_cursor' = Wrap(run_cursor + 1)
      /\ input_index' \in 0 .. input_count'
      /\ Now' = Now + 1 /\ Remaining' = Remaining - 1
      /\ Holds(history', run_cursor', Now')
  BY <1>1, <1>2, WriteFacts
<1>4. run_decimation_phase \in 1 .. Decimation - 1
  BY <1>1, RoomFacts DEF IInv, TypeOK
<1>5. TypeOK'
  <2>1. run_decimation_phase' \in 0 .. Decimation - 1
    BY <1>1, <1>4, RoomFacts, CountedType
  <2> QED
    BY <1>1, <1>3, <2>1 DEF IInv, TypeOK
<1>6. RingIsStream'
  BY <1>1, <1>3 DEF RingIsStream, WriteSlot
<1>7. WindowsIntact'
  BY <1>1 DEF IInv, WindowsIntact
<1>8. CallOK'
  BY <1>1 DEF IInv, CallOK
<1>9. QueueAges'
  <2>1. Ages(queued, Wrap(run_cursor + 1), Now + 1, Counted(run_decimation_phase, Decimation))
    BY <1>4, QueueYoung, NumbersType, AgesStep DEF IInv, TypeOK, QueueAges
  <2> QED
    BY <1>1, <1>3, <2>1 DEF QueueAges
<1>10. QueueBounded'
  <2>1. ASSUME stage = "d4x4", queued # << >>
        PROVE  Remaining' + (Now' - queued[1].at) <= GroupSamples - 1
    <3>1. queued[1] \in QueuedHops /\ queued[1].at \in Int
      BY <2>1, QueuedHopType DEF IInv, TypeOK
    <3>2. Remaining + (Now - queued[1].at) <= 15
      BY <2>1 DEF IInv, QueueBounded, GroupSamples
    <3>3. Remaining \in Nat /\ Now \in Nat
      BY NumbersType DEF IInv
    <3>4. \A r, m, a \in Int : r + (m - a) <= 15 => (r - 1) + ((m + 1) - a) <= 15
      OBVIOUS
    <3> QED
      BY <1>3, <3>1, <3>2, <3>3, <3>4 DEF GroupSamples
  <2> QED
    BY <1>1, <2>1 DEF IInv, QueueBounded
<1> QED
  BY <1>5, <1>6, <1>7, <1>8, <1>9, <1>10 DEF IInv

(* A hop that ends on the next sample joins the queue; once the sample is  *)
(* written, the whole queue can be filtered.                               *)
LEMMA HopFacts ==
  ASSUME IInv, stage # "idle", Remaining > 0, run_decimation_phase = 0
  PROVE  LET batch == Append(queued, ThisHop)
         IN  /\ batch \in Seq(QueuedHops)
             /\ Ages(batch, Wrap(run_cursor + 1), Now + 1, Counted(0, Decimation))
             /\ Spaced(batch)
             /\ \A j \in 1 .. Len(batch) : Behind(batch[j], Wrap(run_cursor + 1), Now + 1)
<1> DEFINE batch == Append(queued, ThisHop)
<1>1. /\ queued \in Seq(QueuedHops) /\ run_cursor \in Slots
      /\ run_post_phase \in 0 .. PhasePeriod - 1
      /\ Ages(queued, run_cursor, Now, 0)
  BY DEF IInv, TypeOK, QueueAges
<1>2. Now \in Nat /\ Now + 1 \in Nat /\ Now \in 0 .. MaxPosition - 1
  BY NumbersType DEF IInv
<1>3. ThisHop \in QueuedHops /\ ThisHop.at = Now /\ ThisHop.cursor = run_cursor
  BY <1>1, <1>2 DEF ThisHop, QueuedHops
<1>4. Young(queued, Now, HistorySize - FilterSpan) /\ Young(queued, Now, HistorySize - 1)
  BY QueueYoung
<1>5. HistorySize - FilterSpan \in Nat /\ HistorySize - FilterSpan + 1 \in Nat
      /\ Counted(0, Decimation) \in 0 .. Decimation - 1
  BY RoomFacts, CountedType
<1>6. batch \in Seq(QueuedHops)
  BY <1>1, <1>3
<1>7. Ages(batch, Wrap(run_cursor + 1), Now + 1, Counted(0, Decimation))
  BY <1>1, <1>2, <1>3, <1>4, AgesAppend
<1>8. Young(batch, Now + 1, HistorySize - FilterSpan + 1)
  BY <1>1, <1>2, <1>3, <1>4, <1>5, YoungAppend
<1>9. Spaced(batch)
  <2> HIDE DEF batch
  <2> QED
    BY <1>2, <1>5, <1>6, <1>7, AgesSpaced
<1>10. \A j \in 1 .. Len(batch) : Behind(batch[j], Wrap(run_cursor + 1), Now + 1)
  <2> HIDE DEF batch
  <2> QED
    BY <1>2, <1>5, <1>6, <1>7, <1>8, AgesBehind
<1> QED
  BY <1>6, <1>7, <1>9, <1>10

LEMMA StreamHopStep == IInv /\ StreamHop => IInv'
<1> SUFFICES ASSUME IInv, StreamHop
             PROVE  IInv'
  OBVIOUS
<1> DEFINE batch == Append(queued, ThisHop)
<1>1. /\ stage = "stream" /\ Remaining > 0 /\ run_decimation_phase = 0 /\ WriteSamples(1)
      /\ \/ /\ Len(batch) = BatchLimit
            /\ output' = output \o Filtered(history', batch) /\ queued' = << >>
         \/ Len(batch) # BatchLimit /\ queued' = batch /\ output' = output
      /\ run_post_phase' = Counted(run_post_phase, PhasePeriod)
      /\ run_decimation_phase' = Counted(run_decimation_phase, Decimation)
      /\ UNCHANGED <<cursor, decimation_phase, post_phase, stage, input_count,
                     position, delivered>>
  BY DEF StreamHop
<1>2. 1 \in 1 .. HistorySize /\ 1 <= Remaining /\ Now + 1 \in Nat
  BY <1>1, RoomFacts, NumbersType DEF IInv
<1>3. /\ history' \in [0 .. 2 * HistorySize - 1 -> Samples]
      /\ run_cursor' \in Slots /\ run_cursor' = Wrap(run_cursor + 1)
      /\ input_index' \in 0 .. input_count'
      /\ Now' = Now + 1
      /\ Holds(history', run_cursor', Now')
  BY <1>1, <1>2, WriteFacts
<1>4. /\ batch \in Seq(QueuedHops)
      /\ Ages(batch, run_cursor', Now', run_decimation_phase')
      /\ Spaced(batch)
      /\ \A j \in 1 .. Len(batch) : Behind(batch[j], run_cursor', Now')
  BY <1>1, <1>3, HopFacts
<1>5. Intact(Filtered(history', batch))
  <2> HIDE DEF batch
  <2> QED
    BY <1>2, <1>3, <1>4, FilteredIntact
<1>6. Intact(output) /\ Intact(delivered)
  BY DEF IInv, TypeOK, WindowsIntact, Intact
<1>7. Intact(output') /\ Intact(delivered')
  BY <1>1, <1>5, <1>6, IntactConcat
<1>8. queued' \in Seq(QueuedHops) /\ (queued' = << >> \/ queued' = batch)
  <2>1. << >> \in Seq(QueuedHops)
    OBVIOUS
  <2> HIDE DEF batch
  <2> QED
    BY <1>1, <1>4, <2>1
<1>9. TypeOK'
  <2>1. run_decimation_phase' \in 0 .. Decimation - 1 /\ run_post_phase' \in 0 .. PhasePeriod - 1
    BY <1>1, RoomFacts, CountedType DEF IInv, TypeOK
  <2> QED
    BY <1>1, <1>3, <1>7, <1>8, <2>1 DEF IInv, TypeOK, Intact
<1>10. RingIsStream'
  BY <1>1, <1>3 DEF RingIsStream, WriteSlot
<1>11. WindowsIntact'
  BY <1>7 DEF WindowsIntact, Intact
<1>12. CallOK'
  BY <1>1 DEF IInv, CallOK
<1>13. QueueAges'
  BY <1>4, <1>8 DEF QueueAges, Ages
<1>14. QueueBounded'
  <2>1. Len(queued) < BatchLimit /\ BatchLimit \in 1 .. 4 /\ Len(batch) = Len(queued) + 1
        /\ Len(queued) \in Nat
    BY <1>1, BatchLimitFacts DEF IInv, TypeOK, QueueBounded
  <2>2. Len(queued') < BatchLimit
    <3> HIDE DEF batch
    <3>1. Len(<< >>) = 0
      OBVIOUS
    <3> QED
      BY <1>1, <2>1, <3>1
  <2> QED
    BY <1>1, <2>2 DEF QueueBounded
<1> QED
  BY <1>9, <1>10, <1>11, <1>12, <1>13, <1>14 DEF IInv

LEMMA TailHopStep == IInv /\ TailHop => IInv'
<1> SUFFICES ASSUME IInv, TailHop
             PROVE  IInv'
  OBVIOUS
<1> DEFINE batch == Append(queued, ThisHop)
<1>1. /\ stage = "d4x4" /\ Remaining < GroupSamples /\ Remaining > 0
      /\ run_decimation_phase = 0 /\ WriteSamples(1)
      /\ queued' = batch
      /\ run_post_phase' = Counted(run_post_phase, PhasePeriod)
      /\ run_decimation_phase' = Counted(run_decimation_phase, Decimation)
      /\ UNCHANGED <<cursor, decimation_phase, post_phase, stage, input_count, output,
                     position, delivered>>
  BY DEF TailHop
<1>2. 1 \in 1 .. HistorySize /\ 1 <= Remaining
  BY <1>1, RoomFacts, NumbersType DEF IInv
<1>3. /\ history' \in [0 .. 2 * HistorySize - 1 -> Samples]
      /\ run_cursor' \in Slots /\ run_cursor' = Wrap(run_cursor + 1)
      /\ input_index' \in 0 .. input_count'
      /\ Now' = Now + 1 /\ Remaining' = Remaining - 1
      /\ Holds(history', run_cursor', Now')
  BY <1>1, <1>2, WriteFacts
<1>4. batch \in Seq(QueuedHops) /\ Ages(batch, run_cursor', Now', run_decimation_phase')
  BY <1>1, <1>3, HopFacts
<1>5. TypeOK'
  <2>1. run_decimation_phase' \in 0 .. Decimation - 1 /\ run_post_phase' \in 0 .. PhasePeriod - 1
    BY <1>1, RoomFacts, CountedType DEF IInv, TypeOK
  <2> QED
    BY <1>1, <1>3, <1>4, <2>1 DEF IInv, TypeOK
<1>6. RingIsStream'
  BY <1>1, <1>3 DEF RingIsStream, WriteSlot
<1>7. WindowsIntact'
  BY <1>1 DEF IInv, WindowsIntact
<1>8. CallOK'
  BY <1>1 DEF IInv, CallOK
<1>9. QueueAges'
  BY <1>1, <1>4 DEF QueueAges
<1>10. QueueBounded'
  <2>1. Remaining' + (Now' - batch[1].at) <= 15
    <3>1. Remaining \in Nat /\ Now \in Nat /\ Remaining <= 15
      BY <1>1, NumbersType DEF IInv, GroupSamples
    <3>2. CASE queued = << >>
      <4>1. batch[1].at = Now
        BY <3>2 DEF ThisHop
      <4> QED
        BY <1>3, <3>1, <4>1
    <3>3. CASE queued # << >>
      <4>1. batch[1] = queued[1] /\ queued[1] \in QueuedHops
        BY <3>3 DEF IInv, TypeOK
      <4>2. queued[1].at \in Int
        BY <4>1, QueuedHopType
      <4>3. Remaining + (Now - queued[1].at) <= 15
        BY <1>1, <3>3 DEF IInv, QueueBounded, GroupSamples
      <4>4. \A r, m, a \in Int : r + (m - a) <= 15 => (r - 1) + ((m + 1) - a) <= 15
        OBVIOUS
      <4> QED
        BY <1>3, <3>1, <4>1, <4>2, <4>3, <4>4
    <3> QED
      BY <3>2, <3>3
  <2> QED
    BY <1>1, <2>1 DEF QueueBounded, GroupSamples
<1> QED
  BY <1>5, <1>6, <1>7, <1>8, <1>9, <1>10 DEF IInv

-----------------------------------------------------------------------------
(* Staged spans.                                                           *)

(* While a whole group is left to write, nothing waits.                    *)
LEMMA NothingWaits ==
  ASSUME IInv, stage = "d4x4", Remaining >= GroupSamples
  PROVE  queued = << >>
<1> SUFFICES ASSUME queued # << >>
             PROVE  FALSE
  OBVIOUS
<1>1. queued \in Seq(QueuedHops) /\ 1 \in 1 .. Len(queued)
  BY DEF IInv, TypeOK
<1>2. Now - queued[1].at \in 1 .. HistorySize - 1
  BY <1>1, QueueYoung DEF Young
<1>3. Remaining + (Now - queued[1].at) <= 15
  BY DEF IInv, QueueBounded, GroupSamples
<1>4. Remaining \in Nat /\ Remaining >= 16
  BY NumbersType DEF IInv, GroupSamples
<1>5. \A r, a \in Int : r >= 16 /\ a >= 1 => ~(r + a <= 15)
  OBVIOUS
<1> QED
  BY <1>2, <1>3, <1>4, <1>5

LEMMA PhaseAfterType ==
  ASSUME IInv, NEW hops \in Nat
  PROVE  PhaseAfter(hops) \in 0 .. PhasePeriod - 1
<1>1. ExactD4x4 => PhasePeriod = 4
  BY PeriodAssumption DEF ExactD4x4
<1> QED
  BY <1>1, RoomFacts DEF PhaseAfter, IInv, TypeOK

LEMMA StageSpanStep ==
  ASSUME IInv, NEW count \in 1 .. HistorySize, NEW filtered,
         StageSpan(count, filtered), Intact(filtered), queued = << >>,
         run_post_phase' \in 0 .. PhasePeriod - 1
  PROVE  IInv'
<1>1. /\ stage = "d4x4" /\ run_decimation_phase = 0 /\ Remaining >= count
      /\ WriteSamples(count)
      /\ output' = output \o filtered
      /\ UNCHANGED <<cursor, decimation_phase, post_phase, stage, input_count,
                     run_decimation_phase, queued, position, delivered>>
  BY DEF StageSpan
<1>2. count <= Remaining
  BY <1>1, NumbersType, RoomFacts DEF IInv
<1>3. /\ history' \in [0 .. 2 * HistorySize - 1 -> Samples]
      /\ run_cursor' \in Slots
      /\ input_index' \in 0 .. input_count'
      /\ Holds(history', run_cursor', Now')
  BY <1>1, <1>2, WriteFacts
<1>4. Intact(output') /\ Intact(delivered')
  <2>1. Intact(output) /\ Intact(delivered)
    BY DEF IInv, TypeOK, WindowsIntact, Intact
  <2> QED
    BY <1>1, <2>1, IntactConcat
<1>5. TypeOK'
  BY <1>1, <1>3, <1>4 DEF IInv, TypeOK, Intact
<1>6. RingIsStream'
  BY <1>1, <1>3 DEF RingIsStream, WriteSlot
<1>7. WindowsIntact'
  BY <1>4 DEF WindowsIntact, Intact
<1>8. CallOK'
  BY <1>1 DEF IInv, CallOK
<1>9. QueueAges'
  BY <1>1 DEF QueueAges, Ages
<1>10. QueueBounded'
  BY <1>1 DEF QueueBounded
<1> QED
  BY <1>5, <1>6, <1>7, <1>8, <1>9, <1>10 DEF IInv

LEMMA StagedSpanStep == IInv /\ StagedSpan => IInv'
<1> SUFFICES ASSUME IInv, StagedSpan
             PROVE  IInv'
  OBVIOUS
<1> DEFINE batch == NextHops(16)
<1>1. /\ StageSpan(64, Filtered(history', batch))
      /\ stage = "d4x4" /\ Remaining >= 64 /\ WriteSamples(64)
      /\ position' = position /\ input_count' = input_count
      /\ run_post_phase' = IF ExactD4x4 THEN run_post_phase ELSE PhaseAfter(16)
  <2>1. Decimation = 4
    BY RoomFacts DEF IInv, CallOK, StagedSpan, StageSpan
  <2>2. WriteLookahead = 64 /\ WriteLookahead \div Decimation = 16
    BY <2>1 DEF WriteLookahead
  <2> QED
    BY <2>2 DEF StagedSpan, StageSpan
<1>2. /\ UsesD4x4Loop /\ Outputs # 0 /\ 64 \in 1 .. HistorySize
      /\ 64 + FilterSpan <= HistorySize
  BY <1>1, RoomFacts DEF IInv, CallOK
<1>3. Now + 64 <= MaxPosition /\ 64 <= Remaining /\ Now + 64 \in Nat
  BY <1>1, NumbersType DEF IInv
<1>4. /\ run_cursor' \in Slots /\ run_cursor' = Wrap(run_cursor + 64)
      /\ Now' = Now + 64 /\ Holds(history', run_cursor', Now')
  BY <1>1, <1>2, <1>3, WriteFacts
<1>5. /\ batch \in Seq(QueuedHops) /\ Len(batch) = 16 /\ Spaced(batch)
      /\ \A j \in 1 .. Len(batch) : Behind(batch[j], run_cursor', Now')
  <2>1. TypeOK /\ 16 \in Nat /\ 64 \in Nat /\ 4 * 16 < 64 + 4
    BY DEF IInv
  <2>2. /\ batch \in Seq(QueuedHops) /\ Len(batch) = 16 /\ Spaced(batch)
        /\ \A j \in 1 .. 16 : Behind(batch[j], Wrap(run_cursor + 64), Now + 64)
    BY <1>2, <1>3, <2>1, NextHopsBehind
  <2> HIDE DEF batch
  <2> QED
    BY <1>4, <2>2
<1>6. Intact(Filtered(history', batch))
  <2> HIDE DEF batch
  <2> QED
    BY <1>3, <1>4, <1>5, FilteredIntact
<1>7. queued = << >>
  BY <1>1, <1>3, NothingWaits, NumbersType DEF IInv, GroupSamples
<1>8. run_post_phase' \in 0 .. PhasePeriod - 1
  BY <1>1, PhaseAfterType DEF IInv, TypeOK
<1> QED
  BY <1>1, <1>2, <1>6, <1>7, <1>8, StageSpanStep

(* Eight hops read from one origin, in whichever copy all of them fit.     *)
LEMMA RunReads ==
  ASSUME IInv, UsesD4x4Loop, Outputs # 0, RunsD4x4,
         NEW cells, Holds(cells, Wrap(run_cursor + 256), Now + 256),
         Now + 256 <= MaxPosition
  PROVE  Intact(RunFiltered(cells, NextHops(64)))
<1> DEFINE hops == NextHops(64)
           slot == Wrap(run_cursor + 256)
<1>1. /\ Bins = 8 /\ Decimation = 4 /\ FilterSpan \in Nat \ {0} /\ Bins <= FilterSpan
      /\ HistorySize \in Nat \ {0} /\ HistorySize >= FilterSpan + 268
  BY RoomFacts
<1>2. /\ run_cursor \in Slots /\ run_cursor \in Nat /\ run_cursor < HistorySize
      /\ Now \in Nat
  BY <1>1, NumbersType DEF IInv, TypeOK, Slots
<1>3. hops \in Seq(QueuedHops) /\ Len(hops) = 64
  <2>1. /\ TypeOK /\ 64 \in Nat /\ 256 \in Nat /\ 4 * 64 < 256 + 4
        /\ 256 + FilterSpan <= HistorySize
    BY <1>1 DEF IInv
  <2> QED
    BY <2>1, NextHopsBehind
<1>4. ASSUME NEW j \in 1 .. 64
      PROVE  /\ hops[j].at = Now + (j - 1) * 4
             /\ hops[j].cursor = Wrap(run_cursor + (j - 1) * 4)
  BY <1>1 DEF NextHops
<1>5. /\ slot \in Slots /\ slot \in Nat /\ slot < HistorySize
      /\ slot = IF run_cursor + 256 < HistorySize THEN run_cursor + 256
                ELSE run_cursor + 256 - HistorySize
  BY <1>1, <1>2, WrapOnce DEF Slots
<1> HIDE DEF hops, slot
<1>6. ASSUME NEW j \in 1 .. 64, NEW tap \in 0 .. FilterSpan - 1
      PROVE  cells[RunOrigin(hops[j - ((j - 1) % 8)].cursor) + (Bins - 1)
                     + (((j - 1) % 8) * Decimation - tap)]
               = Stream!Sample(hops[j].at - tap)
  <2> DEFINE lane == (j - 1) % 8
             base == j - lane
             c == hops[base].cursor
             before == (base - 1) * 4
             age == (256 - (before + lane * 4)) + tap
             i == RunOrigin(c) + (Bins - 1) + (lane * Decimation - tap)
  <2>1. lane \in 0 .. 7 /\ base \in 1 .. 64 /\ before \in 0 .. 252 /\ before + lane * 4 \in 0 .. 252
    OBVIOUS
  <2>2. c = IF run_cursor + before < HistorySize THEN run_cursor + before
            ELSE run_cursor + before - HistorySize
    <3>1. c = Wrap(run_cursor + before)
      BY <1>4, <2>1
    <3>2. before \in 0 .. HistorySize
      BY <1>1, <2>1
    <3> HIDE DEF c, before
    <3> QED
      BY <1>2, <3>1, <3>2, WrapOnce
  <2>3. hops[j].at - tap = (Now + 256) - age
    <3>1. hops[j].at = Now + (before + lane * 4) /\ before \in Int /\ lane \in Int /\ tap \in Int
      BY <1>2, <1>4, <2>1
    <3> HIDE DEF before, lane
    <3>2. \A k, b, l, t \in Int : (k + (b + l * 4)) - t = (k + 256) - ((256 - (b + l * 4)) + t)
      OBVIOUS
    <3> QED
      BY <1>2, <3>1, <3>2
  <2> HIDE DEF lane, base, c, before
  <2>4. age \in 1 .. HistorySize
    BY <1>1, <2>1
  <2>5. RunOrigin(c) + (Bins - 1) = IF c + 29 > HistorySize THEN c ELSE c + HistorySize
    BY <1>1, <1>2, <2>1, <2>2 DEF RunOrigin
  <2>6. /\ i \in 0 .. 2 * HistorySize - 1
        /\ \/ i = slot - age \/ i = slot - age + HistorySize
           \/ i = slot - age + 2 * HistorySize
    BY <1>1, <1>2, <1>5, <2>1, <2>2, <2>5
  <2>7. cells[i] = Stream!Sample((Now + 256) - age)
    <3> HIDE DEF i, age
    <3> QED
      BY <1>2, <1>5, <2>4, <2>6, ReadCell DEF slot
  <2> QED
    BY <2>3, <2>7 DEF lane, base, c
<1>7. ASSUME NEW j \in 1 .. 64
      PROVE  /\ hops[j].at \in 0 .. MaxPosition - 1 /\ hops[j].phase \in 0 .. PhasePeriod - 1
             /\ [tap \in 0 .. FilterSpan - 1 |->
                   cells[RunOrigin(hops[j - ((j - 1) % 8)].cursor) + (Bins - 1)
                           + (((j - 1) % 8) * Decimation - tap)]]
                  = Stream!Window(hops[j].at)
             /\ Stream!Window(hops[j].at) \in [0 .. FilterSpan - 1 -> Samples]
  <2>1. hops[j] \in QueuedHops
    BY <1>3, ElementOfSeq
  <2>2. hops[j].at \in 0 .. MaxPosition - 1 /\ hops[j].phase \in 0 .. PhasePeriod - 1
    BY <2>1, QueuedHopType
  <2> QED
    BY <1>6, <2>2, WindowType DEF Stream!Window
<1> DEFINE filtered == RunFiltered(cells, hops)
<1>8. filtered = [j \in 1 .. 64 |-> filtered[j]]
  BY <1>3 DEF RunFiltered
<1>9. ASSUME NEW j \in 1 .. 64
      PROVE  /\ filtered[j] \in Hops
             /\ filtered[j].window = Stream!Window(filtered[j].at)
  <2>1. filtered[j] =
          [at     |-> hops[j].at,
           phase  |-> hops[j].phase,
           window |-> [tap \in 0 .. FilterSpan - 1 |->
                         cells[RunOrigin(hops[j - ((j - 1) % 8)].cursor) + (Bins - 1)
                                 + (((j - 1) % 8) * Decimation - tap)]]]
    BY <1>3 DEF RunFiltered
  <2> HIDE DEF filtered
  <2>2. filtered[j] = [at     |-> hops[j].at,
                       phase  |-> hops[j].phase,
                       window |-> Stream!Window(hops[j].at)]
    BY <1>7, <2>1, Zenon
  <2>3. filtered[j].at = hops[j].at /\ filtered[j].window = Stream!Window(hops[j].at)
    BY <2>2
  <2>4. filtered[j] \in Hops
    <3>1. /\ hops[j].at \in 0 .. MaxPosition - 1 /\ hops[j].phase \in 0 .. PhasePeriod - 1
          /\ Stream!Window(hops[j].at) \in [0 .. FilterSpan - 1 -> Samples]
      BY <1>7
    <3>2. [at |-> hops[j].at, phase |-> hops[j].phase,
           window |-> Stream!Window(hops[j].at)] \in Hops
      BY <3>1, HopBuilt
    <3> QED
      BY <2>2, <3>2, Zenon
  <2> QED
    BY <2>3, <2>4
<1> HIDE DEF filtered
<1>10. filtered \in Seq(Hops) /\ Len(filtered) = 64
  BY <1>8, <1>9
<1>11. Intact(filtered)
  BY <1>9, <1>10 DEF Intact
<1> QED
  BY <1>11 DEF filtered, hops

LEMMA RunSpanStep == IInv /\ RunSpan => IInv'
<1> SUFFICES ASSUME IInv, RunSpan
             PROVE  IInv'
  OBVIOUS
<1> DEFINE filtered == RunFiltered(history', NextHops(64))
<1>1. /\ StageSpan(256, filtered)
      /\ stage = "d4x4" /\ Remaining >= 256 /\ WriteSamples(256) /\ RunsD4x4
      /\ position' = position /\ input_count' = input_count
      /\ run_post_phase' = run_post_phase
  <2>1. Decimation = 4
    BY RoomFacts DEF IInv, CallOK, RunSpan, StageSpan
  <2>2. RunsSpan = 256 /\ RunsSpan \div Decimation = 64
    BY <2>1 DEF RunsSpan
  <2> QED
    BY <2>2 DEF RunSpan, StageSpan, RunsApply
<1>2. UsesD4x4Loop /\ Outputs # 0 /\ 256 \in 1 .. HistorySize
  BY <1>1, RoomFacts DEF IInv, CallOK
<1>3. Now + 256 <= MaxPosition /\ 256 <= Remaining
  BY <1>1, NumbersType DEF IInv
<1>4. Holds(history', Wrap(run_cursor + 256), Now + 256)
  BY <1>1, <1>2, <1>3, WriteFacts
<1>5. Intact(filtered)
  BY <1>1, <1>2, <1>3, <1>4, RunReads
<1>6. queued = << >>
  BY <1>1, <1>3, NothingWaits, NumbersType DEF IInv, GroupSamples
<1>7. run_post_phase' \in 0 .. PhasePeriod - 1
  BY <1>1 DEF IInv, TypeOK
<1> QED
  BY <1>1, <1>2, <1>5, <1>6, <1>7, StageSpanStep

(* A group is filtered when only its first thirteen samples are written.   *)
LEMMA GroupStepStep == IInv /\ GroupStep => IInv'
<1> SUFFICES ASSUME IInv, GroupStep
             PROVE  IInv'
  OBVIOUS
<1> DEFINE cells == Written(history, run_cursor, Now, 13)
           slot == Wrap(run_cursor + 13)
           batch == NextHops(4)
<1>1. /\ stage = "d4x4" /\ run_decimation_phase = 0 /\ Remaining >= 16
      /\ output' = output \o Filtered(cells, batch)
      /\ history' = Written(cells, slot, Now + 13, 3)
      /\ run_cursor' = Wrap(slot + 3)
      /\ input_index' = input_index + 16
      /\ run_post_phase' = IF ExactD4x4 THEN run_post_phase ELSE PhaseAfter(4)
      /\ UNCHANGED <<cursor, decimation_phase, post_phase, stage, input_count,
                     run_decimation_phase, queued, position, delivered>>
  <2>1. GroupSamples = 16 /\ 16 - 13 = 3
    BY DEF GroupSamples
  <2>2. stage = "d4x4" /\ run_decimation_phase = 0 /\ Remaining >= 16
    BY <2>1 DEF GroupStep
  <2>3. output' = output \o Filtered(cells, batch)
    BY DEF GroupStep
  <2>4. history' = Written(cells, slot, Now + 13, 3) /\ run_cursor' = Wrap(slot + 3)
    BY <2>1 DEF GroupStep
  <2>5. /\ input_index' = input_index + 16
        /\ run_post_phase' = IF ExactD4x4 THEN run_post_phase ELSE PhaseAfter(4)
    BY <2>1 DEF GroupStep
  <2>6. UNCHANGED <<cursor, decimation_phase, post_phase, stage, input_count,
                    run_decimation_phase, queued, position, delivered>>
    BY DEF GroupStep
  <2> QED
    BY <2>2, <2>3, <2>4, <2>5, <2>6
<1>2. /\ history \in [0 .. 2 * HistorySize - 1 -> Samples] /\ run_cursor \in Slots
      /\ input_index \in 0 .. input_count /\ input_count \in Nat
  BY DEF IInv, TypeOK
<1>3. /\ Now \in Nat /\ Remaining \in Nat /\ position \in Nat /\ Now + 16 <= MaxPosition
      /\ Now + 13 \in Nat /\ Now + 13 <= MaxPosition /\ (Now + 13) + 3 = Now + 16
      /\ (Now + 13) + 3 <= MaxPosition /\ Remaining >= 16
  <2>1. /\ Now \in Nat /\ Remaining \in Nat /\ position \in Nat /\ MaxPosition \in Nat
        /\ Now + Remaining <= MaxPosition
    BY NumbersType, LayoutAssumption DEF IInv
  <2>2. Now + 16 <= MaxPosition
    BY <1>1, <2>1
  <2> QED
    BY <1>1, <2>1, <2>2
<1>4. /\ UsesD4x4Loop /\ Outputs # 0 /\ HistorySize \in Nat /\ 13 + FilterSpan <= HistorySize
      /\ 13 \in 0 .. HistorySize /\ 3 \in 0 .. HistorySize /\ 13 \in Nat /\ 3 \in Nat
  BY <1>1, RoomFacts DEF IInv, CallOK
<1>5. Holds(history, run_cursor, Now)
  BY <1>1, <1>4 DEF IInv, RingIsStream, WriteSlot
<1>6. /\ slot \in Slots
      /\ cells \in [0 .. 2 * HistorySize - 1 -> Samples]
      /\ Holds(cells, slot, Now + 13)
  BY <1>2, <1>3, <1>4, <1>5, WrapOnce, WrittenType, WriteHolds
<1>7. /\ batch \in Seq(QueuedHops) /\ Len(batch) = 4 /\ Spaced(batch)
      /\ \A j \in 1 .. Len(batch) : Behind(batch[j], slot, Now + 13)
  <2>1. TypeOK /\ 4 \in Nat /\ 13 \in Nat /\ 4 * 4 < 13 + 4
    BY DEF IInv
  <2>2. /\ batch \in Seq(QueuedHops) /\ Len(batch) = 4 /\ Spaced(batch)
        /\ \A j \in 1 .. 4 : Behind(batch[j], Wrap(run_cursor + 13), Now + 13)
    BY <1>3, <1>4, <2>1, NextHopsBehind
  <2> HIDE DEF batch
  <2> QED
    BY <2>2
<1> HIDE DEF cells, slot, batch
<1>8. Intact(Filtered(cells, batch))
  BY <1>3, <1>6, <1>7, FilteredIntact
<1>9. Intact(output') /\ Intact(delivered')
  <2>1. Intact(output) /\ Intact(delivered)
    BY DEF IInv, TypeOK, WindowsIntact, Intact
  <2> QED
    BY <1>1, <1>8, <2>1, IntactConcat
<1>10. /\ run_cursor' \in Slots
       /\ history' \in [0 .. 2 * HistorySize - 1 -> Samples]
       /\ Holds(history', run_cursor', Now + 16)
  <2>1. Holds(Written(cells, slot, Now + 13, 3), Wrap(slot + 3), (Now + 13) + 3)
    BY <1>3, <1>4, <1>6, WriteHolds
  <2> QED
    BY <1>1, <1>3, <1>4, <1>6, <2>1, WrapOnce, WrittenType
<1>11. Now' = Now + 16 /\ input_index' \in 0 .. input_count
  BY <1>1, <1>2, <1>3 DEF Now, Remaining
<1>12. queued = << >>
  BY <1>1, NothingWaits DEF GroupSamples
<1>13. TypeOK'
  <2>1. run_post_phase' \in 0 .. PhasePeriod - 1
    BY <1>1, PhaseAfterType DEF IInv, TypeOK
  <2> QED
    BY <1>1, <1>9, <1>10, <1>11, <2>1 DEF IInv, TypeOK, Intact
<1>14. RingIsStream'
  BY <1>1, <1>10, <1>11 DEF RingIsStream, WriteSlot
<1>15. WindowsIntact'
  BY <1>9 DEF WindowsIntact, Intact
<1>16. CallOK'
  BY <1>1 DEF IInv, CallOK
<1>17. QueueAges' /\ QueueBounded'
  BY <1>1, <1>12 DEF QueueAges, Ages, QueueBounded
<1> QED
  BY <1>13, <1>14, <1>15, <1>16, <1>17 DEF IInv

-----------------------------------------------------------------------------
(* The ends of a call and the operations without a loop.                   *)

LEMMA EmptyIntact == Intact(<< >>)
BY DEF Intact

LEMMA ReturnStep == IInv /\ Return => IInv'
<1> SUFFICES ASSUME IInv, Return
             PROVE  IInv'
  OBVIOUS
<1>1. /\ stage # "idle" /\ delivered' = output \o Filtered(history, queued)
      /\ cursor' = run_cursor /\ decimation_phase' = run_decimation_phase
      /\ post_phase' = run_post_phase /\ position' = Now
      /\ stage' = "idle" /\ input_count' = 0 /\ input_index' = 0
      /\ queued' = << >> /\ output' = << >>
      /\ run_cursor' = 0 /\ run_decimation_phase' = 0 /\ run_post_phase' = 0
      /\ history' = history
  BY DEF Return
<1>2. /\ queued \in Seq(QueuedHops) /\ run_cursor \in Slots
      /\ run_decimation_phase \in 0 .. Decimation - 1
      /\ Ages(queued, run_cursor, Now, run_decimation_phase)
  BY DEF IInv, TypeOK, QueueAges
<1>3. /\ Now \in Nat /\ Remaining \in Nat /\ Now <= MaxPosition
      /\ HistorySize - FilterSpan \in Nat
      /\ HistorySize - FilterSpan <= HistorySize - FilterSpan + 1
  BY NumbersType, RoomFacts DEF IInv
<1>4. Holds(history, run_cursor, Now)
  BY <1>1 DEF IInv, RingIsStream, CallOK, WriteSlot
<1>5. Spaced(queued) /\ \A j \in 1 .. Len(queued) : Behind(queued[j], run_cursor, Now)
  BY <1>2, <1>3, QueueYoung, AgesSpaced, AgesBehind
<1>6. Intact(Filtered(history, queued))
  BY <1>2, <1>3, <1>4, <1>5, FilteredIntact
<1>7. Intact(output') /\ Intact(delivered')
  <2>1. Intact(output)
    BY DEF IInv, TypeOK, WindowsIntact, Intact
  <2> QED
    BY <1>1, <1>6, <2>1, IntactConcat, EmptyIntact
<1>8. TypeOK'
  <2>1. 0 \in Slots /\ 0 \in 0 .. Decimation - 1 /\ 0 \in 0 .. PhasePeriod - 1
    BY RoomFacts DEF Slots
  <2> QED
    BY <1>1, <1>2, <1>3, <1>7, <2>1 DEF IInv, TypeOK, Intact
<1>9. RingIsStream'
  <2>1. Now' = Now
    BY <1>1, <1>3 DEF Now
  <2> QED
    BY <1>1, <1>4, <2>1 DEF RingIsStream, WriteSlot
<1>10. WindowsIntact'
  BY <1>7 DEF WindowsIntact, Intact
<1>11. CallOK' /\ QueueAges' /\ QueueBounded'
  BY <1>1 DEF CallOK, QueueAges, Ages, QueueBounded
<1> QED
  BY <1>8, <1>9, <1>10, <1>11 DEF IInv

LEMMA BeginStep == ASSUME IInv, NEW count \in BlockSizes, Begin(count) PROVE IInv'
<1>1. /\ stage = "idle" /\ Outputs # 0 /\ position + count <= MaxPosition
      /\ stage' = IF UsesD4x4Loop THEN "d4x4" ELSE "stream"
      /\ input_count' = count /\ input_index' = 0
      /\ run_cursor' = cursor /\ run_decimation_phase' = decimation_phase
      /\ run_post_phase' = post_phase
      /\ queued' = << >> /\ output' = << >>
      /\ UNCHANGED <<history, cursor, decimation_phase, post_phase, position, delivered>>
  BY DEF Begin, state
<1>2. count \in Nat /\ 0 \in 0 .. count
  BY LayoutAssumption
<1>3. TypeOK'
  BY <1>1, <1>2 DEF IInv, TypeOK
<1>4. RingIsStream'
  BY <1>1 DEF IInv, RingIsStream, CallOK, WriteSlot, Now
<1>5. WindowsIntact'
  BY <1>1 DEF IInv, WindowsIntact
<1>6. CallOK' /\ QueueAges'
  BY <1>1 DEF CallOK, QueueAges, Ages
<1>7. QueueBounded'
  BY <1>1, BatchLimitFacts DEF QueueBounded
<1> QED
  BY <1>3, <1>4, <1>5, <1>6, <1>7 DEF IInv

LEMMA ProcessNoOutputsStep ==
  ASSUME IInv, NEW count \in BlockSizes, ProcessNoOutputs(count) PROVE IInv'
<1>1. /\ stage = "idle" /\ Outputs = 0 /\ position + count <= MaxPosition
      /\ cursor' = Wrap(cursor + count)
      /\ decimation_phase' = (decimation_phase + count) % Decimation
      /\ post_phase' = (post_phase + OutputCount(decimation_phase, count)) % PhasePeriod
      /\ position' = position + count /\ delivered' = << >>
      /\ UNCHANGED <<history, stage, input_count, input_index, queued, output,
                     run_cursor, run_decimation_phase, run_post_phase>>
  BY DEF ProcessNoOutputs, call, locals
<1>2. count \in Nat
  BY LayoutAssumption
<1>3. TypeOK'
  <2>1. PhasePeriod = 1 /\ Decimation \in Nat \ {0}
    BY <1>1, PeriodAssumption, RoomFacts
  <2>2. OutputCount(decimation_phase, count) \in Int
    BY <1>2, <2>1 DEF OutputCount, IInv, TypeOK
  <2>3. cursor' \in Slots
    <3>1. cursor \in Nat /\ cursor + count \in Nat
      BY <1>2, RoomFacts DEF IInv, TypeOK, Slots
    <3> QED
      BY <1>1, <3>1, WrapSlot
  <2>4. decimation_phase' \in 0 .. Decimation - 1 /\ post_phase' \in 0 .. PhasePeriod - 1
    BY <1>1, <1>2, <2>1, <2>2 DEF IInv, TypeOK
  <2>5. << >> \in Seq(Hops) /\ input_count = 0
    BY <1>1 DEF IInv, CallOK
  <2> QED
    BY <1>1, <1>2, <2>3, <2>4, <2>5 DEF IInv, TypeOK
<1>4. RingIsStream'
  BY <1>1 DEF RingIsStream
<1>5. WindowsIntact'
  BY <1>1 DEF IInv, WindowsIntact
<1>6. CallOK'
  BY <1>1 DEF IInv, CallOK
<1>7. QueueAges' /\ QueueBounded'
  BY <1>1 DEF IInv, CallOK, QueueAges, Ages, QueueBounded
<1> QED
  BY <1>3, <1>4, <1>5, <1>6, <1>7 DEF IInv

LEMMA OutputCountType ==
  ASSUME TypeOK, NEW count \in Nat
  PROVE  OutputCount(decimation_phase, count) \in Int
BY RoomFacts DEF OutputCount, TypeOK

(* A block longer than the ring leaves its newest samples, a whole ring.   *)
LEMMA AdvanceStep == ASSUME IInv, NEW count \in BlockSizes, Advance(count) PROVE IInv'
<1> DEFINE skipped == IF count > HistorySize THEN count - HistorySize ELSE 0
           slot == Wrap(cursor + skipped)
<1>1. /\ stage = "idle" /\ position + count <= MaxPosition
      /\ history' = Written(history, slot, position + skipped, count - skipped)
      /\ post_phase' = (post_phase + OutputCount(decimation_phase, count)) % PhasePeriod
      /\ cursor' = Wrap(cursor + count)
      /\ decimation_phase' = (decimation_phase + count) % Decimation
      /\ position' = position + count /\ delivered' = << >>
      /\ UNCHANGED <<stage, input_count, input_index, queued, output,
                     run_cursor, run_decimation_phase, run_post_phase>>
  BY DEF Advance, call, locals
<1>2. /\ count \in Nat /\ HistorySize \in Nat \ {0} /\ Decimation \in Nat \ {0}
      /\ PhasePeriod \in Nat \ {0}
  BY LayoutAssumption, RoomFacts
<1>3. /\ cursor \in Slots /\ cursor \in Nat /\ cursor < HistorySize /\ position \in Nat
      /\ input_count = 0 /\ input_index = 0 /\ queued = << >>
      /\ history \in [0 .. 2 * HistorySize - 1 -> Samples]
  BY <1>1, <1>2 DEF IInv, TypeOK, CallOK, Slots
<1>4. /\ skipped \in Nat /\ count - skipped \in 0 .. HistorySize /\ count - skipped \in Nat
      /\ cursor + skipped \in Nat /\ position + skipped \in Nat /\ cursor + count \in Nat
      /\ (position + skipped) + (count - skipped) = position + count
  BY <1>2, <1>3
<1>5. slot \in Slots /\ cursor' \in Slots
  BY <1>1, <1>4, WrapSlot
<1>6. history' \in [0 .. 2 * HistorySize - 1 -> Samples]
  <2>1. (position + skipped) + (count - skipped) <= MaxPosition
    BY <1>1, <1>4
  <2> HIDE DEF skipped, slot
  <2> QED
    BY <1>1, <1>3, <1>4, <1>5, <2>1, WrittenType
<1>7. Wrap(slot + (count - skipped)) = cursor'
  <2>1. CASE count > HistorySize
    <3>1. slot + (count - skipped) = slot + HistorySize
      BY <1>2, <1>5, <2>1 DEF Slots
    <3>2. Wrap(slot + HistorySize) = slot
      BY <1>2, <1>5, WrapOnce DEF Slots
    <3>3. cursor + count = (cursor + skipped) + HistorySize
      BY <1>2, <1>3, <2>1
    <3>4. Wrap((cursor + skipped) + HistorySize) = slot
      BY <1>4, WrapTurn
    <3> QED
      BY <1>1, <3>1, <3>2, <3>3, <3>4
  <2>2. CASE ~(count > HistorySize)
    <3>1. skipped = 0 /\ count - skipped = count /\ cursor + skipped = cursor
      BY <1>2, <1>3, <2>2
    <3>2. 0 \in 0 .. HistorySize /\ cursor + 0 = cursor
      BY <1>2, <1>3
    <3>3. slot = cursor
      BY <1>3, <3>1, <3>2, WrapOnce
    <3> HIDE DEF skipped, slot
    <3> QED
      BY <1>1, <3>1, <3>3
  <2> QED
    BY <2>1, <2>2
<1>8. Outputs # 0 => Holds(history, cursor, position)
  BY <1>1, <1>3 DEF IInv, RingIsStream, WriteSlot, Now
<1>9. Outputs # 0 => Holds(history', cursor', position + count)
  <2> SUFFICES ASSUME Outputs # 0
               PROVE  Holds(history', cursor', position + count)
    OBVIOUS
  <2>1. Holds(history, slot, position + skipped) \/ count - skipped = HistorySize
    <3>1. CASE count > HistorySize
      BY <1>2, <3>1
    <3>2. CASE ~(count > HistorySize)
      <4>1. position + skipped = position /\ cursor + skipped = cursor + 0
        BY <1>3, <3>2
      <4>2. Wrap(cursor + 0) = cursor
        <5>1. 0 \in 0 .. HistorySize /\ cursor + 0 < HistorySize /\ cursor + 0 = cursor
          BY <1>2, <1>3
        <5> QED
          BY <1>3, <5>1, WrapOnce
      <4> QED
        BY <1>8, <4>1, <4>2
    <3> QED
      BY <3>1, <3>2
  <2> HIDE DEF skipped, slot
  <2>2. Holds(history', Wrap(slot + (count - skipped)), (position + skipped) + (count - skipped))
    BY <1>1, <1>4, <1>5, <2>1, WriteHolds
  <2> QED
    BY <1>4, <1>7, <2>2
<1> HIDE DEF skipped, slot
<1>10. TypeOK'
  <2>1. decimation_phase' \in 0 .. Decimation - 1 /\ post_phase' \in 0 .. PhasePeriod - 1
    <3>5. decimation_phase \in 0 .. Decimation - 1 /\ post_phase \in 0 .. PhasePeriod - 1
      BY DEF IInv, TypeOK
    <3>4. OutputCount(decimation_phase, count) \in Int
      BY <1>2, OutputCountType DEF IInv
    <3>1. /\ decimation_phase + count \in Int
          /\ post_phase + OutputCount(decimation_phase, count) \in Int
      BY <1>2, <3>5, <3>4
    <3>2. decimation_phase' \in 0 .. Decimation - 1
      BY <1>1, <1>2, <3>1, ModRange
    <3>3. post_phase' \in 0 .. PhasePeriod - 1
      BY <1>1, <1>2, <3>1, ModRange
    <3> QED
      BY <3>2, <3>3
  <2>2. << >> \in Seq(Hops)
    OBVIOUS
  <2> QED
    BY <1>1, <1>2, <1>3, <1>5, <1>6, <2>1, <2>2 DEF IInv, TypeOK
<1>11. RingIsStream'
  <2>1. Now' = position + count /\ WriteSlot' = cursor'
    BY <1>1, <1>2, <1>3 DEF Now, WriteSlot
  <2> QED
    BY <1>9, <2>1 DEF RingIsStream
<1>12. WindowsIntact'
  BY <1>1 DEF IInv, WindowsIntact
<1>13. CallOK'
  BY <1>1 DEF IInv, CallOK
<1>14. QueueAges' /\ QueueBounded'
  BY <1>1, <1>3 DEF QueueAges, Ages, QueueBounded
<1> QED
  BY <1>10, <1>11, <1>12, <1>13, <1>14 DEF IInv

(* A ring of zeros is the stream before its first sample.                  *)
LEMMA SilentRing ==
  /\ [i \in 0 .. 2 * HistorySize - 1 |-> Silence] \in [0 .. 2 * HistorySize - 1 -> Samples]
  /\ Holds([i \in 0 .. 2 * HistorySize - 1 |-> Silence], 0, 0)
<1> DEFINE cells == [i \in 0 .. 2 * HistorySize - 1 |-> Silence]
<1>1. cells \in [0 .. 2 * HistorySize - 1 -> Samples]
  BY DEF Samples
<1>2. ASSUME NEW s \in Slots
      PROVE  /\ cells[s] = Stream!Sample(NumberIn(s, 0, 0))
             /\ cells[s + HistorySize] = Stream!Sample(NumberIn(s, 0, 0))
  <2>1. /\ s \in 0 .. 2 * HistorySize - 1 /\ s + HistorySize \in 0 .. 2 * HistorySize - 1
        /\ ~(s < 0) /\ 0 - 0 + s - HistorySize < 0
    BY RoomFacts DEF Slots
  <2>2. Stream!Sample(NumberIn(s, 0, 0)) = Silence
    BY <2>1 DEF NumberIn, Stream!Sample, Silence
  <2>3. cells[s] = Silence /\ cells[s + HistorySize] = Silence
    BY <2>1
  <2> QED
    BY <2>2, <2>3
<1> HIDE DEF cells
<1>3. Holds(cells, 0, 0)
  BY <1>2, HoldsNumbers
<1> QED
  BY <1>1, <1>3 DEF cells

LEMMA ResetStep == IInv /\ Reset => IInv'
<1> SUFFICES ASSUME IInv, Reset
             PROVE  IInv'
  OBVIOUS
<1>1. /\ stage = "idle"
      /\ history' = [i \in 0 .. 2 * HistorySize - 1 |-> Silence]
      /\ cursor' = 0 /\ decimation_phase' = 0 /\ post_phase' = 0
      /\ position' = 0 /\ delivered' = << >>
      /\ UNCHANGED <<stage, input_count, input_index, queued, output,
                     run_cursor, run_decimation_phase, run_post_phase>>
  BY DEF Reset, call, locals
<1>2. input_count = 0 /\ input_index = 0 /\ queued = << >>
  BY <1>1 DEF IInv, CallOK
<1>3. TypeOK'
  <2>1. /\ 0 \in Slots /\ 0 \in 0 .. Decimation - 1 /\ 0 \in 0 .. PhasePeriod - 1
        /\ << >> \in Seq(Hops) /\ MaxPosition \in Nat
    BY RoomFacts, LayoutAssumption DEF Slots
  <2>2. history' \in [0 .. 2 * HistorySize - 1 -> Samples]
    BY <1>1, SilentRing
  <2> QED
    BY <1>1, <1>2, <2>1, <2>2 DEF IInv, TypeOK
<1>4. RingIsStream'
  BY <1>1, <1>2, SilentRing DEF RingIsStream, WriteSlot, Now
<1>5. WindowsIntact'
  BY <1>1 DEF IInv, WindowsIntact
<1>6. CallOK' /\ QueueAges' /\ QueueBounded'
  BY <1>1, <1>2 DEF IInv, CallOK, QueueAges, Ages, QueueBounded
<1> QED
  BY <1>3, <1>4, <1>5, <1>6 DEF IInv

LEMMA InitInv == Init => IInv
<1> SUFFICES ASSUME Init
             PROVE  IInv
  OBVIOUS
<1>1. TypeOK
  BY SilentRing, RoomFacts, LayoutAssumption DEF Init, TypeOK, Slots
<1>2. RingIsStream
  BY SilentRing DEF Init, RingIsStream, WriteSlot, Now
<1>3. WindowsIntact
  BY DEF Init, WindowsIntact
<1>4. CallOK /\ QueueAges /\ QueueBounded
  BY DEF Init, CallOK, QueueAges, Ages, QueueBounded
<1> QED
  BY <1>1, <1>2, <1>3, <1>4 DEF IInv

LEMMA StutterInv == IInv /\ UNCHANGED vars => IInv'
<1> SUFFICES ASSUME IInv, UNCHANGED vars
             PROVE  IInv'
  OBVIOUS
<1>1. /\ UNCHANGED <<history, cursor, decimation_phase, post_phase>>
      /\ UNCHANGED <<stage, input_count, input_index, queued, output>>
      /\ UNCHANGED <<run_cursor, run_decimation_phase, run_post_phase, position, delivered>>
  BY DEF vars, state, call, locals
<1> QED
  BY <1>1 DEF IInv, TypeOK, RingIsStream, WindowsIntact, CallOK, QueueAges, QueueBounded,
              Now, Remaining, WriteSlot

LEMMA NextInv == IInv /\ [Next]_vars => IInv'
<1> SUFFICES ASSUME IInv, [Next]_vars
             PROVE  IInv'
  OBVIOUS
<1>1. CASE Loop
  BY <1>1, WriteBetweenHopsStep, StreamHopStep, RunSpanStep, StagedSpanStep, GroupStepStep,
     TailHopStep, ReturnStep DEF Loop
<1>2. CASE Reset
  BY <1>2, ResetStep
<1>3. ASSUME NEW count \in BlockSizes, Process(count) \/ Advance(count)
      PROVE  IInv'
  BY <1>3, BeginStep, ProcessNoOutputsStep, AdvanceStep DEF Process
<1>4. CASE UNCHANGED vars
  BY <1>4, StutterInv
<1> QED
  BY <1>1, <1>2, <1>3, <1>4 DEF Next

-----------------------------------------------------------------------------
(* The results.                                                            *)

(* The inductive invariant of the ring, the cursors, the queue of hops and *)
(* the outputs, which the results below are parts of.                      *)
THEOREM Invariance == Spec => []IInv
BY InitInv, NextInv, PTL DEF Spec

(* Cursors and phases stay in their ranges and the ring, the queue and the *)
(* outputs hold what they are declared to hold, in every layout.           *)
THEOREM TypeCorrect == Spec => []TypeOK
<1>1. IInv => TypeOK
  BY DEF IInv
<1> QED
  BY <1>1, Invariance, PTL

(* The ring is always the newest part of the stream, whatever sizes the    *)
(* caller's blocks have and whichever loops consume them.                  *)
THEOREM RingCorrect == Spec => []RingIsStream
<1>1. IInv => RingIsStream
  BY DEF IInv
<1> QED
  BY <1>1, Invariance, PTL

(* No sample a kernel stages or writes ever reaches the window of a hop    *)
(* that is filtered afterwards: every hop is filtered from the samples     *)
(* that end on it.                                                         *)
THEOREM WindowsCorrect == Spec => []WindowsIntact
<1>1. IInv => WindowsIntact
  BY DEF IInv
<1> QED
  BY <1>1, Invariance, PTL

(* The ring the constructor chose has room for everything that may be      *)
(* written while a hop waits for its batch.                                *)
THEOREM QueueCorrect == Spec => []QueueReadable
<1>1. IInv => QueueReadable
  <2> SUFFICES ASSUME IInv
               PROVE  QueueReadable
    OBVIOUS
  <2>1. /\ queued \in Seq(QueuedHops) /\ run_cursor \in Slots
        /\ run_decimation_phase \in 0 .. Decimation - 1
        /\ Ages(queued, run_cursor, Now, run_decimation_phase)
        /\ stage \in {"idle", "stream", "d4x4"}
    BY DEF IInv, TypeOK, QueueAges
  <2>2. Now \in Nat /\ Remaining \in Nat
    BY NumbersType DEF IInv
  <2>3. CASE stage = "idle"
    BY <2>3 DEF IInv, CallOK, QueueReadable
  <2>4. CASE stage # "idle"
    <3>1. Holds(history, run_cursor, Now)
      BY <2>4 DEF IInv, RingIsStream, CallOK, WriteSlot
    <3>2. /\ HistorySize - FilterSpan \in Nat
          /\ HistorySize - FilterSpan <= HistorySize - FilterSpan + 1
      BY RoomFacts
    <3>3. Spaced(queued) /\ \A j \in 1 .. Len(queued) : Behind(queued[j], run_cursor, Now)
      BY <2>1, <2>2, <3>2, QueueYoung, AgesSpaced, AgesBehind
    <3>4. \A j \in 1 .. Len(queued) :
            BatchWindow(history, queued, j) = Stream!Window(queued[j].at)
      BY <2>1, <2>2, <3>1, <3>3, BatchReads
    <3>5. Len(queued) <= 4
      <4>1. CASE stage = "stream"
        BY <2>1, <4>1, BatchLimitFacts DEF IInv, QueueBounded
      <4>2. CASE stage = "d4x4" /\ queued # << >>
        <5>1. Decimation = 4 /\ 1 \in 1 .. Len(queued) /\ Len(queued) \in Nat
          BY <2>1, <4>2, RoomFacts DEF IInv, CallOK
        <5>2. Remaining + (Now - queued[1].at) <= 15
          BY <4>2 DEF IInv, QueueBounded, GroupSamples
        <5>3. /\ Now - queued[1].at = (Len(queued) - 1) * 4
                     + (IF run_decimation_phase = 0 THEN 4 ELSE run_decimation_phase)
              /\ run_decimation_phase \in 0 .. 3
          BY <2>1, <5>1 DEF Ages
        <5> QED
          BY <2>2, <5>1, <5>2, <5>3
      <4> QED
        BY <2>1, <2>4, <4>1, <4>2
    <3> QED
      BY <3>4, <3>5 DEF QueueReadable
  <2> QED
    BY <2>3, <2>4
<1> QED
  BY <1>1, Invariance, PTL

-----------------------------------------------------------------------------
(* The stream.                                                             *)

H(n) == Stream!HopsBefore(n)

-----------------------------------------------------------------------------
(* Facts about numbers.                                                    *)

LEMMA QuotientUnique ==
  ASSUME NEW d \in Nat \ {0}, NEW q \in Int, NEW r \in 0 .. d - 1
  PROVE  (q * d + r) \div d = q
<1> DEFINE m == q * d + r
           p == m \div d
<1>1. m \in Int /\ p \in Int /\ m = p * d + (m % d)
  OBVIOUS
<1>2. m % d = r
  BY RemainderUnique
<1>3. (p - q) * d = 0
  <2>1. (p - q) * d = p * d - q * d
    BY <1>1
  <2> HIDE DEF p
  <2> QED
    BY <1>1, <1>2, <2>1
<1>4. \A x \in Int : x * d = 0 => x = 0
  OBVIOUS
<1>5. p - q \in Int /\ p - q = 0
  BY <1>1, <1>3, <1>4
<1> QED
  BY <1>1, <1>5

LEMMA Division ==
  ASSUME NEW d \in Nat \ {0}, NEW m \in Nat
  PROVE  /\ m \div d \in Nat /\ m % d \in 0 .. d - 1
         /\ m = (m \div d) * d + (m % d)
OBVIOUS

(* Counting up and comparing is counting modulo the period.                *)
LEMMA CountedMod ==
  ASSUME NEW p \in Nat \ {0}, NEW m \in Nat
  PROVE  Counted(m % p, p) = (m + 1) % p
<1> DEFINE q == m \div p
           r == m % p
<1>1. q \in Nat /\ r \in 0 .. p - 1 /\ m = q * p + r
  BY Division
<1>2. (q + 1) * p = q * p + p /\ q + 1 \in Int /\ q \in Int
  BY <1>1
<1> HIDE DEF q, r
<1>3. CASE r + 1 = p
  <2>1. m + 1 = (q + 1) * p + 0 /\ 0 \in 0 .. p - 1
    BY <1>1, <1>2, <1>3
  <2>2. ((q + 1) * p + 0) % p = 0
    BY <1>2, <2>1, RemainderUnique
  <2> QED
    BY <1>3, <2>1, <2>2 DEF Counted, r
<1>4. CASE r + 1 # p
  <2>1. m + 1 = q * p + (r + 1) /\ r + 1 \in 0 .. p - 1
    BY <1>1, <1>2, <1>4
  <2>2. (q * p + (r + 1)) % p = r + 1
    BY <1>2, <2>1, RemainderUnique
  <2> QED
    BY <1>4, <2>1, <2>2 DEF Counted, r
<1> QED
  BY <1>3, <1>4

LEMMA AddMod ==
  ASSUME NEW p \in Nat \ {0}, NEW m \in Nat, NEW k \in Nat
  PROVE  ((m % p) + k) % p = (m + k) % p
<1> DEFINE q == m \div p
           r == m % p
           a == (r + k) \div p
           b == (r + k) % p
<1>1. q \in Nat /\ r \in 0 .. p - 1 /\ m = q * p + r
  BY Division
<1>2. a \in Nat /\ b \in 0 .. p - 1 /\ r + k = a * p + b
  <2>1. r + k \in Nat
    BY <1>1
  <2> HIDE DEF r
  <2> QED
    BY <2>1, Division
<1>3. (q + a) * p = q * p + a * p /\ q + a \in Int
  BY <1>1, <1>2
<1>4. m + k = (q + a) * p + b
  <2> HIDE DEF q, r, a, b
  <2> QED
    BY <1>1, <1>2, <1>3
<1>5. ((q + a) * p + b) % p = b
  <2> HIDE DEF q, r, a, b
  <2> QED
    BY <1>2, <1>3, RemainderUnique
<1> QED
  BY <1>4, <1>5

-----------------------------------------------------------------------------
(* Facts about the hops before a sample.                                   *)

(* The samples behind hop h - 1, up to the one hop h ends on, have h hops  *)
(* before them.                                                            *)
LEMMA HopsInside ==
  ASSUME NEW h \in Int, NEW s \in 1 .. Decimation
  PROVE  H((h - 1) * Decimation + s) = h
<1>1. Decimation \in Nat \ {0}
  BY RoomFacts
<1>2. (h - 1) * Decimation = h * Decimation - Decimation /\ h * Decimation \in Int
  BY <1>1
<1>3. ((h - 1) * Decimation + s) + Decimation - 1 = h * Decimation + (s - 1)
  BY <1>1, <1>2
<1>4. s - 1 \in 0 .. Decimation - 1
  BY <1>1
<1>5. (h * Decimation + (s - 1)) \div Decimation = h
  BY <1>1, <1>4, QuotientUnique
<1> QED
  BY <1>3, <1>5 DEF H, Stream!HopsBefore

(* Where a sample lies between two hops.                                   *)
LEMMA HopsAround ==
  ASSUME NEW n \in Nat
  PROVE  /\ H(n) \in Nat
         /\ n - (H(n) - 1) * Decimation \in 1 .. Decimation
         /\ n = (H(n) - 1) * Decimation + (n - (H(n) - 1) * Decimation)
         /\ n % Decimation = IF n - (H(n) - 1) * Decimation = Decimation THEN 0
                             ELSE n - (H(n) - 1) * Decimation
<1> DEFINE q == n \div Decimation
           r == n % Decimation
           h == IF r = 0 THEN q ELSE q + 1
           s == IF r = 0 THEN Decimation ELSE r
<1>1. /\ Decimation \in Nat \ {0} /\ q \in Nat /\ r \in 0 .. Decimation - 1
      /\ n = q * Decimation + r
  BY RoomFacts, Division
<1>2. h \in Nat /\ h \in Int /\ s \in 1 .. Decimation
  BY <1>1
<1>3. (q - 1) * Decimation = q * Decimation - Decimation
  BY <1>1
<1>4. n = (h - 1) * Decimation + s
  <2> HIDE DEF q, r
  <2>1. q - 1 \in Int /\ q * Decimation \in Int
    BY <1>1
  <2>2. CASE r = 0
    BY <1>1, <1>3, <2>1, <2>2
  <2>3. CASE r # 0
    <3>1. (q + 1) - 1 = q
      BY <1>1
    <3> QED
      BY <1>1, <2>3, <3>1
  <2> QED
    BY <2>2, <2>3
<1>5. H(n) = h
  <2> HIDE DEF h, s
  <2> QED
    BY <1>2, <1>4, HopsInside
<1>6. n - (h - 1) * Decimation = s
  <2> HIDE DEF h, s
  <2>1. (h - 1) * Decimation \in Int
    BY <1>1, <1>2
  <2> QED
    BY <1>1, <1>2, <1>4, <2>1
<1>7. n % Decimation = IF s = Decimation THEN 0 ELSE s
  BY <1>1
<1> QED
  <2> HIDE DEF h, s
  <2> QED
    BY <1>2, <1>4, <1>5, <1>6, <1>7

LEMMA HopStep ==
  ASSUME NEW n \in Nat
  PROVE  /\ (n + 1) % Decimation = Counted(n % Decimation, Decimation)
         /\ n % Decimation = 0 => H(n + 1) = H(n) + 1 /\ n = H(n) * Decimation
         /\ n % Decimation # 0 => H(n + 1) = H(n)
<1> DEFINE h == H(n)
           s == n - (h - 1) * Decimation
<1>1. Decimation \in Nat \ {0}
  BY RoomFacts
<1>2. /\ h \in Nat /\ s \in 1 .. Decimation /\ n = (h - 1) * Decimation + s
      /\ n % Decimation = IF s = Decimation THEN 0 ELSE s
  BY HopsAround
<1> HIDE DEF h, s
<1>3. (n + 1) % Decimation = Counted(n % Decimation, Decimation)
  BY <1>1, CountedMod
<1>4. (h - 1) * Decimation = h * Decimation - Decimation /\ h * Decimation \in Int
  BY <1>1, <1>2
<1>5. ASSUME n % Decimation = 0
      PROVE  H(n + 1) = h + 1 /\ n = h * Decimation
  <2>1. n = h * Decimation /\ n + 1 = h * Decimation + 1
    BY <1>1, <1>2, <1>4, <1>5
  <2>2. (h + 1) - 1 = h /\ h + 1 \in Int /\ 1 \in 1 .. Decimation
    BY <1>1, <1>2
  <2>3. H(((h + 1) - 1) * Decimation + 1) = h + 1
    BY <2>2, HopsInside
  <2> QED
    BY <2>1, <2>2, <2>3
<1>6. ASSUME n % Decimation # 0
      PROVE  H(n + 1) = h
  <2>1. s + 1 \in 1 .. Decimation /\ n + 1 = (h - 1) * Decimation + (s + 1)
    BY <1>1, <1>2, <1>4, <1>6
  <2>2. H((h - 1) * Decimation + (s + 1)) = h
    BY <1>2, <2>1, HopsInside
  <2> QED
    BY <2>1, <2>2
<1> QED
  BY <1>3, <1>5, <1>6 DEF h

(* Whole decimations from a hop lead to the hop that many later.           *)
LEMMA HopsSkip ==
  ASSUME NEW n \in Nat, n % Decimation = 0, NEW k \in Nat
  PROVE  /\ H(n + k * Decimation) = H(n) + k
         /\ (n + k * Decimation) % Decimation = 0
         /\ n + k * Decimation = (H(n) + k) * Decimation
<1>1. Decimation \in Nat \ {0} /\ H(n) \in Nat /\ n = H(n) * Decimation
  BY RoomFacts, HopsAround, HopStep
<1> DEFINE h == H(n) + k
<1>2. /\ h \in Int /\ h * Decimation = H(n) * Decimation + k * Decimation
      /\ (h - 1) * Decimation = h * Decimation - Decimation
      /\ h * Decimation \in Int /\ k * Decimation \in Int
  BY <1>1
<1> HIDE DEF h
<1>3. /\ n + k * Decimation = (h - 1) * Decimation + Decimation
      /\ n + k * Decimation = h * Decimation + 0
  BY <1>1, <1>2
<1>4. H((h - 1) * Decimation + Decimation) = h
  <2>1. Decimation \in 1 .. Decimation
    BY <1>1
  <2> QED
    BY <1>2, <2>1, HopsInside
<1>5. (h * Decimation + 0) % Decimation = 0
  BY <1>1, <1>2, RemainderUnique
<1>6. n + k * Decimation = h * Decimation
  BY <1>2, <1>3
<1> QED
  BY <1>3, <1>4, <1>5, <1>6 DEF h

(* The closed formula counts the hops of a block.                          *)
LEMMA OutputCountIsHops ==
  ASSUME NEW n \in Nat, NEW count \in Nat
  PROVE  /\ OutputCount(n % Decimation, count) = H(n + count) - H(n)
         /\ OutputCount(n % Decimation, count) \in Nat
<1> DEFINE h == H(n)
           s == n - (h - 1) * Decimation
           first == IF n % Decimation = 0 THEN 0 ELSE Decimation - (n % Decimation)
<1>1. Decimation \in Nat \ {0}
  BY RoomFacts
<1>2. /\ h \in Nat /\ s \in 1 .. Decimation /\ n = (h - 1) * Decimation + s
      /\ n % Decimation = IF s = Decimation THEN 0 ELSE s
  BY HopsAround
<1>3. first = Decimation - s
  BY <1>1, <1>2
<1> HIDE DEF h, s, first
<1>4. /\ (h - 1) * Decimation \in Int /\ h * Decimation \in Int
      /\ h * Decimation = (h - 1) * Decimation + Decimation
  <2>1. (h - 1) * Decimation = h * Decimation - Decimation /\ h * Decimation \in Int
    BY <1>1, <1>2
  <2> QED
    BY <1>1, <2>1
<1>5. OutputCount(n % Decimation, count) =
        IF count = 0 \/ first >= count THEN 0 ELSE 1 + (count - 1 - first) \div Decimation
  BY DEF OutputCount, first
<1>6. ASSUME count = 0 \/ first >= count
      PROVE  H(n + count) = h
  <2>1. s + count \in 1 .. Decimation /\ n + count = (h - 1) * Decimation + (s + count)
    BY <1>1, <1>2, <1>3, <1>4, <1>6
  <2>2. H((h - 1) * Decimation + (s + count)) = h
    BY <1>2, <2>1, HopsInside
  <2> QED
    BY <2>1, <2>2
<1>7. ASSUME ~(count = 0 \/ first >= count)
      PROVE  /\ H(n + count) = h + 1 + (count - 1 - first) \div Decimation
             /\ (count - 1 - first) \div Decimation \in Nat
  <2> DEFINE m == count - 1 - first
             a == m \div Decimation
             b == m % Decimation
  <2>1. m \in Nat /\ count = first + m + 1
    BY <1>1, <1>2, <1>3, <1>7
  <2> HIDE DEF m
  <2>2. a \in Nat /\ b \in 0 .. Decimation - 1 /\ m = a * Decimation + b
    BY <1>1, <2>1, Division
  <2> HIDE DEF a, b
  <2>3. (h + a) * Decimation = h * Decimation + a * Decimation /\ a * Decimation \in Int
    BY <1>1, <1>2, <2>2
  <2>4. (h + 1 + a) - 1 = h + a /\ h + 1 + a \in Int /\ b + 1 \in 1 .. Decimation
    BY <1>1, <1>2, <2>2
  <2>5. n + count = (h + a) * Decimation + (b + 1)
    BY <1>1, <1>2, <1>3, <1>4, <2>1, <2>2, <2>3
  <2>6. H(((h + 1 + a) - 1) * Decimation + (b + 1)) = h + 1 + a
    BY <2>4, HopsInside
  <2> QED
    BY <2>2, <2>4, <2>5, <2>6 DEF a, m
<1>8. CASE count = 0 \/ first >= count
  BY <1>2, <1>5, <1>6, <1>8 DEF h
<1>9. CASE ~(count = 0 \/ first >= count)
  BY <1>2, <1>5, <1>7, <1>9 DEF h
<1> QED
  BY <1>8, <1>9

-----------------------------------------------------------------------------
(* The inductive invariant.                                                *)

(* Both phases are those of the hop that ends on sample n or after it.     *)
Aligned(phase, post, n) == phase = n % Decimation /\ post = H(n) % PhasePeriod

(* The hops are those from number h on.                                    *)
Numbered(hops, h) ==
  \A j \in 1 .. Len(hops) : /\ hops[j].at = (h + (j - 1)) * Decimation
                            /\ hops[j].phase = (h + (j - 1)) % PhasePeriod

(* What a call has counted and produced is what its position requires.     *)
Follows ==
  /\ input_count \in BlockSizes
  /\ Aligned(run_decimation_phase, run_post_phase, Now)
  /\ Numbered(output, H(position))
  /\ Numbered(queued, H(position) + Len(output))
  /\ H(Now) = H(position) + Len(output) + Len(queued)

SInv ==
  /\ IInv
  /\ Aligned(decimation_phase, post_phase, position)
  /\ stage # "idle" => Follows

(* Sequences of records are sequences.                                     *)
LEMMA LengthsType ==
  ASSUME TypeOK
  PROVE  Len(output) \in Nat /\ Len(queued) \in Nat
BY DEF TypeOK

LEMMA NumberedConcat ==
  ASSUME NEW S, NEW T, NEW first \in Seq(S), NEW second \in Seq(T), NEW h \in Nat,
         Numbered(first, h), Numbered(second, h + Len(first))
  PROVE  Numbered(first \o second, h) /\ Len(first \o second) = Len(first) + Len(second)
<1> DEFINE both == first \o second
<1>1. /\ Len(first) \in Nat /\ Len(second) \in Nat /\ Len(both) = Len(first) + Len(second)
      /\ \A j \in 1 .. Len(both) :
           both[j] = IF j <= Len(first) THEN first[j] ELSE second[j - Len(first)]
  OBVIOUS
<1> HIDE DEF both
<1> SUFFICES ASSUME NEW j \in 1 .. Len(both)
             PROVE  /\ both[j].at = (h + (j - 1)) * Decimation
                    /\ both[j].phase = (h + (j - 1)) % PhasePeriod
  BY <1>1 DEF Numbered, both
<1>2. CASE j <= Len(first)
  <2>1. j \in 1 .. Len(first) /\ both[j] = first[j]
    BY <1>1, <1>2
  <2> QED
    BY <2>1 DEF Numbered
<1>3. CASE ~(j <= Len(first))
  <2> DEFINE i == j - Len(first)
  <2>1. i \in 1 .. Len(second) /\ both[j] = second[i]
    BY <1>1, <1>3
  <2>2. (h + Len(first)) + (i - 1) = h + (j - 1)
    BY <1>1
  <2> HIDE DEF i
  <2>3. /\ second[i].at = ((h + Len(first)) + (i - 1)) * Decimation
        /\ second[i].phase = ((h + Len(first)) + (i - 1)) % PhasePeriod
    BY <2>1 DEF Numbered
  <2> QED
    BY <2>1, <2>2, <2>3
<1> QED
  BY <1>2, <1>3

(* Filtering keeps the number and the phase of a hop.                      *)
LEMMA FilteredNumbered ==
  ASSUME NEW cells, NEW batch, Len(batch) \in Nat, NEW h, Numbered(batch, h),
         NEW filtered, filtered = Filtered(cells, batch)
  PROVE  /\ Numbered(filtered, h) /\ Len(filtered) = Len(batch)
         /\ filtered \in Seq({filtered[j] : j \in 1 .. Len(batch)})
<1> DEFINE k == Len(batch)
<1>1. filtered = [j \in 1 .. k |-> filtered[j]] /\ k \in Nat
  BY DEF Filtered
<1>2. \A j \in 1 .. k : filtered[j].at = batch[j].at /\ filtered[j].phase = batch[j].phase
  BY DEF Filtered
<1>3. \A j \in 1 .. k : /\ batch[j].at = (h + (j - 1)) * Decimation
                         /\ batch[j].phase = (h + (j - 1)) % PhasePeriod
  BY DEF Numbered
<1> HIDE DEF k
<1>4. Len(filtered) = k /\ filtered \in Seq({filtered[j] : j \in 1 .. k})
  BY <1>1
<1>5. Numbered(filtered, h)
  BY <1>2, <1>3, <1>4 DEF Numbered
<1> QED
  BY <1>4, <1>5 DEF k

LEMMA RunFilteredNumbered ==
  ASSUME NEW cells, NEW batch, Len(batch) \in Nat, NEW h, Numbered(batch, h),
         NEW filtered, filtered = RunFiltered(cells, batch)
  PROVE  /\ Numbered(filtered, h) /\ Len(filtered) = Len(batch)
         /\ filtered \in Seq({filtered[j] : j \in 1 .. Len(batch)})
<1> DEFINE k == Len(batch)
<1>1. filtered = [j \in 1 .. k |-> filtered[j]] /\ k \in Nat
  BY DEF RunFiltered
<1>2. \A j \in 1 .. k : filtered[j].at = batch[j].at /\ filtered[j].phase = batch[j].phase
  BY DEF RunFiltered
<1>3. \A j \in 1 .. k : /\ batch[j].at = (h + (j - 1)) * Decimation
                         /\ batch[j].phase = (h + (j - 1)) % PhasePeriod
  BY DEF Numbered
<1> HIDE DEF k
<1>4. Len(filtered) = k /\ filtered \in Seq({filtered[j] : j \in 1 .. k})
  BY <1>1
<1>5. Numbered(filtered, h)
  BY <1>2, <1>3, <1>4 DEF Numbered
<1> QED
  BY <1>4, <1>5 DEF k

(* One more hop, on the sample that is written.                            *)
LEMMA ThisHopNumbered ==
  ASSUME SInv, stage # "idle", run_decimation_phase = 0
  PROVE  LET batch == Append(queued, ThisHop)
         IN  /\ Numbered(batch, H(position) + Len(output))
             /\ batch \in Seq(QueuedHops \cup {ThisHop}) /\ Len(batch) = Len(queued) + 1
<1> DEFINE h == H(position) + Len(output)
           batch == Append(queued, ThisHop)
<1>1. /\ queued \in Seq(QueuedHops) /\ Len(queued) \in Nat /\ Len(output) \in Nat
      /\ Now \in Nat /\ position \in Nat
  BY LengthsType, NumbersType DEF SInv, IInv, TypeOK
<1>2. H(position) \in Nat /\ h \in Nat
  <2>1. H(position) \in Nat
    BY <1>1, HopsAround
  <2> QED
    BY <1>1, <2>1
<1>3. H(Now) = h + Len(queued) /\ Numbered(queued, h)
      /\ Now % Decimation = 0 /\ run_post_phase = H(Now) % PhasePeriod
  BY DEF SInv, Follows, Aligned
<1>4. Now = H(Now) * Decimation
  BY <1>1, <1>3, HopStep
<1>5. /\ Len(batch) = Len(queued) + 1 /\ batch[Len(batch)] = ThisHop
      /\ \A j \in 1 .. Len(queued) : batch[j] = queued[j]
      /\ batch \in Seq(QueuedHops \cup {ThisHop})
  BY <1>1
<1>6. ThisHop.at = H(Now) * Decimation /\ ThisHop.phase = H(Now) % PhasePeriod
  BY <1>3, <1>4 DEF ThisHop
<1> HIDE DEF batch, h
<1>7. ASSUME NEW j \in 1 .. Len(batch)
      PROVE  /\ batch[j].at = (h + (j - 1)) * Decimation
             /\ batch[j].phase = (h + (j - 1)) % PhasePeriod
  <2>1. CASE j = Len(batch)
    <3>1. h + (j - 1) = H(Now)
      BY <1>1, <1>2, <1>3, <1>5, <2>1
    <3> QED
      BY <1>5, <1>6, <2>1, <3>1
  <2>2. CASE j # Len(batch)
    <3>1. j \in 1 .. Len(queued)
      BY <1>1, <1>5, <2>2
    <3> QED
      BY <1>3, <1>5, <3>1 DEF Numbered
  <2> QED
    BY <2>1, <2>2
<1> QED
  BY <1>5, <1>7 DEF Numbered, h, batch

(* The positions after one sample.                                         *)
LEMMA AlignedStep ==
  ASSUME NEW n \in Nat, NEW phase, NEW post, Aligned(phase, post, n)
  PROVE  /\ phase # 0 => Aligned(Counted(phase, Decimation), post, n + 1)
         /\ phase = 0 => Aligned(Counted(phase, Decimation), Counted(post, PhasePeriod), n + 1)
<1>1. H(n) \in Nat /\ PhasePeriod \in Nat \ {0}
  BY HopsAround, RoomFacts
<1>2. phase # 0 => Aligned(Counted(phase, Decimation), post, n + 1)
  BY HopStep DEF Aligned
<1>3. phase = 0 => Aligned(Counted(phase, Decimation), Counted(post, PhasePeriod), n + 1)
  <2>1. Counted(H(n) % PhasePeriod, PhasePeriod) = (H(n) + 1) % PhasePeriod
    BY <1>1, CountedMod
  <2> QED
    BY <2>1, HopStep DEF Aligned
<1> QED
  BY <1>2, <1>3

(* The phases after whole decimations, as process and advance compute      *)
(* them.                                                                   *)
LEMMA AlignedBlock ==
  ASSUME NEW n \in Nat, NEW phase, NEW post, Aligned(phase, post, n), NEW count \in Nat
  PROVE  Aligned((phase + count) % Decimation,
                 (post + OutputCount(phase, count)) % PhasePeriod, n + count)
<1>1. /\ H(n) \in Nat /\ H(n + count) \in Nat
      /\ Decimation \in Nat \ {0} /\ PhasePeriod \in Nat \ {0}
  <2>1. n + count \in Nat
    OBVIOUS
  <2> QED
    BY <2>1, HopsAround, RoomFacts
<1>2. ((n % Decimation) + count) % Decimation = (n + count) % Decimation
  BY <1>1, AddMod
<1> DEFINE k == OutputCount(n % Decimation, count)
<1>3. k \in Nat /\ k = H(n + count) - H(n)
  BY OutputCountIsHops
<1> HIDE DEF k
<1>4. ((H(n) % PhasePeriod) + k) % PhasePeriod = (H(n) + k) % PhasePeriod
  BY <1>1, <1>3, AddMod
<1>5. H(n) + k = H(n + count)
  BY <1>1, <1>3
<1> QED
  BY <1>2, <1>4, <1>5 DEF Aligned, k

-----------------------------------------------------------------------------
(* The steps.                                                              *)

LEMMA LoopStep ==
  ASSUME SInv, IInv', stage # "idle", stage' = stage,
         position' = position, input_count' = input_count,
         decimation_phase' = decimation_phase, post_phase' = post_phase,
         Aligned(run_decimation_phase', run_post_phase', Now'),
         Numbered(output', H(position)),
         Numbered(queued', H(position) + Len(output')),
         H(Now') = H(position) + Len(output') + Len(queued')
  PROVE  SInv'
BY DEF SInv, Follows, Aligned, Numbered

LEMMA FollowsFacts ==
  ASSUME SInv
  PROVE  /\ TypeOK /\ IInv
         /\ Now \in Nat /\ position \in Nat /\ H(position) \in Nat /\ H(Now) \in Nat
         /\ Len(output) \in Nat /\ Len(queued) \in Nat
         /\ output \in Seq(Hops) /\ queued \in Seq(QueuedHops)
         /\ stage # "idle" => Follows
<1>1. TypeOK /\ IInv
  BY DEF SInv, IInv
<1>2. Now \in Nat /\ position \in Nat
  BY <1>1, NumbersType
<1> QED
  BY <1>1, <1>2, HopsAround, LengthsType DEF SInv, TypeOK

LEMMA OneSample ==
  ASSUME SInv, stage # "idle", Remaining > 0, WriteSamples(1),
         position' = position, input_count' = input_count
  PROVE  Now' = Now + 1
<1>1. 1 \in 1 .. HistorySize /\ 1 <= Remaining
  BY RoomFacts, NumbersType, FollowsFacts
<1> QED
  BY <1>1, WriteFacts, FollowsFacts

LEMMA WriteBetweenHopsFollows == SInv /\ WriteBetweenHops => SInv'
<1> SUFFICES ASSUME SInv, WriteBetweenHops
             PROVE  SInv'
  OBVIOUS
<1>1. /\ stage # "idle" /\ Remaining > 0 /\ run_decimation_phase # 0 /\ WriteSamples(1)
      /\ run_decimation_phase' = Counted(run_decimation_phase, Decimation)
      /\ UNCHANGED <<cursor, decimation_phase, post_phase, stage, input_count, run_post_phase,
                     queued, output, position, delivered>>
  BY DEF WriteBetweenHops
<1>2. Now' = Now + 1
  BY <1>1, OneSample
<1>3. Now \in Nat /\ Follows
  BY <1>1, FollowsFacts
<1>4. Aligned(run_decimation_phase', run_post_phase', Now')
  BY <1>1, <1>2, <1>3, AlignedStep DEF Follows
<1>5. H(Now') = H(Now)
  BY <1>1, <1>2, <1>3, HopStep DEF Follows, Aligned
<1>6. IInv'
  BY WriteBetweenHopsStep DEF SInv
<1> QED
  BY <1>1, <1>3, <1>4, <1>5, <1>6, LoopStep DEF Follows

(* The loops' iterations that end a hop.                                   *)
LEMMA HopAligned ==
  ASSUME SInv, stage # "idle", Remaining > 0, run_decimation_phase = 0, WriteSamples(1),
         position' = position, input_count' = input_count,
         run_post_phase' = Counted(run_post_phase, PhasePeriod),
         run_decimation_phase' = Counted(run_decimation_phase, Decimation)
  PROVE  /\ Aligned(run_decimation_phase', run_post_phase', Now')
         /\ H(Now') = H(position) + Len(output) + (Len(queued) + 1)
<1>1. Now' = Now + 1
  BY OneSample
<1>2. Now \in Nat /\ Follows
  BY FollowsFacts
<1>3. Aligned(run_decimation_phase', run_post_phase', Now')
  BY <1>1, <1>2, AlignedStep DEF Follows
<1>4. H(Now') = H(Now) + 1
  BY <1>1, <1>2, HopStep DEF Follows, Aligned
<1>5. H(Now) = H(position) + Len(output) + Len(queued)
  BY <1>2 DEF Follows
<1> QED
  BY <1>3, <1>4, <1>5, FollowsFacts

LEMMA StreamHopFollows == SInv /\ StreamHop => SInv'
<1> SUFFICES ASSUME SInv, StreamHop
             PROVE  SInv'
  OBVIOUS
<1> DEFINE batch == Append(queued, ThisHop)
           h == H(position) + Len(output)
<1>1. /\ stage = "stream" /\ Remaining > 0 /\ run_decimation_phase = 0 /\ WriteSamples(1)
      /\ \/ /\ Len(batch) = BatchLimit
            /\ output' = output \o Filtered(history', batch) /\ queued' = << >>
         \/ Len(batch) # BatchLimit /\ queued' = batch /\ output' = output
      /\ run_post_phase' = Counted(run_post_phase, PhasePeriod)
      /\ run_decimation_phase' = Counted(run_decimation_phase, Decimation)
      /\ UNCHANGED <<cursor, decimation_phase, post_phase, stage, input_count,
                     position, delivered>>
  BY DEF StreamHop
<1>2. IInv'
  BY StreamHopStep DEF SInv
<1>3. /\ Aligned(run_decimation_phase', run_post_phase', Now')
      /\ H(Now') = H(position) + Len(output) + (Len(queued) + 1)
  BY <1>1, HopAligned
<1>4. Numbered(batch, h) /\ Len(batch) = Len(queued) + 1
  BY <1>1, ThisHopNumbered
<1>5. /\ Len(output) \in Nat /\ Len(queued) \in Nat /\ H(position) \in Nat
      /\ output \in Seq(Hops) /\ Follows
  BY <1>1, FollowsFacts
<1>6. batch \in Seq(QueuedHops)
  BY <1>1, HopFacts, FollowsFacts
<1> HIDE DEF batch
<1>7. CASE Len(batch) # BatchLimit /\ queued' = batch /\ output' = output
  BY <1>1, <1>2, <1>3, <1>4, <1>5, <1>7, LoopStep DEF Follows
<1>8. CASE /\ Len(batch) = BatchLimit
           /\ output' = output \o Filtered(history', batch) /\ queued' = << >>
  <2> DEFINE filtered == Filtered(history', batch)
  <2>1. filtered = Filtered(history', batch) /\ Len(batch) \in Nat
    BY <1>4, <1>5
  <2>2. /\ Numbered(filtered, h) /\ Len(filtered) = Len(batch)
        /\ filtered \in Seq({filtered[j] : j \in 1 .. Len(batch)})
    <3> HIDE DEF filtered, h
    <3> QED
      BY <1>4, <2>1, FilteredNumbered
  <2> HIDE DEF filtered
  <2>3. Numbered(output', H(position)) /\ Len(output') = Len(output) + Len(filtered)
    BY <1>5, <1>8, <2>2, NumberedConcat DEF Follows, filtered
  <2>4. Numbered(queued', H(position) + Len(output')) /\ Len(queued') = 0
    BY <1>8 DEF Numbered
  <2>5. H(Now') = H(position) + Len(output') + Len(queued')
    BY <1>3, <1>4, <1>5, <2>2, <2>3, <2>4
  <2> QED
    BY <1>1, <1>2, <1>3, <2>3, <2>4, <2>5, LoopStep
<1> QED
  BY <1>1, <1>7, <1>8

LEMMA TailHopFollows == SInv /\ TailHop => SInv'
<1> SUFFICES ASSUME SInv, TailHop
             PROVE  SInv'
  OBVIOUS
<1> DEFINE batch == Append(queued, ThisHop)
<1>1. /\ stage = "d4x4" /\ Remaining > 0 /\ run_decimation_phase = 0 /\ WriteSamples(1)
      /\ queued' = batch
      /\ run_post_phase' = Counted(run_post_phase, PhasePeriod)
      /\ run_decimation_phase' = Counted(run_decimation_phase, Decimation)
      /\ UNCHANGED <<cursor, decimation_phase, post_phase, stage, input_count, output,
                     position, delivered>>
  BY DEF TailHop
<1>2. IInv'
  BY TailHopStep DEF SInv
<1>3. /\ Aligned(run_decimation_phase', run_post_phase', Now')
      /\ H(Now') = H(position) + Len(output) + (Len(queued) + 1)
  BY <1>1, HopAligned
<1>4. Numbered(batch, H(position) + Len(output)) /\ Len(batch) = Len(queued) + 1
  BY <1>1, ThisHopNumbered
<1> HIDE DEF batch
<1> QED
  BY <1>1, <1>2, <1>3, <1>4, FollowsFacts, LoopStep DEF Follows

-----------------------------------------------------------------------------
(* The steps of the d4x4 loops, several hops at once.                      *)

LEMMA PhaseAfterIsNext ==
  ASSUME SInv, stage # "idle", NEW k \in Nat
  PROVE  PhaseAfter(k) = (H(Now) + k) % PhasePeriod
<1>1. /\ run_post_phase = H(Now) % PhasePeriod /\ H(Now) \in Nat
      /\ PhasePeriod \in Nat \ {0}
  BY FollowsFacts, RoomFacts DEF Follows, Aligned
<1>2. ExactD4x4 => PhasePeriod = 4
  BY PeriodAssumption DEF ExactD4x4
<1>3. ((H(Now) % PhasePeriod) + k) % PhasePeriod = (H(Now) + k) % PhasePeriod
  BY <1>1, AddMod
<1> QED
  BY <1>1, <1>2, <1>3 DEF PhaseAfter

LEMMA NextHopsNumbered ==
  ASSUME SInv, stage # "idle", run_decimation_phase = 0, NEW k \in Nat
  PROVE  Numbered(NextHops(k), H(Now)) /\ Len(NextHops(k)) = k
<1>1. Now \in Nat /\ H(Now) \in Nat /\ Decimation \in Nat /\ Now % Decimation = 0
  BY FollowsFacts, RoomFacts DEF Follows, Aligned
<1>2. ASSUME NEW j \in 1 .. k
      PROVE  /\ Now + (j - 1) * Decimation = (H(Now) + (j - 1)) * Decimation
             /\ PhaseAfter(j - 1) = (H(Now) + (j - 1)) % PhasePeriod
  <2>1. j - 1 \in Nat
    OBVIOUS
  <2> QED
    BY <1>1, <2>1, HopsSkip, PhaseAfterIsNext
<1>3. /\ Len(NextHops(k)) = k
      /\ \A j \in 1 .. k : /\ NextHops(k)[j].at = Now + (j - 1) * Decimation
                           /\ NextHops(k)[j].phase = PhaseAfter(j - 1)
  BY DEF NextHops
<1> QED
  BY <1>2, <1>3 DEF Numbered

(* The position after k hops of four samples.                              *)
LEMMA SpanAligned ==
  ASSUME SInv, stage # "idle", run_decimation_phase = 0, Decimation = 4, NEW k \in Nat,
         ExactD4x4 => k % 4 = 0,
         run_decimation_phase' = 0, Now' = Now + k * 4,
         run_post_phase' = IF ExactD4x4 THEN run_post_phase ELSE PhaseAfter(k)
  PROVE  /\ Aligned(run_decimation_phase', run_post_phase', Now')
         /\ H(Now') = H(Now) + k
<1>1. Now \in Nat /\ H(Now) \in Nat /\ Now % Decimation = 0 /\ run_post_phase = H(Now) % PhasePeriod
  BY FollowsFacts DEF Follows, Aligned
<1>2. H(Now') = H(Now) + k /\ Now' % Decimation = 0
  BY <1>1, HopsSkip
<1>3. run_post_phase' = (H(Now) + k) % PhasePeriod
  <2>1. CASE ExactD4x4
    <3>1. PhasePeriod = 4
      BY <2>1, PeriodAssumption DEF ExactD4x4
    <3>2. (H(Now) + k) % 4 = H(Now) % 4
      BY <1>1, <2>1
    <3> QED
      BY <1>1, <2>1, <3>1, <3>2
  <2>2. CASE ~ExactD4x4
    BY <2>2, PhaseAfterIsNext
  <2> QED
    BY <2>1, <2>2
<1> QED
  BY <1>2, <1>3 DEF Aligned

(* A span whose hops are appended to the output at once.                   *)
LEMMA SpanFollows ==
  ASSUME SInv, IInv', stage = "d4x4", run_decimation_phase = 0, Decimation = 4,
         queued = << >>, NEW k \in Nat, ExactD4x4 => k % 4 = 0,
         NEW S, NEW filtered \in Seq(S), Numbered(filtered, H(Now)), Len(filtered) = k,
         output' = output \o filtered, Now' = Now + k * 4,
         run_post_phase' = IF ExactD4x4 THEN run_post_phase ELSE PhaseAfter(k),
         UNCHANGED <<cursor, decimation_phase, post_phase, stage, input_count,
                     run_decimation_phase, queued, position, delivered>>
  PROVE  SInv'
<1>1. /\ Aligned(run_decimation_phase', run_post_phase', Now')
      /\ H(Now') = H(Now) + k
  BY SpanAligned
<1>2. /\ Len(output) \in Nat /\ H(position) \in Nat /\ output \in Seq(Hops) /\ Follows
      /\ Len(queued) = 0
  BY FollowsFacts
<1>3. H(Now) = H(position) + Len(output) /\ Numbered(output, H(position))
  BY <1>2 DEF Follows
<1>4. Numbered(output', H(position)) /\ Len(output') = Len(output) + k
  BY <1>2, <1>3, NumberedConcat
<1>5. Numbered(queued', H(position) + Len(output')) /\ Len(queued') = 0
  BY <1>2 DEF Numbered
<1>6. H(Now') = H(position) + Len(output') + Len(queued')
  BY <1>1, <1>2, <1>3, <1>4, <1>5
<1>7. stage # "idle" /\ stage' = stage /\ position' = position /\ input_count' = input_count
      /\ decimation_phase' = decimation_phase /\ post_phase' = post_phase
  OBVIOUS
<1> QED
  BY <1>1, <1>4, <1>5, <1>6, <1>7, LoopStep

LEMMA StagedSpanFollows == SInv /\ StagedSpan => SInv'
<1> SUFFICES ASSUME SInv, StagedSpan
             PROVE  SInv'
  OBVIOUS
<1> DEFINE batch == NextHops(16)
           filtered == Filtered(history', batch)
<1>1. IInv' /\ IInv /\ Now \in Nat
  BY StagedSpanStep, FollowsFacts
<1>2. Decimation = 4
  BY <1>1, RoomFacts DEF IInv, CallOK, StagedSpan, StageSpan
<1>3. WriteLookahead = 64 /\ WriteLookahead \div Decimation = 16
  BY <1>2 DEF WriteLookahead
<1>4. /\ stage = "d4x4" /\ run_decimation_phase = 0 /\ Remaining >= 64 /\ WriteSamples(64)
      /\ output' = output \o filtered
      /\ run_post_phase' = IF ExactD4x4 THEN run_post_phase ELSE PhaseAfter(16)
      /\ UNCHANGED <<cursor, decimation_phase, post_phase, stage, input_count,
                     run_decimation_phase, queued, position, delivered>>
  BY <1>3 DEF StagedSpan, StageSpan
<1>5. queued = << >>
  BY <1>1, <1>4, NothingWaits, NumbersType DEF IInv, GroupSamples
<1>6. Now' = Now + 16 * 4
  <2>1. 64 \in 1 .. HistorySize /\ 64 <= Remaining
    BY <1>1, <1>4, RoomFacts, NumbersType DEF IInv, CallOK
  <2> QED
    BY <1>1, <1>4, <2>1, WriteFacts
<1>7. Numbered(batch, H(Now)) /\ Len(batch) = 16
  BY <1>4, NextHopsNumbered
<1>8. /\ Numbered(filtered, H(Now)) /\ Len(filtered) = 16
      /\ filtered \in Seq({filtered[j] : j \in 1 .. 16})
  <2>1. Len(batch) \in Nat /\ Numbered(batch, H(Now))
    BY <1>7
  <2>2. filtered = Filtered(history', batch)
    OBVIOUS
  <2> DEFINE h == H(Now)
  <2>3. Numbered(batch, h)
    BY <2>1
  <2> HIDE DEF batch, filtered, h
  <2>4. /\ Numbered(filtered, h) /\ Len(filtered) = Len(batch)
        /\ filtered \in Seq({filtered[j] : j \in 1 .. Len(batch)})
    BY <2>1, <2>2, <2>3, FilteredNumbered
  <2> QED
    BY <1>7, <2>4 DEF h
<1> HIDE DEF filtered
<1>9. 16 % 4 = 0 /\ 16 \in Nat
  OBVIOUS
<1> QED
  BY <1>1, <1>2, <1>4, <1>5, <1>6, <1>8, <1>9, SpanFollows

LEMMA RunSpanFollows == SInv /\ RunSpan => SInv'
<1> SUFFICES ASSUME SInv, RunSpan
             PROVE  SInv'
  OBVIOUS
<1> DEFINE batch == NextHops(64)
           filtered == RunFiltered(history', batch)
<1>1. IInv' /\ IInv /\ Now \in Nat
  BY RunSpanStep, FollowsFacts
<1>2. Decimation = 4
  BY <1>1, RoomFacts DEF IInv, CallOK, RunSpan, StageSpan
<1>3. RunsSpan = 256 /\ RunsSpan \div Decimation = 64
  BY <1>2 DEF RunsSpan
<1>4. /\ stage = "d4x4" /\ run_decimation_phase = 0 /\ Remaining >= 256 /\ WriteSamples(256)
      /\ output' = output \o filtered /\ RunsD4x4
      /\ run_post_phase' = run_post_phase
      /\ UNCHANGED <<cursor, decimation_phase, post_phase, stage, input_count,
                     run_decimation_phase, queued, position, delivered>>
  BY <1>3 DEF RunSpan, StageSpan, RunsApply
<1>5. queued = << >>
  BY <1>1, <1>4, NothingWaits, NumbersType DEF IInv, GroupSamples
<1>6. Now' = Now + 64 * 4
  <2>1. 256 \in 1 .. HistorySize /\ 256 <= Remaining
    BY <1>1, <1>4, RoomFacts, NumbersType DEF IInv, CallOK
  <2> QED
    BY <1>1, <1>4, <2>1, WriteFacts
<1>7. Numbered(batch, H(Now)) /\ Len(batch) = 64
  BY <1>4, NextHopsNumbered
<1>8. /\ Numbered(filtered, H(Now)) /\ Len(filtered) = 64
      /\ filtered \in Seq({filtered[j] : j \in 1 .. 64})
  <2>1. Len(batch) \in Nat /\ Numbered(batch, H(Now))
    BY <1>7
  <2>2. filtered = RunFiltered(history', batch)
    OBVIOUS
  <2> DEFINE h == H(Now)
  <2>3. Numbered(batch, h)
    BY <2>1
  <2> HIDE DEF batch, filtered, h
  <2>4. /\ Numbered(filtered, h) /\ Len(filtered) = Len(batch)
        /\ filtered \in Seq({filtered[j] : j \in 1 .. Len(batch)})
    BY <2>1, <2>2, <2>3, RunFilteredNumbered
  <2> QED
    BY <1>7, <2>4 DEF h
<1> HIDE DEF filtered
<1>9. ExactD4x4
  BY <1>4 DEF ExactD4x4, RunsD4x4, StagedD4x4
<1>10. 64 % 4 = 0 /\ 64 \in Nat
  OBVIOUS
<1> QED
  BY <1>1, <1>2, <1>4, <1>5, <1>6, <1>8, <1>9, <1>10, SpanFollows

LEMMA GroupStepFollows == SInv /\ GroupStep => SInv'
<1> SUFFICES ASSUME SInv, GroupStep
             PROVE  SInv'
  OBVIOUS
<1> DEFINE cells == Written(history, run_cursor, Now, 13)
           batch == NextHops(4)
           filtered == Filtered(cells, batch)
<1>1. IInv' /\ IInv /\ Now \in Nat
  BY GroupStepStep, FollowsFacts
<1>2. GroupSamples = 16
  BY DEF GroupSamples
<1>3. stage = "d4x4" /\ run_decimation_phase = 0 /\ Remaining >= 16
  BY <1>2 DEF GroupStep
<1>4. output' = output \o filtered
  BY DEF GroupStep
<1>5. /\ input_index' = input_index + 16
      /\ run_post_phase' = IF ExactD4x4 THEN run_post_phase ELSE PhaseAfter(4)
  BY <1>2 DEF GroupStep
<1>6. UNCHANGED <<cursor, decimation_phase, post_phase, stage, input_count,
                  run_decimation_phase, queued, position, delivered>>
  BY DEF GroupStep
<1>7. Decimation = 4
  BY <1>1, <1>3, RoomFacts DEF IInv, CallOK
<1>8. queued = << >>
  BY <1>1, <1>3, NothingWaits DEF GroupSamples
<1>9. Now' = Now + 4 * 4
  <2>1. input_index \in Nat /\ position \in Nat
    BY <1>1, NumbersType DEF IInv
  <2> QED
    BY <1>5, <1>6, <2>1 DEF Now
<1>10. Numbered(batch, H(Now)) /\ Len(batch) = 4
  BY <1>3, NextHopsNumbered
<1>11. /\ Numbered(filtered, H(Now)) /\ Len(filtered) = 4
       /\ filtered \in Seq({filtered[j] : j \in 1 .. 4})
  <2>1. Len(batch) \in Nat /\ Numbered(batch, H(Now))
    BY <1>10
  <2>2. filtered = Filtered(cells, batch)
    OBVIOUS
  <2> DEFINE h == H(Now)
  <2>3. Numbered(batch, h)
    BY <2>1
  <2> HIDE DEF batch, filtered, h
  <2>4. /\ Numbered(filtered, h) /\ Len(filtered) = Len(batch)
        /\ filtered \in Seq({filtered[j] : j \in 1 .. Len(batch)})
    BY <2>1, <2>2, <2>3, FilteredNumbered
  <2> QED
    BY <1>10, <2>4 DEF h
<1> HIDE DEF filtered
<1>12. 4 % 4 = 0 /\ 4 \in Nat
  OBVIOUS
<1> QED
  BY <1>1, <1>3, <1>4, <1>5, <1>6, <1>7, <1>8, <1>9, <1>11, <1>12, SpanFollows

-----------------------------------------------------------------------------
(* The calls.                                                              *)

LEMMA IdleStep ==
  ASSUME SInv, IInv', stage' = "idle", Aligned(decimation_phase', post_phase', position')
  PROVE  SInv'
BY DEF SInv, Aligned

LEMMA BeginFollows == ASSUME NEW count \in BlockSizes, SInv, Begin(count) PROVE SInv'
<1>1. /\ stage' # "idle" /\ input_count' = count /\ input_index' = 0
      /\ run_decimation_phase' = decimation_phase /\ run_post_phase' = post_phase
      /\ queued' = << >> /\ output' = << >>
      /\ decimation_phase' = decimation_phase /\ post_phase' = post_phase
      /\ position' = position
  BY DEF Begin, state
<1>2. IInv' /\ position \in Nat /\ H(position) \in Nat
  BY BeginStep, FollowsFacts
<1>3. Now' = position
  BY <1>1, <1>2 DEF Now
<1>4. Aligned(decimation_phase, post_phase, position)
  BY DEF SInv
<1>5. Len(<< >>) = 0
  OBVIOUS
<1> QED
  BY <1>1, <1>2, <1>3, <1>4, <1>5 DEF SInv, Follows, Aligned, Numbered

LEMMA ReturnFollows == SInv /\ Return => SInv'
<1> SUFFICES ASSUME SInv, Return
             PROVE  SInv'
  OBVIOUS
<1>1. /\ stage # "idle" /\ stage' = "idle" /\ decimation_phase' = run_decimation_phase
      /\ post_phase' = run_post_phase /\ position' = Now
  BY DEF Return
<1>2. IInv'
  BY ReturnStep DEF SInv
<1> QED
  BY <1>1, <1>2, IdleStep DEF SInv, Follows

(* Both calls that consume a block at once.                                *)
LEMMA BlockFollows ==
  ASSUME SInv, NEW count \in BlockSizes, IInv', stage' = "idle",
         decimation_phase' = (decimation_phase + count) % Decimation,
         post_phase' = (post_phase + OutputCount(decimation_phase, count)) % PhasePeriod,
         position' = position + count
  PROVE  SInv'
<1>1. position \in Nat /\ count \in Nat
  BY FollowsFacts, LayoutAssumption
<1>2. Aligned(decimation_phase, post_phase, position)
  BY DEF SInv
<1> QED
  BY <1>1, <1>2, AlignedBlock, IdleStep

LEMMA ProcessNoOutputsFollows ==
  ASSUME NEW count \in BlockSizes, SInv, ProcessNoOutputs(count) PROVE SInv'
<1>1. IInv'
  BY ProcessNoOutputsStep, FollowsFacts
<1> QED
  BY <1>1, BlockFollows DEF ProcessNoOutputs, call

LEMMA AdvanceFollows ==
  ASSUME NEW count \in BlockSizes, SInv, Advance(count) PROVE SInv'
<1>1. IInv'
  BY AdvanceStep, FollowsFacts
<1> QED
  BY <1>1, BlockFollows DEF Advance, call

LEMMA StartAligned == Aligned(0, 0, 0)
<1>1. Decimation \in Nat \ {0} /\ PhasePeriod \in Nat \ {0}
  BY RoomFacts
<1>2. 0 % Decimation = 0 /\ (0 + Decimation - 1) \div Decimation = 0
  <2>1. 0 \in 0 .. Decimation - 1 /\ Decimation - 1 \in 0 .. Decimation - 1
        /\ 0 * Decimation + 0 = 0 /\ 0 * Decimation + (Decimation - 1) = 0 + Decimation - 1
    BY <1>1
  <2>2. (0 * Decimation + 0) % Decimation = 0
    BY <1>1, <2>1, RemainderUnique
  <2>3. (0 * Decimation + (Decimation - 1)) \div Decimation = 0
    BY <1>1, <2>1, QuotientUnique
  <2> QED
    BY <2>1, <2>2, <2>3
<1>3. 0 % PhasePeriod = 0
  <2>1. 0 \in 0 .. PhasePeriod - 1 /\ 0 * PhasePeriod + 0 = 0
    BY <1>1
  <2>2. (0 * PhasePeriod + 0) % PhasePeriod = 0
    BY <1>1, <2>1, RemainderUnique
  <2> QED
    BY <2>1, <2>2
<1> QED
  BY <1>2, <1>3 DEF Aligned, H, Stream!HopsBefore

LEMMA ResetFollows == SInv /\ Reset => SInv'
<1> SUFFICES ASSUME SInv, Reset
             PROVE  SInv'
  OBVIOUS
<1>1. /\ stage' = "idle" /\ decimation_phase' = 0 /\ post_phase' = 0 /\ position' = 0
  BY DEF Reset, call
<1>2. IInv'
  BY ResetStep DEF SInv
<1> QED
  BY <1>1, <1>2, StartAligned, IdleStep

LEMMA InitFollows == Init => SInv
<1> SUFFICES ASSUME Init
             PROVE  SInv
  OBVIOUS
<1>1. IInv
  BY InitInv
<1>2. stage = "idle" /\ decimation_phase = 0 /\ post_phase = 0 /\ position = 0
  BY DEF Init
<1> QED
  BY <1>1, <1>2, StartAligned DEF SInv

LEMMA StutterFollows == SInv /\ UNCHANGED vars => SInv'
<1> SUFFICES ASSUME SInv, UNCHANGED vars
             PROVE  SInv'
  OBVIOUS
<1>1. IInv'
  BY StutterInv DEF SInv
<1>2. /\ UNCHANGED <<decimation_phase, post_phase, position, stage, input_count, output, queued,
                     run_decimation_phase, run_post_phase>>
      /\ Now' = Now
  BY DEF vars, state, call, locals, Now
<1> QED
  BY <1>1, <1>2 DEF SInv, Follows, Aligned, Numbered

LEMMA NextFollows == SInv /\ [Next]_vars => SInv'
<1> SUFFICES ASSUME SInv, [Next]_vars
             PROVE  SInv'
  OBVIOUS
<1>1. CASE Loop
  BY <1>1, WriteBetweenHopsFollows, StreamHopFollows, RunSpanFollows, StagedSpanFollows,
     GroupStepFollows, TailHopFollows, ReturnFollows DEF Loop
<1>2. CASE Reset
  BY <1>2, ResetFollows
<1>3. ASSUME NEW count \in BlockSizes, Process(count) \/ Advance(count)
      PROVE  SInv'
  BY <1>3, BeginFollows, ProcessNoOutputsFollows, AdvanceFollows DEF Process
<1>4. CASE UNCHANGED vars
  BY <1>4, StutterFollows
<1> QED
  BY <1>1, <1>2, <1>3, <1>4 DEF Next

(* The saved phases are those of the position in the stream, and within a  *)
(* call the outputs and the queued hops are numbered on from that position.*)
THEOREM Progress == Spec => []SInv
BY InitFollows, NextFollows, PTL DEF Spec

-----------------------------------------------------------------------------
(* The results.                                                            *)

(* On every path that moves the position of the stream, filtering,         *)
(* advancing, resetting and the path without outputs, both phases are      *)
(* those of the next sample.                                               *)
THEOREM PhasesCorrect == Spec => []PhasesFollowStream
<1>1. SInv => PhasesFollowStream
  BY DEF SInv, Follows, Aligned, PhasesFollowStream, H
<1> QED
  BY <1>1, Progress, PTL

(* No kernel writes more hops than process() checked the buffers for.      *)
THEOREM OutputsCorrect == Spec => []OutputsFit
<1>1. SInv => OutputsFit
  <2> SUFFICES ASSUME SInv, stage # "idle"
               PROVE  Len(output) + Len(queued) <= OutputCount(decimation_phase, input_count)
    BY DEF OutputsFit
  <2>1. /\ Now \in Nat /\ Remaining \in Nat /\ input_count \in Nat /\ position \in Nat
        /\ Now + Remaining = position + input_count
        /\ Len(output) \in Nat /\ Len(queued) \in Nat
    BY FollowsFacts, NumbersType
  <2>2. decimation_phase = position % Decimation
    BY DEF SInv, Aligned
  <2>3. OutputCount(decimation_phase, input_count) = H(position + input_count) - H(position)
    BY <2>1, <2>2, OutputCountIsHops
  <2>4. H(Now) = H(position) + Len(output) + Len(queued)
    BY FollowsFacts DEF Follows
  <2>5. H(Now + Remaining) - H(Now) \in Nat
    <3>1. OutputCount(Now % Decimation, Remaining) = H(Now + Remaining) - H(Now)
      BY <2>1, OutputCountIsHops
    <3>2. OutputCount(Now % Decimation, Remaining) \in Nat
      BY <2>1, OutputCountIsHops
    <3> QED
      BY <3>1, <3>2
  <2>6. H(Now) \in Nat /\ H(position) \in Nat /\ H(Now + Remaining) \in Nat
    <3>1. Now + Remaining \in Nat
      BY <2>1
    <3> QED
      BY <2>1, <3>1, HopsAround
  <2> QED
    BY <2>1, <2>3, <2>4, <2>5, <2>6
<1> QED
  BY <1>1, Progress, PTL

-----------------------------------------------------------------------------
(* The refinement.                                                         *)

(* Hops that are intact and numbered without a gap are those of the        *)
(* stream between two positions.                                           *)
LEMMA HopsAreStream ==
  ASSUME NEW hops, Intact(hops), NEW from \in Nat, NEW to \in Nat, Outputs # 0,
         Numbered(hops, H(from)), H(to) = H(from) + Len(hops)
  PROVE  hops = Stream!HopsBetween(from, to)
<1> DEFINE h == H(from)
           k == Len(hops)
<1>1. /\ hops \in Seq(Hops) /\ k \in Nat /\ h \in Nat
      /\ \A j \in 1 .. k : hops[j].window = Stream!Window(hops[j].at)
  BY HopsAround DEF Intact
<1>2. \A j \in 1 .. k : hops[j].at = (h + (j - 1)) * Decimation
                        /\ hops[j].phase = (h + (j - 1)) % PhasePeriod
  BY DEF Numbered
<1>3. H(to) - H(from) = k
  BY <1>1
<1>4. ASSUME NEW j \in 1 .. k
      PROVE  hops[j] = Stream!Hop(h + j - 1)
  <2>1. hops[j] \in Hops
    BY <1>1
  <2>2. hops[j] = [at |-> hops[j].at, phase |-> hops[j].phase, window |-> hops[j].window]
    BY <2>1 DEF Hops
  <2>3. h + (j - 1) = h + j - 1
    BY <1>1
  <2>4. /\ hops[j].at = (h + j - 1) * Decimation /\ hops[j].phase = (h + j - 1) % PhasePeriod
        /\ hops[j].window = Stream!Window((h + j - 1) * Decimation)
    BY <1>1, <1>2, <2>3
  <2> HIDE DEF h, k
  <2> QED
    BY <2>2, <2>4 DEF Stream!Hop
<1>5. Stream!HopsBetween(from, to) = [j \in 1 .. k |-> Stream!Hop(h + j - 1)]
  BY <1>3 DEF Stream!HopsBetween, H
<1>6. hops = [j \in 1 .. k |-> hops[j]]
  BY <1>1
<1> HIDE DEF h, k
<1>7. [j \in 1 .. k |-> hops[j]] = [j \in 1 .. k |-> Stream!Hop(h + j - 1)]
  BY <1>4
<1> QED
  BY <1>5, <1>6, <1>7

(* A call that filters returns every hop of its block.                     *)
LEMMA ReturnIsProcess ==
  ASSUME SInv, Return
  PROVE  \E count \in BlockSizes : Stream!Process(count)
<1>1. /\ stage # "idle" /\ Remaining = 0 /\ position' = Now
      /\ delivered' = output \o Filtered(history, queued)
  BY DEF Return
<1>2. /\ Follows /\ IInv /\ TypeOK /\ output \in Seq(Hops) /\ queued \in Seq(QueuedHops)
      /\ Len(output) \in Nat /\ Len(queued) \in Nat
      /\ Now \in Nat /\ position \in Nat /\ H(position) \in Nat
  BY <1>1, FollowsFacts
<1>3. /\ input_count \in BlockSizes /\ position + input_count = Now /\ Now <= MaxPosition
      /\ Outputs # 0
  BY <1>1, <1>2, NumbersType DEF Follows, IInv, CallOK
<1> DEFINE rest == Filtered(history, queued)
           h == H(position) + Len(output)
<1>4. Numbered(queued, h) /\ Numbered(output, H(position)) /\ H(Now) = h + Len(queued)
  BY <1>2 DEF Follows
<1>5. /\ Numbered(rest, h) /\ Len(rest) = Len(queued)
      /\ rest \in Seq({rest[j] : j \in 1 .. Len(queued)})
  <2>1. rest = Filtered(history, queued)
    OBVIOUS
  <2> HIDE DEF rest, h
  <2> QED
    BY <1>2, <1>4, <2>1, FilteredNumbered
<1>6. /\ Numbered(output \o rest, H(position))
      /\ Len(output \o rest) = Len(output) + Len(queued)
  <2> DEFINE T == {rest[j] : j \in 1 .. Len(queued)}
  <2>1. rest \in Seq(T) /\ Numbered(rest, H(position) + Len(output))
    BY <1>5
  <2> HIDE DEF rest, T
  <2>2. Numbered(output \o rest, H(position)) /\ Len(output \o rest) = Len(output) + Len(rest)
    BY <1>2, <1>4, <2>1, NumberedConcat
  <2> QED
    BY <1>5, <2>2
<1>7. Intact(output \o rest)
  <2>1. IInv'
    BY ReturnStep, <1>2
  <2>2. Intact(delivered')
    BY <2>1 DEF IInv, TypeOK, WindowsIntact, Intact
  <2> QED
    BY <1>1, <2>2
<1>8. delivered' = Stream!HopsBetween(position, Now)
  <2> DEFINE hops == output \o rest
  <2>1. Intact(hops) /\ Numbered(hops, H(position)) /\ H(Now) = H(position) + Len(hops)
    BY <1>2, <1>4, <1>6, <1>7
  <2>2. delivered' = hops
    BY <1>1
  <2> HIDE DEF hops
  <2> QED
    BY <1>2, <1>3, <2>1, <2>2, HopsAreStream
<1>9. Stream!Process(input_count)
  BY <1>1, <1>3, <1>8 DEF Stream!Process
<1> QED
  BY <1>3, <1>9

LEMMA StepIsStream ==
  SInv /\ [Next]_vars => [Stream!Next]_(Stream!vars)
<1> SUFFICES ASSUME SInv, [Next]_vars
             PROVE  Stream!Next \/ UNCHANGED <<position, delivered>>
  BY DEF Stream!vars
<1>1. CASE Loop
  <2>1. CASE Return
    BY <2>1, ReturnIsProcess DEF Stream!Next
  <2>2. CASE ~Return
    BY <1>1, <2>2 DEF Loop, WriteBetweenHops, StreamHop, RunSpan, StagedSpan, StageSpan,
       GroupStep, TailHop
  <2> QED
    BY <2>1, <2>2
<1>2. CASE Reset
  BY <1>2 DEF Reset, Stream!Next, Stream!Reset
<1>3. ASSUME NEW count \in BlockSizes, Process(count)
      PROVE  Stream!Next \/ UNCHANGED <<position, delivered>>
  <2>1. CASE Outputs = 0
    BY <1>3, <2>1 DEF Process, ProcessNoOutputs, Stream!Next, Stream!Process, Stream!HopsBetween
  <2>2. CASE Outputs # 0
    BY <1>3, <2>2 DEF Process, Begin
  <2> QED
    BY <2>1, <2>2
<1>4. ASSUME NEW count \in BlockSizes, Advance(count)
      PROVE  Stream!Next
  BY <1>4 DEF Advance, Stream!Next, Stream!Advance
<1>5. CASE UNCHANGED vars
  BY <1>5 DEF vars
<1> QED
  BY <1>1, <1>2, <1>3, <1>4, <1>5 DEF Next

(* Whatever the layout, the kernel, the ring and the sizes of the blocks,  *)
(* a channelizer is the one PfbStream describes: every call returns        *)
(* exactly the hops that end in its block.                                 *)
THEOREM ImplementsStream == Spec => IsStream
<1>1. Init => Stream!Init
  BY DEF Init, Stream!Init
<1> QED
  BY <1>1, Progress, StepIsStream, PTL DEF Spec, IsStream, Stream!Spec
=============================================================================
