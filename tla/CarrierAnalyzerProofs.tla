------------------------ MODULE CarrierAnalyzerProofs -------------------------
(***************************************************************************)
(* The carrier analyzer implements CarrierStatistics for every width of    *)
(* its batches and all blocks.                                             *)
(*                                                                         *)
(* The invariant says, at each step of a call, which samples are in the    *)
(* sums (Taken) and which have been compared with the one before           *)
(* (Compared); in a batch the two are apart.                               *)
(***************************************************************************)
EXTENDS CarrierAnalyzer, FiniteSetTheorems, SequenceTheorems, TLAPS

Working == stage \in {"vector", "adjacency", "scalar"}

Taken == IF stage = "adjacency" THEN index + Width ELSE index
Compared == IF stage = "adjacency" THEN index + lane ELSE index

ValidUpTo(b, last) == {n \in 1 .. last : b[n]}
FollowsUpTo(b, before, last) == {n \in Promise!Follows(b, before) : n <= last}

(* The samples up to last are in the sums, once.                           *)
Holds(all, valid, b, last) ==
  \A n \in DOMAIN b :
    /\ all[n] = IF n <= last THEN 1 ELSE 0
    /\ valid[n] = IF n <= last /\ b[n] THEN 1 ELSE 0

SumsAreTaken ==
  /\ IF stage = "scalar"
     THEN Holds(result.all, result.valid, block, Taken)
     ELSE Holds(Sum(result.all, vectors.all), Sum(result.valid, vectors.valid), block, Taken)
  /\ result.count = Cardinality(ValidUpTo(block, Taken))

(* The sample the next one is compared with.                               *)
PreviousOf(b, before, last) ==
  IF last = 0 THEN IF before THEN 0 ELSE None ELSE IF b[last] THEN last ELSE None

PairsAreCompared ==
  /\ previous = PreviousOf(block, entered, Compared)
  /\ result.pairs = {<<n - 1, n>> : n \in FollowsUpTo(block, entered, Compared)}
  /\ result.pair_count = Cardinality(FollowsUpTo(block, entered, Compared))

IInv ==
  /\ TypeOK
  /\ Working => SumsAreTaken /\ PairsAreCompared
  /\ stage = "idle" => previous \in {None, 0}
  /\ stage = "return" => /\ block = << >> /\ result = Cleared(<< >>)
                         /\ previous = PreviousOf(block, entered, 0)

-----------------------------------------------------------------------------
(* Facts about the sums.                                                   *)

LEMMA BatchWidths == \A name \in DOMAIN Lanes : Lanes[name] \in Nat
BY DEF Lanes

LEMMA AddedFacts ==
  ASSUME NEW D, NEW times \in [D -> Nat], NEW samples
  PROVE  /\ Added(times, samples) \in [D -> Nat]
         /\ \A n \in D : Added(times, samples)[n] =
                           IF n \in samples THEN times[n] + 1 ELSE times[n]
BY DEF Added

LEMMA SumFacts ==
  ASSUME NEW D, NEW left \in [D -> Nat], NEW right \in [D -> Nat]
  PROVE  /\ Sum(left, right) \in [D -> Nat]
         /\ \A n \in D : Sum(left, right)[n] = left[n] + right[n]
BY DEF Sum

LEMMA NothingFacts ==
  ASSUME NEW b
  PROVE  Nothing(b) \in Times(b) /\ \A n \in DOMAIN b : Nothing(b)[n] = 0
BY DEF Nothing, Times

(* More samples, more valid ones.                                          *)
LEMMA ValidGrow ==
  ASSUME NEW b, NEW from \in Nat, NEW to \in Nat, from <= to
  PROVE  /\ Cardinality(ValidUpTo(b, from)) \in Nat
         /\ Cardinality({n \in from + 1 .. to : b[n]}) \in Nat
         /\ Cardinality(ValidUpTo(b, to)) =
              Cardinality(ValidUpTo(b, from)) + Cardinality({n \in from + 1 .. to : b[n]})
<1> DEFINE old == ValidUpTo(b, from)
           new == {n \in from + 1 .. to : b[n]}
<1>1. IsFiniteSet(1 .. from) /\ IsFiniteSet(from + 1 .. to)
  BY FS_Interval
<1>2. old \in SUBSET (1 .. from) /\ new \in SUBSET (from + 1 .. to)
  BY DEF ValidUpTo
<1>3. IsFiniteSet(old) /\ IsFiniteSet(new)
  BY <1>1, <1>2, FS_Subset
<1>4. old \cap new = {} /\ old \cup new = ValidUpTo(b, to)
  BY DEF ValidUpTo
<1>5. Cardinality(old) \in Nat /\ Cardinality(new) \in Nat
  BY <1>3, FS_CardinalityType
<1>6. Cardinality(old \cup new) = Cardinality(old) + Cardinality(new) - Cardinality(old \cap new)
  BY <1>3, FS_Union
<1> HIDE DEF old, new
<1>7. Cardinality(old \cup new) = Cardinality(old) + Cardinality(new)
  BY <1>4, <1>5, <1>6, FS_EmptySet
<1> QED
  BY <1>4, <1>5, <1>7 DEF old, new

LEMMA FollowsFinite ==
  ASSUME NEW b \in Seq(BOOLEAN), NEW before, NEW last \in Nat
  PROVE  /\ IsFiniteSet(FollowsUpTo(b, before, last))
         /\ Cardinality(FollowsUpTo(b, before, last)) \in Nat
<1>1. IsFiniteSet(1 .. Len(b))
  BY FS_Interval
<1>2. FollowsUpTo(b, before, last) \in SUBSET (1 .. Len(b))
  BY DEF FollowsUpTo, Promise!Follows, Promise!StrongSamples
<1> QED
  BY <1>1, <1>2, FS_Subset, FS_CardinalityType

(* One more sample compared: what it is compared with, and what follows.   *)
LEMMA FollowsGrow ==
  ASSUME NEW b \in Seq(BOOLEAN), NEW before \in BOOLEAN, NEW last \in Nat, last < Len(b)
  PROVE  /\ b[last + 1] /\ PreviousOf(b, before, last) # None =>
              /\ PreviousOf(b, before, last) = last
              /\ FollowsUpTo(b, before, last + 1) = FollowsUpTo(b, before, last) \cup {last + 1}
              /\ last + 1 \notin FollowsUpTo(b, before, last)
         /\ ~(b[last + 1] /\ PreviousOf(b, before, last) # None) =>
              FollowsUpTo(b, before, last + 1) = FollowsUpTo(b, before, last)
<1> DEFINE this == last + 1
<1>1. this \in DOMAIN b /\ (last # 0 => last \in DOMAIN b /\ b[last] \in BOOLEAN)
  OBVIOUS
<1>2. (this \in Promise!Follows(b, before)) <=> b[this] /\ PreviousOf(b, before, last) # None
  BY <1>1, ConstantsAssumption DEF Promise!Follows, Promise!StrongSamples, PreviousOf
<1>3. Promise!Follows(b, before) \subseteq 1 .. Len(b)
  BY DEF Promise!Follows, Promise!StrongSamples
<1>4. /\ this \in Promise!Follows(b, before) =>
              FollowsUpTo(b, before, this) = FollowsUpTo(b, before, last) \cup {this}
      /\ this \notin Promise!Follows(b, before) =>
              FollowsUpTo(b, before, this) = FollowsUpTo(b, before, last)
      /\ this \notin FollowsUpTo(b, before, last)
  BY <1>3 DEF FollowsUpTo
<1>5. PreviousOf(b, before, last) # None => PreviousOf(b, before, last) = last
  BY DEF PreviousOf
<1> QED
  BY <1>2, <1>4, <1>5

-----------------------------------------------------------------------------
(* Steps of a call.                                                        *)

LEMMA InitHolds == Init => IInv
<1> SUFFICES ASSUME Init PROVE IInv
  OBVIOUS
<1>1. Nothing(<< >>) \in Times(<< >>)
  BY NothingFacts
<1>2. Cleared(<< >>) \in [all : Times(<< >>), valid : Times(<< >>), count : Nat,
                         pairs : SUBSET (Int \X Int), pair_count : Nat]
  BY <1>1 DEF Cleared
<1>3. << >> \in Seq(BOOLEAN) /\ Len(<< >>) = 0
  OBVIOUS
<1>4. /\ block = << >> /\ index = 0 /\ lane = 0 /\ stage = "idle" /\ previous = None
      /\ entered = FALSE /\ backend \in Backends /\ result = Cleared(<< >>)
  BY DEF Init
<1>5. result \in [all : Times(block), valid : Times(block), count : Nat,
                 pairs : SUBSET (Int \X Int), pair_count : Nat]
  BY <1>2, <1>4
<1>6. block \in Seq(BOOLEAN) /\ index \in 0 .. Len(block)
  BY <1>3, <1>4
<1>7. TypeOK
  BY <1>4, <1>5, <1>6 DEF TypeOK
<1> QED
  BY <1>4, <1>7 DEF IInv, Working

LEMMA ExecuteHolds ==
  ASSUME IInv, NEW b \in Blocks, NEW usable \in BOOLEAN, NEW descriptor \in BOOLEAN,
         Execute(b, usable, descriptor)
  PROVE  IInv'
<1>1. b \in Seq(BOOLEAN)
  BY ConstantsAssumption
<1>2. Nothing(b) \in Times(b) /\ \A n \in DOMAIN b : Nothing(b)[n] = 0
  BY NothingFacts
<1>3. /\ block' = b /\ index' = 0 /\ lane' = 0 /\ backend' = backend /\ previous' = previous
      /\ entered' = (previous # None) /\ stage' = IF b = << >> THEN "return" ELSE "vector"
      /\ vectors' = [all |-> Nothing(b), valid |-> Nothing(b)]
      /\ result' = [all |-> Nothing(b), valid |-> Nothing(b), count |-> 0, pairs |-> {},
                    pair_count |-> 0]
      /\ previous \in {None, 0}
  BY DEF Execute, NoVectors, Cleared, IInv
<1>4. TypeOK'
  BY <1>1, <1>2, <1>3 DEF TypeOK, IInv
<1>5. ASSUME b # << >> PROVE (SumsAreTaken /\ PairsAreCompared)'
  <2>1. stage' = "vector" /\ Taken' = 0 /\ Compared' = 0
    BY <1>3, <1>5 DEF Taken, Compared
  <2>2. Sum(Nothing(b), Nothing(b)) = Nothing(b)
    BY <1>2 DEF Sum, Nothing
  <2>3. Holds(Nothing(b), Nothing(b), b, 0)
    BY <1>1, <1>2 DEF Holds
  <2>4. ValidUpTo(b, 0) = {} /\ FollowsUpTo(b, entered', 0) = {}
    BY <1>1 DEF ValidUpTo, FollowsUpTo, Promise!Follows, Promise!StrongSamples
  <2>5. Cardinality({}) = 0
    BY FS_EmptySet
  <2>6. SumsAreTaken'
    BY <1>3, <2>1, <2>2, <2>3, <2>4, <2>5 DEF SumsAreTaken
  <2>7. previous' = PreviousOf(b, entered', 0)
    BY <1>3, ConstantsAssumption DEF PreviousOf
  <2>8. PairsAreCompared'
    BY <1>3, <2>1, <2>4, <2>5, <2>7 DEF PairsAreCompared
  <2> QED
    BY <2>6, <2>8
<1>6. ASSUME b = << >>
      PROVE  block' = << >> /\ result' = Cleared(<< >>) /\ previous' = PreviousOf(block', entered', 0)
  BY <1>3, <1>6, ConstantsAssumption DEF Cleared, PreviousOf
<1> QED
  BY <1>3, <1>4, <1>5, <1>6 DEF IInv, Working

(* What a batch adds.                                                      *)
LEMMA HoldsMore ==
  ASSUME NEW b, NEW from \in Nat, NEW to \in Nat, from <= to,
         NEW all \in Times(b), NEW valid \in Times(b), Holds(all, valid, b, from),
         DOMAIN b \subseteq Nat
  PROVE  Holds(Added(all, from + 1 .. to), Added(valid, {n \in from + 1 .. to : b[n]}), b, to)
<1>0. all \in [DOMAIN b -> Nat] /\ valid \in [DOMAIN b -> Nat]
  BY DEF Times
<1>1. \A n \in DOMAIN b : Added(all, from + 1 .. to)[n] =
                           IF n \in from + 1 .. to THEN all[n] + 1 ELSE all[n]
  BY <1>0, AddedFacts
<1>2. \A n \in DOMAIN b : Added(valid, {m \in from + 1 .. to : b[m]})[n] =
         IF n \in {m \in from + 1 .. to : b[m]} THEN valid[n] + 1 ELSE valid[n]
  BY <1>0, AddedFacts
<1> SUFFICES ASSUME NEW n \in DOMAIN b
             PROVE  /\ Added(all, from + 1 .. to)[n] = IF n <= to THEN 1 ELSE 0
                    /\ Added(valid, {m \in from + 1 .. to : b[m]})[n] =
                         IF n <= to /\ b[n] THEN 1 ELSE 0
  BY DEF Holds
<1>3. n \in Nat /\ all[n] = (IF n <= from THEN 1 ELSE 0)
      /\ valid[n] = (IF n <= from /\ b[n] THEN 1 ELSE 0)
  BY DEF Holds
<1>4. Added(all, from + 1 .. to)[n] = IF n \in from + 1 .. to THEN all[n] + 1 ELSE all[n]
  BY <1>1
<1>5. Added(valid, {m \in from + 1 .. to : b[m]})[n] =
        IF n \in {m \in from + 1 .. to : b[m]} THEN valid[n] + 1 ELSE valid[n]
  BY <1>2
<1>6. Added(all, from + 1 .. to)[n] = IF n <= to THEN 1 ELSE 0
  BY <1>3, <1>4
<1>7. CASE b[n]
  <2>1. Added(valid, {m \in from + 1 .. to : b[m]})[n] =
          IF n \in from + 1 .. to THEN valid[n] + 1 ELSE valid[n]
    BY <1>5, <1>7
  <2>2. valid[n] = IF n <= from THEN 1 ELSE 0
    BY <1>3, <1>7
  <2>3. Added(valid, {m \in from + 1 .. to : b[m]})[n] = IF n <= to THEN 1 ELSE 0
    BY <1>3, <2>1, <2>2
  <2> QED
    BY <1>6, <1>7, <2>3
<1>8. CASE ~b[n]
  <2>1. Added(valid, {m \in from + 1 .. to : b[m]})[n] = valid[n] /\ valid[n] = 0
    BY <1>3, <1>5, <1>8
  <2> QED
    BY <1>6, <1>8, <2>1
<1> QED
  BY <1>7, <1>8

(* Adding to a part of a sum adds to the sum.                              *)
LEMMA AddedSum ==
  ASSUME NEW D, NEW left \in [D -> Nat], NEW right \in [D -> Nat], NEW samples
  PROVE  /\ Sum(Added(left, samples), right) = Added(Sum(left, right), samples)
         /\ Sum(left, Added(right, samples)) = Added(Sum(left, right), samples)
BY DEF Sum, Added

LEMMA WidthFacts == ASSUME TypeOK PROVE Width \in Nat
BY BatchWidths, ConstantsAssumption DEF TypeOK, Width

(* What TypeOK says of a call's sums.                                      *)
LEMMA WorkFacts ==
  ASSUME TypeOK, Working
  PROVE  /\ block \in Seq(BOOLEAN) /\ DOMAIN block = 1 .. Len(block) /\ index \in 0 .. Len(block)
         /\ Len(block) \in Nat /\ DOMAIN block \subseteq Nat
         /\ vectors.all \in Times(block) /\ vectors.valid \in Times(block)
         /\ vectors = [all |-> vectors.all, valid |-> vectors.valid]
         /\ result.all \in Times(block) /\ result.valid \in Times(block)
         /\ result.count \in Nat /\ result.pair_count \in Nat
         /\ result.pairs \in SUBSET (Int \X Int)
         /\ result = [all |-> result.all, valid |-> result.valid, count |-> result.count,
                      pairs |-> result.pairs, pair_count |-> result.pair_count]
<1>1. vectors \in [all : Times(block), valid : Times(block)]
  BY DEF TypeOK, Working
<1>2. result \in [all : Times(block), valid : Times(block), count : Nat,
                 pairs : SUBSET (Int \X Int), pair_count : Nat]
  BY DEF TypeOK
<1>3. block \in Seq(BOOLEAN) /\ index \in 0 .. Len(block)
  BY DEF TypeOK
<1>4. Len(block) \in Nat /\ DOMAIN block = 1 .. Len(block)
  BY <1>3
<1> QED
  BY <1>1, <1>2, <1>3, <1>4

LEMMA VectorBatchHolds == ASSUME IInv, VectorBatch PROVE IInv'
<1> DEFINE to == index + Width
<1>1. /\ stage = "vector" /\ stage' = "adjacency" /\ lane' = 0 /\ backend # "generic"
      /\ to <= Len(block) /\ backend' = backend /\ previous' = previous /\ block' = block
      /\ index' = index /\ entered' = entered
  BY DEF VectorBatch, BatchLeft
<1>2. TypeOK /\ Working /\ SumsAreTaken /\ PairsAreCompared
  BY <1>1 DEF IInv, Working
<1>3. Width \in Nat /\ Width # 0 /\ Width' = Width
  BY <1>1, <1>2, ConstantsAssumption DEF TypeOK, Width, Lanes
<1>4. to \in Nat /\ index \in Nat /\ index <= to
  BY <1>2, <1>3, WorkFacts
<1>5. Batch = index + 1 .. to /\ Valid(Batch) = {n \in index + 1 .. to : block[n]}
  BY DEF Batch, Valid
<1>6. /\ result'.count = result.count + Cardinality(Valid(Batch))
      /\ result'.pairs = result.pairs /\ result'.pair_count = result.pair_count
      /\ \/ /\ backend = "neon" /\ vectors' = vectors
            /\ result'.all = Added(result.all, Batch)
            /\ result'.valid = Added(result.valid, Valid(Batch))
         \/ /\ backend # "neon" /\ result'.all = result.all /\ result'.valid = result.valid
            /\ vectors' = [all |-> Added(vectors.all, Batch),
                           valid |-> Added(vectors.valid, Valid(Batch))]
      /\ result' = [all |-> result'.all, valid |-> result'.valid, count |-> result'.count,
                    pairs |-> result'.pairs, pair_count |-> result'.pair_count]
  <2>1. CASE backend = "neon"
    BY <1>2, <2>1, WorkFacts DEF VectorBatch, Accumulated
  <2>2. CASE backend # "neon"
    BY <1>2, <2>2, WorkFacts DEF VectorBatch
  <2> QED
    BY <2>1, <2>2
<1>7. /\ Cardinality(ValidUpTo(block, to)) = result'.count /\ result'.count \in Nat
  <2>1. result.count = Cardinality(ValidUpTo(block, index))
    BY <1>1, <1>2 DEF SumsAreTaken, Taken
  <2> QED
    BY <1>4, <1>5, <1>6, <2>1, ValidGrow
<1>8. /\ Added(result.all, Batch) \in Times(block) /\ Added(vectors.all, Batch) \in Times(block)
      /\ Added(result.valid, Valid(Batch)) \in Times(block)
      /\ Added(vectors.valid, Valid(Batch)) \in Times(block)
  <2>1. /\ result.all \in [DOMAIN block -> Nat] /\ vectors.all \in [DOMAIN block -> Nat]
        /\ result.valid \in [DOMAIN block -> Nat] /\ vectors.valid \in [DOMAIN block -> Nat]
    BY <1>2, WorkFacts DEF Times
  <2>2. /\ Added(result.all, Batch) \in [DOMAIN block -> Nat]
        /\ Added(vectors.all, Batch) \in [DOMAIN block -> Nat]
        /\ Added(result.valid, Valid(Batch)) \in [DOMAIN block -> Nat]
        /\ Added(vectors.valid, Valid(Batch)) \in [DOMAIN block -> Nat]
    BY <2>1, AddedFacts
  <2> QED
    BY <2>2 DEF Times
<1>9. TypeOK'
  <2>1. result' \in [all : Times(block), valid : Times(block), count : Nat,
                     pairs : SUBSET (Int \X Int), pair_count : Nat]
    BY <1>2, <1>6, <1>7, <1>8, WorkFacts
  <2>2. vectors' \in [all : Times(block), valid : Times(block)]
    BY <1>2, <1>6, <1>8, WorkFacts
  <2>3. index' \in 0 .. Len(block') /\ lane' \in Nat /\ lane' < Width' /\ index' + Width' <= Len(block')
    BY <1>1, <1>2, <1>3, WorkFacts
  <2> QED
    BY <1>1, <1>2, <2>1, <2>2, <2>3 DEF TypeOK
<1>10. Taken' = to /\ Compared' = index /\ Compared = index /\ Taken = index
  BY <1>1, <1>3, <1>4 DEF Taken, Compared
<1>11. Holds(Sum(result'.all, vectors'.all), Sum(result'.valid, vectors'.valid), block, to)
  <2> DEFINE all == Sum(result.all, vectors.all)
             valid == Sum(result.valid, vectors.valid)
  <2>1. Holds(all, valid, block, index)
    BY <1>1, <1>2, <1>10 DEF SumsAreTaken
  <2>2. all \in Times(block) /\ valid \in Times(block)
    BY <1>2, WorkFacts, SumFacts DEF Times
  <2>3. /\ Sum(result'.all, vectors'.all) = Added(all, Batch)
        /\ Sum(result'.valid, vectors'.valid) = Added(valid, Valid(Batch))
    <3>0. /\ result.all \in [DOMAIN block -> Nat] /\ vectors.all \in [DOMAIN block -> Nat]
          /\ result.valid \in [DOMAIN block -> Nat] /\ vectors.valid \in [DOMAIN block -> Nat]
      BY <1>2, WorkFacts DEF Times
    <3>1. /\ Sum(Added(result.all, Batch), vectors.all) = Added(all, Batch)
          /\ Sum(result.all, Added(vectors.all, Batch)) = Added(all, Batch)
      BY <3>0, AddedSum
    <3>2. /\ Sum(Added(result.valid, Valid(Batch)), vectors.valid) = Added(valid, Valid(Batch))
          /\ Sum(result.valid, Added(vectors.valid, Valid(Batch))) = Added(valid, Valid(Batch))
      BY <3>0, AddedSum
    <3> QED
      BY <1>6, <3>1, <3>2
  <2> HIDE DEF all, valid
  <2>4. Holds(Added(all, index + 1 .. to), Added(valid, {n \in index + 1 .. to : block[n]}), block, to)
    BY <1>2, <1>4, <2>1, <2>2, HoldsMore, WorkFacts
  <2> QED
    BY <1>5, <2>3, <2>4
<1>12. SumsAreTaken'
  BY <1>1, <1>7, <1>10, <1>11 DEF SumsAreTaken
<1>13. PairsAreCompared'
  BY <1>1, <1>2, <1>6, <1>10 DEF PairsAreCompared
<1> QED
  BY <1>1, <1>9, <1>12, <1>13 DEF IInv

(* Comparing one more sample, the sums of which are kept in given ones.    *)
LEMMA AdjacencyHolds ==
  ASSUME TypeOK, Working, PairsAreCompared, NEW sums, NEW n, Adjacency(sums, n),
         n = Compared + 1, Compared \in Nat, Compared < Len(block),
         sums.pairs = result.pairs, sums.pair_count = result.pair_count,
         sums = [all |-> sums.all, valid |-> sums.valid, count |-> sums.count,
                 pairs |-> sums.pairs, pair_count |-> sums.pair_count]
  PROVE  /\ result'.all = sums.all /\ result'.valid = sums.valid /\ result'.count = sums.count
         /\ result' = [all |-> result'.all, valid |-> result'.valid, count |-> result'.count,
                       pairs |-> result'.pairs, pair_count |-> result'.pair_count]
         /\ previous' = PreviousOf(block, entered, n) /\ previous' \in Int \cup {None}
         /\ result'.pairs = {<<m - 1, m>> : m \in FollowsUpTo(block, entered, n)}
         /\ result'.pair_count = Cardinality(FollowsUpTo(block, entered, n))
         /\ result'.pairs \in SUBSET (Int \X Int) /\ result'.pair_count \in Nat
<1> DEFINE follows == FollowsUpTo(block, entered, Compared)
           more == FollowsUpTo(block, entered, n)
<1>1. block \in Seq(BOOLEAN) /\ entered \in BOOLEAN /\ n \in Int /\ n # 0 /\ n \in Nat
  BY WorkFacts DEF TypeOK
<1>2. previous' = PreviousOf(block, entered, n) /\ previous' \in Int \cup {None}
  BY <1>1 DEF Adjacency, PreviousOf
<1>3. previous = PreviousOf(block, entered, Compared) /\ result.pair_count = Cardinality(follows)
      /\ result.pairs = {<<m - 1, m>> : m \in follows}
  BY DEF PairsAreCompared
<1>4. IsFiniteSet(follows) /\ Cardinality(follows) \in Nat
  BY <1>1, FollowsFinite
<1>5. more \subseteq Int
  BY <1>1 DEF FollowsUpTo, Promise!Follows, Promise!StrongSamples
<1>6. CASE block[n] /\ previous # None
  <2>1. previous = n - 1 /\ more = follows \cup {n} /\ n \notin follows
    BY <1>1, <1>3, <1>6, FollowsGrow
  <2>2. /\ result'.all = sums.all /\ result'.valid = sums.valid /\ result'.count = sums.count
        /\ result'.pairs = result.pairs \cup {<<n - 1, n>>}
        /\ result'.pair_count = result.pair_count + 1
        /\ result' = [all |-> result'.all, valid |-> result'.valid, count |-> result'.count,
                      pairs |-> result'.pairs, pair_count |-> result'.pair_count]
    BY <1>6, <2>1 DEF Adjacency
  <2>3. Cardinality(more) = Cardinality(follows) + 1
    BY <1>4, <2>1, FS_AddElement
  <2>4. result'.pairs = {<<m - 1, m>> : m \in more}
    BY <1>3, <2>1, <2>2
  <2> HIDE DEF follows, more
  <2>5. result'.pairs \in SUBSET (Int \X Int)
    BY <1>5, <2>4
  <2>6. result'.pair_count = Cardinality(more) /\ result'.pair_count \in Nat
    BY <1>3, <1>4, <2>2, <2>3
  <2> QED
    BY <1>2, <2>2, <2>4, <2>5, <2>6 DEF more
<1>7. CASE ~(block[n] /\ previous # None)
  <2>1. more = follows
    BY <1>1, <1>3, <1>7, FollowsGrow
  <2>2. result' = sums
    BY <1>7 DEF Adjacency
  <2>3. result.pairs \in SUBSET (Int \X Int)
    BY WorkFacts
  <2> QED
    BY <1>2, <1>3, <1>4, <2>1, <2>2, <2>3
<1> QED
  BY <1>6, <1>7

LEMMA CommitLaneHolds == ASSUME IInv, CommitLane PROVE IInv'
<1> DEFINE n == index + lane + 1
<1>1. /\ stage = "adjacency" /\ Adjacency(result, n) /\ backend' = backend /\ block' = block
      /\ vectors' = vectors /\ entered' = entered
  BY DEF CommitLane
<1>2. TypeOK /\ Working /\ SumsAreTaken /\ PairsAreCompared
  BY <1>1 DEF IInv, Working
<1>3. Width \in Nat /\ Width' = Width /\ lane \in Nat /\ lane < Width /\ index + Width <= Len(block)
  BY <1>1, <1>2, WidthFacts DEF TypeOK, Width
<1>4. index \in Nat /\ Compared = index + lane /\ Taken = index + Width /\ Len(block) \in Nat
  BY <1>1, <1>2, WorkFacts DEF Compared, Taken
<1>5. /\ result'.all = result.all /\ result'.valid = result.valid /\ result'.count = result.count
      /\ result' = [all |-> result'.all, valid |-> result'.valid, count |-> result'.count,
                    pairs |-> result'.pairs, pair_count |-> result'.pair_count]
      /\ previous' = PreviousOf(block, entered, n) /\ previous' \in Int \cup {None}
      /\ result'.pairs = {<<m - 1, m>> : m \in FollowsUpTo(block, entered, n)}
      /\ result'.pair_count = Cardinality(FollowsUpTo(block, entered, n))
      /\ result'.pairs \in SUBSET (Int \X Int) /\ result'.pair_count \in Nat
  BY <1>1, <1>2, <1>3, <1>4, WorkFacts, AdjacencyHolds
<1>6. result' \in [all : Times(block), valid : Times(block), count : Nat,
                  pairs : SUBSET (Int \X Int), pair_count : Nat]
  BY <1>2, <1>5, WorkFacts
<1>7. vectors' \in [all : Times(block), valid : Times(block)]
  BY <1>1, <1>2 DEF TypeOK, Working
<1>8. /\ lane' \in Nat /\ index' \in 0 .. Len(block) /\ stage' \in {"adjacency", "vector"}
      /\ stage' = "adjacency" => lane' < Width /\ index' + Width <= Len(block)
      /\ Taken' = Taken /\ Compared' = n
  <2>1. CASE lane + 1 < Width
    BY <1>1, <1>3, <1>4, <2>1 DEF CommitLane, Taken, Compared
  <2>2. CASE ~(lane + 1 < Width)
    <3>1. lane' = 0 /\ stage' = "vector" /\ index' = index + Width /\ lane + 1 = Width
      BY <1>3, <2>2 DEF CommitLane
    <3> QED
      BY <1>1, <1>3, <1>4, <3>1 DEF Taken, Compared
  <2> QED
    BY <2>1, <2>2
<1>9. TypeOK'
  BY <1>1, <1>2, <1>3, <1>5, <1>6, <1>7, <1>8 DEF TypeOK
<1>10. SumsAreTaken'
  BY <1>1, <1>2, <1>5, <1>8 DEF SumsAreTaken
<1>11. PairsAreCompared'
  BY <1>1, <1>5, <1>8 DEF PairsAreCompared
<1> QED
  BY <1>8, <1>9, <1>10, <1>11 DEF IInv

LEMMA EndVectorsHolds == ASSUME IInv, EndVectors PROVE IInv'
<1>1. /\ stage = "vector" /\ stage' = "scalar" /\ backend' = backend /\ previous' = previous
      /\ block' = block /\ index' = index /\ lane' = lane /\ vectors' = vectors
      /\ entered' = entered
  BY DEF EndVectors
<1>2. TypeOK /\ Working /\ SumsAreTaken /\ PairsAreCompared
  BY <1>1 DEF IInv, Working
<1>3. /\ result'.all = Sum(result.all, vectors.all) /\ result'.valid = Sum(result.valid, vectors.valid)
      /\ result'.count = result.count /\ result'.pairs = result.pairs
      /\ result'.pair_count = result.pair_count
      /\ result' = [all |-> result'.all, valid |-> result'.valid, count |-> result'.count,
                    pairs |-> result'.pairs, pair_count |-> result'.pair_count]
  BY <1>2, WorkFacts DEF EndVectors
<1>4. result'.all \in Times(block) /\ result'.valid \in Times(block)
  <2>1. /\ result.all \in [DOMAIN block -> Nat] /\ vectors.all \in [DOMAIN block -> Nat]
        /\ result.valid \in [DOMAIN block -> Nat] /\ vectors.valid \in [DOMAIN block -> Nat]
    BY <1>2, WorkFacts DEF Times
  <2>2. Sum(result.all, vectors.all) \in [DOMAIN block -> Nat]
    BY <2>1, SumFacts
  <2>3. Sum(result.valid, vectors.valid) \in [DOMAIN block -> Nat]
    BY <2>1, SumFacts
  <2> QED
    BY <1>3, <2>2, <2>3 DEF Times
<1>5. result' \in [all : Times(block), valid : Times(block), count : Nat,
                  pairs : SUBSET (Int \X Int), pair_count : Nat]
  BY <1>2, <1>3, <1>4, WorkFacts
<1>6. vectors' \in [all : Times(block), valid : Times(block)]
  BY <1>1, <1>2 DEF TypeOK, Working
<1>7. TypeOK'
  BY <1>1, <1>2, <1>5, <1>6 DEF TypeOK
<1>8. Taken' = index /\ Taken = index /\ Compared' = index /\ Compared = index
  BY <1>1 DEF Taken, Compared
<1>9. SumsAreTaken'
  BY <1>1, <1>2, <1>3, <1>8 DEF SumsAreTaken
<1>10. PairsAreCompared'
  BY <1>1, <1>2, <1>3, <1>8 DEF PairsAreCompared
<1> QED
  BY <1>1, <1>7, <1>9, <1>10 DEF IInv

LEMMA AccumulatedFacts ==
  ASSUME NEW samples
  PROVE  Accumulated(result, samples) =
           [all |-> Added(result.all, samples), valid |-> Added(result.valid, Valid(samples)),
            count |-> result.count + Cardinality(Valid(samples)), pairs |-> result.pairs,
            pair_count |-> result.pair_count]
BY DEF Accumulated

LEMMA ScalarSampleHolds == ASSUME IInv, ScalarSample PROVE IInv'
<1> DEFINE n == index + 1
           sums == Accumulated(result, {n})
<1>1. /\ stage = "scalar" /\ stage' = "scalar" /\ backend' = backend /\ block' = block
      /\ index' = n /\ lane' = lane /\ vectors' = vectors /\ entered' = entered
      /\ index < Len(block) /\ Adjacency(sums, n)
  BY DEF ScalarSample
<1>2. TypeOK /\ Working /\ SumsAreTaken /\ PairsAreCompared
  BY <1>1 DEF IInv, Working
<1>3. index \in Nat /\ n \in Nat /\ index <= n /\ Len(block) \in Nat /\ {n} = index + 1 .. n
      /\ Valid({n}) = {m \in index + 1 .. n : block[m]}
  BY <1>2, WorkFacts DEF Valid
<1>4. Taken' = n /\ Taken = index /\ Compared' = n /\ Compared = index
  BY <1>1 DEF Taken, Compared
<1>5. /\ sums.all = Added(result.all, {n}) /\ sums.valid = Added(result.valid, Valid({n}))
      /\ sums.count = result.count + Cardinality(Valid({n}))
      /\ sums.pairs = result.pairs /\ sums.pair_count = result.pair_count
      /\ sums = [all |-> sums.all, valid |-> sums.valid, count |-> sums.count,
                 pairs |-> sums.pairs, pair_count |-> sums.pair_count]
  <2>1. sums = [all |-> Added(result.all, {n}), valid |-> Added(result.valid, Valid({n})),
                count |-> result.count + Cardinality(Valid({n})), pairs |-> result.pairs,
                pair_count |-> result.pair_count]
    BY <1>2, AccumulatedFacts
  <2> HIDE DEF sums
  <2> QED
    BY <2>1
<1> HIDE DEF sums
<1>6. /\ result'.all = sums.all /\ result'.valid = sums.valid /\ result'.count = sums.count
      /\ result' = [all |-> result'.all, valid |-> result'.valid, count |-> result'.count,
                    pairs |-> result'.pairs, pair_count |-> result'.pair_count]
      /\ previous' = PreviousOf(block, entered, n) /\ previous' \in Int \cup {None}
      /\ result'.pairs = {<<m - 1, m>> : m \in FollowsUpTo(block, entered, n)}
      /\ result'.pair_count = Cardinality(FollowsUpTo(block, entered, n))
      /\ result'.pairs \in SUBSET (Int \X Int) /\ result'.pair_count \in Nat
  BY <1>1, <1>2, <1>3, <1>4, <1>5, AdjacencyHolds
<1>7. sums.all \in Times(block) /\ sums.valid \in Times(block)
  <2>1. result.all \in [DOMAIN block -> Nat] /\ result.valid \in [DOMAIN block -> Nat]
    BY <1>2, WorkFacts DEF Times
  <2>2. /\ Added(result.all, {n}) \in [DOMAIN block -> Nat]
        /\ Added(result.valid, Valid({n})) \in [DOMAIN block -> Nat]
    BY <2>1, AddedFacts
  <2> QED
    BY <1>5, <2>2 DEF Times
<1>8. sums.count = Cardinality(ValidUpTo(block, n)) /\ sums.count \in Nat
  <2>1. result.count = Cardinality(ValidUpTo(block, index))
    BY <1>2, <1>4 DEF SumsAreTaken
  <2>3. sums.count = result.count + Cardinality({m \in index + 1 .. n : block[m]})
    BY <1>3, <1>5
  <2> HIDE DEF n
  <2>2. /\ Cardinality(ValidUpTo(block, n)) =
             Cardinality(ValidUpTo(block, index)) + Cardinality({m \in index + 1 .. n : block[m]})
        /\ Cardinality(ValidUpTo(block, index)) \in Nat
        /\ Cardinality({m \in index + 1 .. n : block[m]}) \in Nat
    BY <1>3, ValidGrow
  <2> QED
    BY <2>1, <2>2, <2>3
<1>9. Holds(sums.all, sums.valid, block, n)
  <2>1. Holds(result.all, result.valid, block, index)
    BY <1>1, <1>2, <1>4 DEF SumsAreTaken
  <2>2. result.all \in Times(block) /\ result.valid \in Times(block) /\ DOMAIN block \subseteq Nat
    BY <1>2, WorkFacts
  <2>3. Holds(Added(result.all, index + 1 .. n), Added(result.valid, {m \in index + 1 .. n : block[m]}),
              block, n)
    BY <1>3, <2>1, <2>2, HoldsMore
  <2> QED
    BY <1>3, <1>5, <2>3
<1>10. result' \in [all : Times(block), valid : Times(block), count : Nat,
                   pairs : SUBSET (Int \X Int), pair_count : Nat]
  BY <1>6, <1>7, <1>8
<1>11. vectors' \in [all : Times(block), valid : Times(block)]
  BY <1>1, <1>2 DEF TypeOK, Working
<1>12. TypeOK'
  BY <1>1, <1>2, <1>3, <1>6, <1>10, <1>11 DEF TypeOK
<1>13. SumsAreTaken'
  BY <1>1, <1>4, <1>6, <1>8, <1>9 DEF SumsAreTaken
<1>14. PairsAreCompared'
  BY <1>1, <1>4, <1>6 DEF PairsAreCompared
<1> QED
  BY <1>1, <1>12, <1>13, <1>14 DEF IInv

LEMMA ReturnHolds == ASSUME IInv, Return PROVE IInv'
<1>1. /\ stage' = "idle" /\ index' = 0 /\ block' = block /\ lane' = lane /\ result' = result
      /\ backend' = backend /\ entered' = entered
      /\ previous' = IF previous = None THEN None ELSE previous - Len(block)
  BY DEF Return
<1>2. TypeOK /\ block \in Seq(BOOLEAN) /\ Len(block) \in Nat
  BY DEF IInv, TypeOK
<1>3. previous' \in {None, 0}
  <2>1. CASE stage = "return"
    BY <1>1, <2>1, ConstantsAssumption DEF IInv, PreviousOf
  <2>2. CASE stage = "scalar" /\ index = Len(block)
    <3>1. previous = PreviousOf(block, entered, Len(block))
      BY <2>2 DEF IInv, Working, PairsAreCompared, Compared
    <3> QED
      BY <1>1, <1>2, <3>1, ConstantsAssumption DEF PreviousOf
  <2> QED
    BY <2>1, <2>2 DEF Return
<1>4. TypeOK'
  BY <1>1, <1>2, <1>3 DEF TypeOK
<1> QED
  BY <1>1, <1>3, <1>4 DEF IInv, Working

LEMMA OthersHold == ASSUME IInv, Reset \/ UNCHANGED vars PROVE IInv'
<1>1. CASE Reset
  <2>1. /\ stage = "idle" /\ previous' = None /\ stage' = stage /\ index' = index /\ lane' = lane
        /\ block' = block /\ vectors' = vectors /\ result' = result /\ backend' = backend
        /\ entered' = entered
    BY <1>1 DEF Reset, call
  <2>2. TypeOK'
    BY <2>1 DEF IInv, TypeOK
  <2> QED
    BY <2>1, <2>2 DEF IInv, Working
<1>2. CASE UNCHANGED vars
  <2>1. /\ stage' = stage /\ index' = index /\ lane' = lane /\ previous' = previous
        /\ block' = block /\ vectors' = vectors /\ result' = result /\ backend' = backend
        /\ entered' = entered
    BY <1>2 DEF vars, call
  <2>2. TypeOK' /\ Width' = Width
    BY <2>1 DEF IInv, TypeOK, Width
  <2>3. Working => (SumsAreTaken /\ PairsAreCompared)'
    BY <2>1, <2>2 DEF IInv, Working, SumsAreTaken, PairsAreCompared, Taken, Compared
  <2> QED
    BY <2>1, <2>2, <2>3 DEF IInv, Working
<1> QED
  BY <1>1, <1>2

LEMMA StepHolds == IInv /\ [Next]_vars => IInv'
<1> SUFFICES ASSUME IInv, [Next]_vars PROVE IInv'
  OBVIOUS
<1>1. CASE \E b \in Blocks, usable, descriptor \in BOOLEAN :
             Refuse(b, usable, descriptor) \/ Execute(b, usable, descriptor)
  <2>1. PICK b \in Blocks, usable \in BOOLEAN, descriptor \in BOOLEAN :
          Refuse(b, usable, descriptor) \/ Execute(b, usable, descriptor)
    BY <1>1
  <2> QED
    BY <2>1, ExecuteHolds, OthersHold DEF Refuse
<1> QED
  BY <1>1, VectorBatchHolds, CommitLaneHolds, EndVectorsHolds, ScalarSampleHolds, ReturnHolds,
     OthersHold DEF Next

(* Positions and sums are of their types in every step of a call.          *)
THEOREM TypeCorrect == Spec => []TypeOK
<1>1. IInv => TypeOK
  BY DEF IInv
<1> QED
  BY <1>1, InitHolds, StepHolds, PTL DEF Spec

-----------------------------------------------------------------------------
LEMMA SameCardinality == ASSUME NEW S PROVE Promise!Cardinality(S) = Cardinality(S)
BY DEF Promise!Cardinality, Cardinality, Promise!IsFiniteSet, IsFiniteSet

(* What a call reports when it returns.                                    *)
LEMMA ReportIsStatistics ==
  ASSUME IInv, Return
  PROVE  /\ result = Promise!Statistics(block, entered)
         /\ (previous' = 0) = Promise!LastOf(block, entered)
<1>1. /\ block' = block /\ result' = result /\ entered \in BOOLEAN
      /\ previous' = IF previous = None THEN None ELSE previous - Len(block)
      /\ block \in Seq(BOOLEAN) /\ Len(block) \in Nat
      /\ result \in [all : Times(block), valid : Times(block), count : Nat,
                     pairs : SUBSET (Int \X Int), pair_count : Nat]
  BY DEF Return, IInv, TypeOK
<1>2. CASE stage = "return"
  <2>1. /\ block = << >> /\ result = Cleared(<< >>) /\ previous = PreviousOf(block, entered, 0)
    BY <1>2 DEF IInv
  <2>2. Promise!StrongSamples(<< >>) = {} /\ Promise!Follows(<< >>, entered) = {}
    BY DEF Promise!StrongSamples, Promise!Follows
  <2>3. Cardinality({}) = 0
    BY FS_EmptySet
  <2>4. /\ Nothing(<< >>) = [n \in DOMAIN << >> |-> 1]
        /\ Nothing(<< >>) = [n \in DOMAIN << >> |-> IF << >>[n] THEN 1 ELSE 0]
    BY DEF Nothing
  <2>5. result = Promise!Statistics(block, entered)
    <3>1. Cleared(<< >>) = [all |-> Nothing(<< >>), valid |-> Nothing(<< >>), count |-> 0,
                            pairs |-> {}, pair_count |-> 0]
      BY DEF Cleared
    <3>2. {<<n - 1, n>> : n \in {}} = {}
      OBVIOUS
    <3>3. Promise!Statistics(<< >>, entered) =
            [all |-> Nothing(<< >>), valid |-> Nothing(<< >>), count |-> 0,
             pairs |-> {}, pair_count |-> 0]
      BY <2>2, <2>3, <2>4, <3>2, SameCardinality, Zenon DEF Promise!Statistics
    <3> QED
      BY <2>1, <3>1, <3>3
  <2>6. (previous' = 0) = Promise!LastOf(block, entered)
    BY <1>1, <2>1, ConstantsAssumption DEF PreviousOf, Promise!LastOf
  <2> QED
    BY <2>5, <2>6
<1>3. CASE stage = "scalar" /\ index = Len(block)
  <2>1. Taken = Len(block) /\ Compared = Len(block) /\ Working /\ SumsAreTaken /\ PairsAreCompared
    BY <1>3 DEF Taken, Compared, Working, IInv
  <2>2. Holds(result.all, result.valid, block, Len(block))
    BY <1>3, <2>1 DEF SumsAreTaken
  <2>3. result.all = [n \in DOMAIN block |-> 1]
    BY <1>1, <2>2 DEF Times, Holds
  <2>4. result.valid = [n \in DOMAIN block |-> IF block[n] THEN 1 ELSE 0]
    BY <1>1, <2>2 DEF Times, Holds
  <2>5. /\ ValidUpTo(block, Len(block)) = Promise!StrongSamples(block)
        /\ FollowsUpTo(block, entered, Len(block)) = Promise!Follows(block, entered)
    BY <1>1 DEF ValidUpTo, FollowsUpTo, Promise!StrongSamples, Promise!Follows
  <2>6. /\ result.count = Cardinality(Promise!StrongSamples(block))
        /\ result.pairs = {<<n - 1, n>> : n \in Promise!Follows(block, entered)}
        /\ result.pair_count = Cardinality(Promise!Follows(block, entered))
        /\ previous = PreviousOf(block, entered, Len(block))
    BY <2>1, <2>5 DEF SumsAreTaken, PairsAreCompared
  <2>7. result = Promise!Statistics(block, entered)
    <3>1. result = [all |-> result.all, valid |-> result.valid, count |-> result.count,
                    pairs |-> result.pairs, pair_count |-> result.pair_count]
      BY <1>1
    <3> QED
      BY <2>3, <2>4, <2>6, <3>1, SameCardinality, Zenon DEF Promise!Statistics
  <2>8. (previous' = 0) = Promise!LastOf(block, entered)
    <3>1. CASE block = << >>
      BY <1>1, <2>6, <3>1, ConstantsAssumption DEF PreviousOf, Promise!LastOf
    <3>2. CASE block # << >>
      <4>1. Len(block) # 0 /\ block[Len(block)] \in BOOLEAN
        BY <1>1, <3>2
      <4> QED
        BY <1>1, <2>6, <3>2, <4>1, ConstantsAssumption DEF PreviousOf, Promise!LastOf
    <3> QED
      BY <3>1, <3>2
  <2> QED
    BY <2>7, <2>8
<1> QED
  BY <1>2, <1>3 DEF Return

-----------------------------------------------------------------------------
(* The sums of a call and the sign that it still works are told apart.     *)
LEMMA ReportIsNotBusy ==
  ASSUME NEW b \in Seq(BOOLEAN),
         NEW sums \in [all : Times(b), valid : Times(b), count : Nat,
                       pairs : SUBSET (Int \X Int), pair_count : Nat]
  PROVE  sums # Busy
<1>1. DOMAIN b = 1 .. Len(b) /\ Len(b) \in Nat
  OBVIOUS
<1>2. Times(b) \subseteq Seq(Nat)
  <2>1. Times(b) = [1 .. Len(b) -> Nat]
    BY <1>1, Zenon DEF Times
  <2>2. [1 .. Len(b) -> Nat] \in {[1 .. n -> Nat] : n \in Nat}
    BY <1>1
  <2>3. Seq(Nat) = UNION {[1 .. n -> Nat] : n \in Nat}
    BY SeqDef, Zenon
  <2> QED
    BY <2>1, <2>2, <2>3, Zenon
<1>3. sums \in [all : Seq(Nat), valid : Seq(Nat), count : Nat, pairs : SUBSET (Int \X Int),
                pair_count : Nat]
  BY <1>2
<1> QED
  BY <1>3, ConstantsAssumption, Zenon

LEMMA InitIsPromised == Init => Promise!Init
<1> SUFFICES ASSUME Init PROVE Promise!Init
  OBVIOUS
<1>1. /\ stage = "idle" /\ previous = None /\ block = << >> /\ result = Cleared(<< >>)
  BY DEF Init
<1>2. /\ Promise!StrongSamples(<< >>) = {} /\ Promise!Follows(<< >>, FALSE) = {}
      /\ Cardinality({}) = 0
  BY FS_EmptySet DEF Promise!StrongSamples, Promise!Follows
<1>3. /\ Nothing(<< >>) = [n \in DOMAIN << >> |-> 1]
      /\ Nothing(<< >>) = [n \in DOMAIN << >> |-> IF << >>[n] THEN 1 ELSE 0]
      /\ {<<n - 1, n>> : n \in {}} = {}
  BY DEF Nothing
<1>4. Promise!Statistics(<< >>, FALSE) = Cleared(<< >>)
  BY <1>2, <1>3, SameCardinality, Zenon DEF Promise!Statistics, Cleared
<1>5. (previous = 0) = FALSE
  BY <1>1, ConstantsAssumption
<1> QED
  BY <1>1, <1>4, <1>5 DEF Promise!Init

(* A step inside of a call changes nothing that the promise speaks of.     *)
LEMMA WorkIsSilent ==
  ASSUME stage # "idle", stage' # "idle", entered' = entered, block' = block
  PROVE  UNCHANGED Promise!vars
BY DEF Promise!vars

LEMMA StepIsPromised ==
  ASSUME IInv, IInv', [Next]_vars
  PROVE  [Promise!Next]_(Promise!vars)
<1>1. result # Busy /\ result' # Busy
  <2>1. result # Busy
    BY ReportIsNotBusy DEF IInv, TypeOK
  <2>2. result' # Busy
    BY ReportIsNotBusy DEF IInv, TypeOK
  <2> QED
    BY <2>1, <2>2
<1>2. CASE \E b \in Blocks, usable, descriptor \in BOOLEAN : Execute(b, usable, descriptor)
  <2>1. PICK b \in Blocks : \E usable, descriptor \in BOOLEAN : Execute(b, usable, descriptor)
    BY <1>2
  <2>2. /\ stage = "idle" /\ stage' # "idle" /\ block' = b
        /\ entered' = (previous # None)
    BY <2>1 DEF Execute
  <2>3. entered' = (previous = 0)
    BY <2>2, ConstantsAssumption DEF IInv
  <2>4. Promise!Start
    BY <1>1, <2>1, <2>2, <2>3 DEF Promise!Start
  <2> QED
    BY <2>4 DEF Promise!Next
<1>3. CASE VectorBatch
  BY <1>3, WorkIsSilent DEF VectorBatch
<1>4. CASE CommitLane
  BY <1>4, WorkIsSilent DEF CommitLane
<1>5. CASE EndVectors
  BY <1>5, WorkIsSilent DEF EndVectors
<1>6. CASE ScalarSample
  BY <1>6, WorkIsSilent DEF ScalarSample
<1>7. CASE Return
  <2>1. /\ stage # "idle" /\ stage' = "idle" /\ block' = block /\ result' = result
    BY <1>7 DEF Return
  <2>2. /\ result = Promise!Statistics(block, entered)
        /\ (previous' = 0) = Promise!LastOf(block, entered)
    BY <1>7, ReportIsStatistics
  <2>3. Promise!Finish
    BY <2>1, <2>2 DEF Promise!Finish
  <2> QED
    BY <2>3 DEF Promise!Next
<1>8. CASE Reset
  <2>1. /\ stage = "idle" /\ stage' = "idle" /\ previous' = None /\ block' = block
        /\ result' = result
    BY <1>8 DEF Reset, call
  <2>2. (previous' = 0) = FALSE
    BY <2>1, ConstantsAssumption
  <2>3. Promise!Reset
    BY <1>1, <2>1, <2>2 DEF Promise!Reset
  <2> QED
    BY <2>3 DEF Promise!Next
<1>9. CASE UNCHANGED vars
  BY <1>9 DEF vars, call, Promise!vars
<1>10. CASE \E b \in Blocks, usable, descriptor \in BOOLEAN : Refuse(b, usable, descriptor)
  BY <1>9, <1>10 DEF Refuse
<1> QED
  BY <1>2, <1>3, <1>4, <1>5, <1>6, <1>7, <1>8, <1>9, <1>10 DEF Next

(* Every call reports what CarrierStatistics says, on every backend, for   *)
(* all blocks and over all calls and resets.                               *)
THEOREM Implements == Spec => AreStatistics
<1>1. IInv /\ IInv' /\ [Next]_vars => [Promise!Next]_(Promise!vars)
  BY StepIsPromised
<1> QED
  BY <1>1, InitHolds, StepHolds, InitIsPromised, PTL DEF Spec, AreStatistics, Promise!Spec
=============================================================================
