----------------------------- MODULE Histogram -----------------------------
(***************************************************************************)
(* The latency histogram of src/histogram.cpp: buckets at successive       *)
(* powers of two, each split into as many linear slots, so that a value    *)
(* is kept with a fixed relative error; a ceiling above which values are   *)
(* clamped and counted; the backfill that corrects for coordinated         *)
(* omission; merging; and the percentiles read from it.                    *)
(*                                                                         *)
(* Two histograms of one shape record samples and are merged.  `heard` is  *)
(* history: the samples each of them was given, in any order.              *)
(***************************************************************************)
EXTENDS Integers, Sequences, Bags
HX == INSTANCE SequencesExt
HF == INSTANCE FiniteSetsExt

CONSTANTS
  SubBits,     \* sub_bucket_count_magnitude: 2^SubBits slots to a bucket
  Highest,     \* the largest value kept as it is
  Samples,     \* values recorded
  Interval,    \* expected_interval of a corrected record
  Percents,    \* percentiles asked for
  MaxSamples   \* bound on the samples of both histograms together

ASSUME SubBitsAssumption == SubBits \in Nat \ {0}
ASSUME HighestAssumption == Highest \in Nat /\ Highest >= 2
ASSUME SamplesAssumption == Samples \subseteq Int
ASSUME IntervalAssumption == Interval \in Nat

VARIABLES hists, heard

hvars == <<hists, heard>>

SubCount == 2 ^ SubBits
Half == SubCount \div 2

-----------------------------------------------------------------------------
(***************************************************************************)
(* From a value to its slot and back.                                      *)
(***************************************************************************)
\* The bits of v, at least those of a sub-bucket index: 64 - clz(v | mask).
BitLength(v) ==
  CHOOSE n \in SubBits .. SubBits + v : v < 2 ^ n /\ (n = SubBits \/ v >= 2 ^ (n - 1))

BucketIndex(v) == BitLength(v) - SubBits
SubBucketIndex(v, bucket) == v \div 2 ^ bucket

\* A plausible slip: every bucket is given all its slots, though the lower half
\* of each is covered by the buckets before it.
WideIndex(bucket, sub) == bucket * SubCount + sub
CountsIndex(bucket, sub) == (bucket + 1) * Half + (sub - Half)

SlotOf(v) == CountsIndex(BucketIndex(v), SubBucketIndex(v, BucketIndex(v)))

\* How many buckets reach the ceiling, and how many slots they have.
BucketCount == CHOOSE n \in 1 .. Highest + 1 :
                 Highest < 2 ^ (SubBits + n - 1) /\ (n = 1 \/ Highest >= 2 ^ (SubBits + n - 2))
Slots == 0 .. (BucketCount + 1) * Half - 1

\* The smallest value of a slot.
ValueOf(slot) ==
  LET bucket == (slot \div Half) - 1
      sub == (slot % Half) + Half
  IN IF bucket < 0 THEN sub - Half ELSE sub * 2 ^ bucket

\* The values that land in the same slot as v.
LowestEquivalent(v) == SubBucketIndex(v, BucketIndex(v)) * 2 ^ BucketIndex(v)
EquivalentRange(v) ==
  2 ^ (IF SubBucketIndex(v, BucketIndex(v)) >= SubCount THEN BucketIndex(v) + 1 ELSE BucketIndex(v))
HighestEquivalent(v) == LowestEquivalent(v) + EquivalentRange(v) - 1

-----------------------------------------------------------------------------
(***************************************************************************)
(* Recording.                                                              *)
(***************************************************************************)
Untouched == Highest * 1000    \* INT64_MAX, above any value
EmptyHistogram ==
  [counts |-> [s \in Slots |-> 0], count |-> 0, min |-> Untouched, max |-> 0,
   trueMax |-> 0, overflow |-> 0]

Larger(m, n) == IF m >= n THEN m ELSE n
Smaller(m, n) == IF m <= n THEN m ELSE n
AboveZero(v) == Larger(v, 0)
UnderCeiling(v) == Smaller(AboveZero(v), Highest)

\* record_n: negative values are zero, values above the ceiling are clamped
\* after the true maximum has been taken.
RecordN(h, v, n) ==
  LET kept == UnderCeiling(v)
  IN [counts |-> [h.counts EXCEPT ![SlotOf(kept)] = @ + n],
      count |-> h.count + n,
      min |-> Smaller(h.min, kept),
      max |-> Larger(h.max, kept),
      trueMax |-> Larger(h.trueMax, AboveZero(v)),
      overflow |-> IF v > Highest THEN h.overflow + n ELSE h.overflow]

\* The samples a stall of v swallowed, one every interval.
Swallowed(v) ==
  IF Interval = 0 THEN <<>>
  ELSE [i \in 1 .. Larger((v \div Interval) - 1, 0) |-> v - i * Interval]

RecordAll(h, vs) == HX!FoldLeft(LAMBDA g, v : RecordN(g, v, 1), h, vs)
RecordCorrected(h, v) == RecordAll(h, <<v>> \o Swallowed(v))

\* merge records the lowest value of every slot of the other again, then takes
\* over its extremes and its overflow.
Merge(h, other) ==
  LET again(g, s) == IF other.counts[s] = 0 THEN g
                     ELSE RecordN(g, ValueOf(s), other.counts[s])
      all == HX!FoldLeft(again, h, [i \in 1 .. (BucketCount + 1) * Half |-> i - 1])
  IN IF other.count = 0 THEN h
     ELSE [all EXCEPT !.max = Larger(@, other.max),
                      !.trueMax = Larger(@, other.trueMax),
                      !.min = Smaller(@, other.min),
                      !.overflow = @ + other.overflow]

-----------------------------------------------------------------------------
(***************************************************************************)
(* Reading.                                                                *)
(***************************************************************************)
\* The rank of the sample asked for: rounded, at least the first.
Target(h, percent) == Larger((2 * percent * h.count + 100) \div 200, 1)

CountThrough(h, slot) == HX!FoldLeft(+, 0, [i \in 1 .. slot + 1 |-> h.counts[i - 1]])

SlotOfRank(h, rank) == HF!Min({s \in Slots : CountThrough(h, s) >= rank})

ValueAtPercentile(h, percent) ==
  IF h.count = 0 THEN 0
  ELSE LET v == ValueOf(SlotOfRank(h, Target(h, percent)))
       IN IF percent = 0 THEN LowestEquivalent(v) ELSE HighestEquivalent(v)

\* The samples counted at or below v, of which the percentage is made.
AtOrBelow(h, v) == CountThrough(h, Smaller(SlotOf(v), (BucketCount + 1) * Half - 1))

-----------------------------------------------------------------------------
HistogramInit ==
  hists = [w \in 1 .. 2 |-> EmptyHistogram] /\ heard = [w \in 1 .. 2 |-> EmptyBag]

BagOf(vs) == HX!FoldLeft(LAMBDA b, v : b (+) SetToBag({v}), EmptyBag, vs)

\* What histogram w was given more.
Hears(w, more) ==
  /\ BagCardinality(heard[1]) + BagCardinality(heard[2]) + BagCardinality(more) <= MaxSamples
  /\ heard' = [heard EXCEPT ![w] = @ (+) more]

Sample(w, v) ==
  Hears(w, SetToBag({v})) /\ hists' = [hists EXCEPT ![w] = RecordN(@, v, 1)]

SampleCorrected(w, v) ==
  /\ Hears(w, BagOf(<<v>> \o Swallowed(v)))
  /\ hists' = [hists EXCEPT ![w] = RecordCorrected(@, v)]

\* The second one's samples are added to the first one's.
MergeBoth ==
  Hears(1, heard[2]) /\ hists' = [hists EXCEPT ![1] = Merge(@, hists[2])]

Forget(w) ==
  /\ hists' = [hists EXCEPT ![w] = EmptyHistogram]
  /\ heard' = [heard EXCEPT ![w] = EmptyBag]

HistogramNext ==
  \/ \E w \in 1 .. 2, v \in Samples : Sample(w, v) \/ SampleCorrected(w, v)
  \/ MergeBoth
  \/ \E w \in 1 .. 2 : Forget(w)

-----------------------------------------------------------------------------
\* How many of the samples satisfy P.
HowMany(vs, P(_)) ==
  HF!FoldSet(LAMBDA v, n : n + vs[v], 0, {v \in DOMAIN vs : P(v)})

RankIn(vs, x) == HowMany(vs, LAMBDA v : UnderCeiling(v) <= x)

\* The sample of a rank among those sorted and clamped: what is estimated.
OrderStatistic(vs, rank) ==
  HF!Min({x \in {UnderCeiling(v) : v \in DOMAIN vs} : RankIn(vs, x) >= rank})

\* Whatever was recorded, corrected and merged, a percentile is off from the
\* exact order statistic by no more than its slot, and counts and maxima are
\* exact: nothing falls between two buckets (src/histogram.cpp:66).  The minimum
\* is in the slot of the least sample, but merging may leave it below: it records
\* the slot at its lowest value and cannot raise it after (src/histogram.cpp:197).
PercentilesAreWithinTheirSlot ==
  \A w \in 1 .. 2 :
    LET h == hists[w]
        vs == heard[w]
    IN /\ h.count = BagCardinality(vs)
       /\ h.overflow = HowMany(vs, LAMBDA v : v > Highest)
       /\ vs # EmptyBag => h.trueMax = HF!Max({AboveZero(v) : v \in DOMAIN vs})
       /\ vs # EmptyBag =>
            LET kept == {UnderCeiling(v) : v \in DOMAIN vs}
            IN /\ h.max = HF!Max(kept)
               /\ h.min <= HF!Min(kept) /\ SlotOf(h.min) = SlotOf(HF!Min(kept))
       /\ vs # EmptyBag => \A p \in Percents :
            LET exact == OrderStatistic(vs, Target(h, p))
                answer == ValueAtPercentile(h, p)
            IN /\ SlotOf(answer) = SlotOf(exact)
               /\ p > 0 => exact <= answer
       /\ vs # EmptyBag => \A v \in {u \in Samples : u >= 0} :
            AtOrBelow(h, v) = RankIn(vs, HighestEquivalent(v))
=============================================================================
