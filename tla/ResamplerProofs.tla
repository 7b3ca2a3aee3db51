---------------------------- MODULE ResamplerProofs ----------------------------
(***************************************************************************)
(* What Resampler guarantees for any rates, timestamps, durations and      *)
(* measured pairs, and any number of source frames: the timestamps are     *)
(* those of FFmpeg's fps filter, a synthesized frame is made of the two    *)
(* sources it is stamped between, and every frame shows its time.          *)
(*                                                                         *)
(* The invariant adds to the properties what they rest on: the frames made *)
(* so far end where the next one begins, that one is not before the source *)
(* it will be made of, and a copy cached under a timestamp is of the       *)
(* latest source that had it.                                              *)
(***************************************************************************)
EXTENDS Resampler, SequenceTheorems, WellFoundedInduction, TLAPS

Sources == [pts : Nat, cut : BOOLEAN, with : Nat, pair : Pairs \union {NoPair}]
Copies  == [source : Nat, pts : Nat \union {None}]
Frames  == [pts : Nat, from : Nat \X Nat, motion : Nat \X Nat, alpha : Nat]

First == Rounded(sources[1].pts)

TypeInv ==
  /\ rate \in Rates
  /\ synthesis \in {"blend", "motion"}
  /\ detector # None => detector.prev \in Nat
  /\ sources \in Seq(Sources)
  /\ prev \in Nat /\ end \in Nat
  /\ nextOut \in Nat \union {None}
  /\ emitted \in Seq(Frames) /\ pending \in Seq(Frames)
  /\ \A slot \in 1 .. 2 : padded[slot] \in Copies
  /\ phase \in {"open", "done", "failed"}

(* Until the end the last source is the one to pair the next with, and     *)
(* frames are made one after the other.                                    *)
OpenInv ==
  /\ sources = <<>> => nextOut = None /\ Made = <<>>
  /\ sources # <<>> => nextOut \in Nat
  /\ phase = "open" =>
       /\ prev = Len(sources)
       /\ sources # <<>> => nextOut = First + Len(Made) /\ end >= Last(sources).pts

(* No frame is made before it is due: while timestamps rise, all made are  *)
(* before the last source, and none after it has been skipped.             *)
RisingThroughout == \A i, j \in DOMAIN sources : i < j => sources[i].pts < sources[j].pts

DueInv ==
  Rising =>
    /\ RisingThroughout
    /\ phase = "open" /\ Len(sources) >= 1 =>
         /\ \A i \in DOMAIN Made : OutTime(Made[i].pts) < InTime(Last(sources).pts)
         /\ Len(sources) > 1 => OutTime(nextOut) >= InTime(Last(sources).pts)
         /\ Len(sources) = 1 => Made = <<>>

(* Every frame is of sources there are.                                    *)
SourcesInv ==
  \A i \in DOMAIN Made : Made[i].from[1] \in DOMAIN sources /\ Made[i].from[2] \in DOMAIN sources

(* What is cached under a timestamp is the latest source that had it.      *)
CacheInv ==
  /\ padded[2].pts # None =>
       /\ padded[2].source \in DOMAIN sources
       /\ sources[padded[2].source].pts = padded[2].pts
       /\ \A i \in DOMAIN sources : i > padded[2].source => sources[i].pts > padded[2].pts
  /\ estimated # None =>
       /\ estimated \in Nat \X Nat
       /\ padded[2].pts = estimated[2]

IInv ==
  /\ TypeInv /\ OpenInv /\ DueInv /\ SourcesInv /\ CacheInv
  /\ TimedAsFps /\ OfOnePair /\ ShowsItsTime

-------------------------------------------------------------------------------
(* Arithmetic.                                                             *)

(* What division leaves.                                                   *)
LEMMA Division ==
  ASSUME NEW n \in Nat, NEW d \in Nat \ {0}
  PROVE  /\ n \div d \in Nat
         /\ d * (n \div d) \in Nat
         /\ d * (n \div d) <= n /\ n < d * (n \div d) + d
OBVIOUS

(* Products grow with their factors.                                       *)
LEMMA TimesMonotone ==
  ASSUME NEW a \in Nat, NEW b \in Nat, NEW c \in Nat \ {0}
  PROVE  /\ a * c \in Nat
         /\ a <= b => a * c <= b * c
         /\ a < b => a * c + c <= b * c
<1>1. a * c \in Nat
  OBVIOUS
<1>2. ASSUME NEW x \in Nat PROVE a * c <= (a + x) * c
  <2>1. (a + x) * c = a * c + x * c /\ x * c \in Nat
    OBVIOUS
  <2>q. QED
    BY <2>1
<1>3. a <= b => a * c <= b * c
  <2>1. SUFFICES ASSUME a <= b PROVE a * c <= b * c
    OBVIOUS
  <2>2. b - a \in Nat /\ a + (b - a) = b
    BY <2>1
  <2>q. QED
    BY <1>2, <2>2
<1>4. a < b => a * c + c <= b * c
  <2>1. SUFFICES ASSUME a < b PROVE a * c + c <= b * c
    OBVIOUS
  <2>2. b - a - 1 \in Nat /\ b = (a + 1) + (b - a - 1)
    BY <2>1
  <2>3. (a + 1) * c = a * c + c
    OBVIOUS
  <2>4. b * c = (a + 1) * c + (b - a - 1) * c /\ (b - a - 1) * c \in Nat
    BY <2>2
  <2>q. QED
    BY <2>3, <2>4
<1>q. QED
  BY <1>1, <1>3, <1>4

(* A set of naturals that is not empty has a least element.                *)
LEMMA LeastNatural ==
  ASSUME NEW S \in SUBSET Nat, S # {}
  PROVE  \E k \in S : \A l \in S : k <= l
<1> DEFINE Less == {pair \in Nat \X Nat : pair[1] < pair[2]}
<1>1. IsWellFoundedOn(Less, Nat)
  BY NatLessThanWellFounded, Zenon DEF OpToRel
<1>2. PICK k \in S : \A l \in S : ~ (<<l, k>> \in Less)
  BY <1>1, WFMin
<1>3. ASSUME NEW l \in S PROVE k <= l
  <2>1. l < k => <<l, k>> \in Less
    OBVIOUS
  <2>q. QED
    BY <1>2, <2>1
<1>q. QED
  BY <1>3

(* A time base's numbers.                                                  *)
LEMMA RateTyped == rate \in Rates => rate.in \in Nat \ {0} /\ rate.out \in Nat \ {0}
BY ResamplerAssumption

LEMMA TimesTyped ==
  ASSUME rate \in Rates, NEW p \in Nat, NEW q \in Nat
  PROVE  /\ InTime(p) \in Nat /\ OutTime(p) \in Nat
         /\ p <= q => InTime(p) <= InTime(q) /\ OutTime(p) <= OutTime(q)
         /\ p < q => InTime(p) < InTime(q)
<1>1. rate.in \in Nat \ {0} /\ rate.out \in Nat \ {0}
  BY RateTyped
<1>2. /\ p * rate.out \in Nat
      /\ p <= q => p * rate.out <= q * rate.out
      /\ p < q => p * rate.out + rate.out <= q * rate.out
  BY <1>1, TimesMonotone
<1>3. p * rate.in \in Nat /\ (p <= q => p * rate.in <= q * rate.in)
  BY <1>1, TimesMonotone
<1>4. q * rate.out \in Nat /\ q * rate.in \in Nat
  BY <1>1
<1>q. QED
  BY <1>1, <1>2, <1>3, <1>4 DEF InTime, OutTime

(* Rounding to the output's time base is monotone, and no frame at or      *)
(* after a time is before the rounded one.                                 *)
LEMMA RoundedBounds ==
  ASSUME rate \in Rates, NEW p \in Nat
  PROVE  /\ Rounded(p) \in Nat
         /\ 2 * OutTime(Rounded(p)) <= 2 * InTime(p) + rate.in
         /\ 2 * InTime(p) < 2 * OutTime(Rounded(p)) + rate.in
<1> DEFINE n == 2 * InTime(p) + rate.in
           d == 2 * rate.in
           r == n \div d
<1>1. rate.in \in Nat \ {0} /\ InTime(p) \in Nat
  BY RateTyped, TimesTyped
<1>2. n \in Nat /\ d \in Nat \ {0}
  BY <1>1
<1> HIDE DEF n, d
<1>3. r \in Nat /\ d * r \in Nat /\ d * r <= n /\ n < d * r + d
  BY <1>2, Division
<1>4. Rounded(p) = r
  BY DEF Rounded, n, d
<1> HIDE DEF r
<1>5. d * r = 2 * OutTime(r)
  BY <1>1, <1>3 DEF OutTime, d
<1>6. OutTime(r) \in Nat
  BY <1>1, <1>3 DEF OutTime
<1>q. QED
  BY <1>1, <1>3, <1>4, <1>5, <1>6 DEF n, d

LEMMA NotBeforeRounded ==
  ASSUME rate \in Rates, NEW p \in Nat, NEW k \in Nat, OutTime(k) >= InTime(p)
  PROVE  k >= Rounded(p)
<1>1. rate.in \in Nat \ {0} /\ InTime(p) \in Nat /\ OutTime(k) \in Nat
  BY RateTyped, TimesTyped
<1>2. /\ Rounded(p) \in Nat /\ OutTime(Rounded(p)) \in Nat
      /\ 2 * OutTime(Rounded(p)) <= 2 * InTime(p) + rate.in
  BY RoundedBounds, TimesTyped
<1>3. k < Rounded(p) => OutTime(k) + rate.in <= OutTime(Rounded(p))
  BY <1>1, <1>2, TimesMonotone DEF OutTime
<1>4. ~ (k < Rounded(p))
  BY <1>1, <1>2, <1>3
<1>q. QED
  BY <1>2, <1>4

LEMMA RoundedMonotone ==
  ASSUME rate \in Rates, NEW p \in Nat, NEW q \in Nat, p <= q
  PROVE  Rounded(p) <= Rounded(q)
<1>1. /\ rate.in \in Nat \ {0} /\ InTime(p) \in Nat /\ InTime(q) \in Nat
      /\ InTime(p) <= InTime(q)
  BY RateTyped, TimesTyped
<1>2. /\ Rounded(p) \in Nat /\ OutTime(Rounded(p)) \in Nat
      /\ 2 * OutTime(Rounded(p)) <= 2 * InTime(p) + rate.in
  BY RoundedBounds, TimesTyped
<1>3. /\ Rounded(q) \in Nat /\ OutTime(Rounded(q)) \in Nat
      /\ 2 * InTime(q) < 2 * OutTime(Rounded(q)) + rate.in
  BY RoundedBounds, TimesTyped
<1>4. Rounded(q) < Rounded(p) => OutTime(Rounded(q)) + rate.in <= OutTime(Rounded(p))
  BY <1>1, <1>2, <1>3, TimesMonotone DEF OutTime
<1>q. QED
  BY <1>1, <1>2, <1>3, <1>4

(* The frames to make before a source: those from the next on that are     *)
(* before it, and the first that is not is the next then.                  *)
LEMMA UntilFacts ==
  ASSUME rate \in Rates, nextOut \in Nat, NEW p \in Nat
  PROVE  /\ Until(p) \in Nat /\ Until(p) >= nextOut
         /\ OutTime(Until(p)) >= InTime(p)
         /\ \A k \in nextOut .. Until(p) - 1 : OutTime(k) < InTime(p)
<1> DEFINE S == {k \in Nat : k >= nextOut /\ OutTime(k) >= InTime(p)}
           last == nextOut + InTime(p)
           Ends(k) == OutTime(k) >= InTime(p) /\ \A l \in nextOut .. k - 1 : OutTime(l) < InTime(p)
<1>1. InTime(p) \in Nat /\ rate.in \in Nat \ {0}
  BY TimesTyped, RateTyped
<1>2. last \in S
  <2>1. last \in Nat /\ last >= nextOut /\ last >= InTime(p)
    BY <1>1
  <2>2. last * 1 <= last * rate.in
    <3> HIDE DEF last
    <3>1. 1 * last <= rate.in * last
      <4>1. CASE last = 0
        BY <1>1, <4>1
      <4>2. CASE last # 0
        BY <1>1, <2>1, <4>2, TimesMonotone
      <4>q. QED
        BY <4>1, <4>2
    <3>q. QED
      BY <1>1, <2>1, <3>1
  <2>3. OutTime(last) >= InTime(p)
    BY <1>1, <2>1, <2>2 DEF OutTime
  <2>q. QED
    BY <2>1, <2>3
<1>3. PICK k \in S : \A l \in S : k <= l
  BY <1>2, LeastNatural
<1>4. k \in nextOut .. last /\ Ends(k)
  <2>1. k \in Nat /\ k >= nextOut /\ OutTime(k) >= InTime(p) /\ k <= last
    BY <1>2, <1>3
  <2>2. ASSUME NEW l \in nextOut .. k - 1 PROVE OutTime(l) < InTime(p)
    <3>1. l \in Nat /\ l >= nextOut /\ l < k
      BY <2>1
    <3>2. l \notin S
      BY <1>3, <2>1, <3>1
    <3>q. QED
      BY <1>1, <3>1, <3>2, TimesTyped
  <2>q. QED
    BY <1>1, <2>1, <2>2
<1>5. Until(p) \in nextOut .. last /\ Ends(Until(p))
  BY <1>4, Zenon DEF Until
<1>q. QED
  BY <1>1, <1>5

-------------------------------------------------------------------------------
(* Where between two sources a frame is.                                   *)

(* The proportion: of a frame at time t, between sources at a and b or     *)
(* before both.                                                            *)
Proportion(t, a, b) == (MaxOf(t - a, 0) * AlphaOne) \div (b - a)

LEMMA ProportionBounds ==
  ASSUME NEW a \in Nat, NEW b \in Nat, a < b, NEW t \in Nat, t < b
  PROVE  LET alpha == Proportion(t, a, b)
         IN /\ alpha \in 0 .. AlphaOne - 1
            /\ alpha * (b - a) <= MaxOf(t - a, 0) * AlphaOne
            /\ MaxOf(t - a, 0) * AlphaOne < (alpha + 1) * (b - a)
            /\ alpha > 0 => a < t
<1> DEFINE off == MaxOf(t - a, 0)
           n == off * AlphaOne
           d == b - a
           alpha == n \div d
<1>1. off \in Nat /\ off < d /\ d \in Nat \ {0} /\ (off > 0 => a < t)
  BY DEF MaxOf
<1>2. n \in Nat
  BY <1>1 DEF AlphaOne
<1> HIDE DEF off, d
<1>3. n = off * 256
  BY DEF AlphaOne
<1> HIDE DEF n
<1>4. alpha \in Nat /\ d * alpha \in Nat /\ d * alpha <= n /\ n < d * alpha + d
  BY <1>1, <1>2, Division
<1> HIDE DEF alpha
<1>5. alpha * d = d * alpha /\ (alpha + 1) * d = d * alpha + d
  BY <1>1, <1>4
<1>6. alpha < 256
  <2>1. SUFFICES ASSUME alpha >= 256 PROVE FALSE
    BY <1>4
  <2>2. 256 * d <= alpha * d
    BY <1>1, <1>4, <2>1, TimesMonotone
  <2>q. QED
    BY <1>1, <1>3, <1>4, <1>5, <2>2
<1>7. alpha > 0 => a < t
  <2>1. SUFFICES ASSUME alpha > 0, off = 0 PROVE FALSE
    BY <1>1
  <2>2. 1 * d <= alpha * d
    BY <1>1, <1>4, <2>1, TimesMonotone
  <2>q. QED
    BY <1>1, <1>3, <1>4, <1>5, <2>1, <2>2
<1>8. Proportion(t, a, b) = alpha
  BY DEF Proportion, alpha, n, off, d
<1>q. QED
  BY <1>3, <1>4, <1>5, <1>6, <1>7, <1>8 DEF AlphaOne, n, off, d

(* Up to the half the first of the two is the nearer one, from the half on *)
(* the second, and a mix of the two shows its time.                        *)
LEMMA NearerOfTwo ==
  ASSUME NEW a \in Nat, NEW b \in Nat, a < b, NEW t \in Nat, t < b
  PROVE  /\ Proportion(t, a, b) <= AlphaOne \div 2 => Nearest(t, a, b)
         /\ Proportion(t, a, b) >= AlphaOne \div 2 => a < t /\ Nearest(t, b, a)
<1> DEFINE alpha == Proportion(t, a, b)
           off == MaxOf(t - a, 0)
           d == b - a
<1>1. /\ alpha \in 0 .. 255 /\ alpha * d <= off * 256 /\ off * 256 < (alpha + 1) * d
      /\ alpha > 0 => a < t
  BY ProportionBounds DEF AlphaOne
<1>2. d \in Nat \ {0} /\ off \in Nat
  BY DEF MaxOf
<1> HIDE DEF alpha
<1>3. AlphaOne \div 2 = 128
  BY DEF AlphaOne
<1>4. ASSUME alpha <= 128 PROVE Nearest(t, a, b)
  <2>1. (alpha + 1) * d <= 129 * d
    <3>1. alpha + 1 \in Nat /\ alpha + 1 <= 129
      BY <1>1, <1>4
    <3>q. QED
      BY <1>2, <3>1, TimesMonotone
  <2>2. off * 256 < 129 * d
    BY <1>1, <1>2, <2>1
  <2>3. CASE t <= a
    BY <1>3, <2>3 DEF Nearest, Distance, MaxOf
  <2>4. CASE t > a
    <3>1. off = t - a
      BY <2>4 DEF MaxOf
    <3>2. Distance(t, a) = t - a /\ Distance(t, b) = b - t /\ Distance(a, b) = b - a
      BY <2>4 DEF Distance, MaxOf
    <3>q. QED
      BY <1>3, <2>2, <3>1, <3>2 DEF Nearest
  <2>q. QED
    BY <2>3, <2>4
<1>5. ASSUME alpha >= 128 PROVE a < t /\ Nearest(t, b, a)
  <2>1. 128 * d <= alpha * d
    BY <1>1, <1>2, <1>5, TimesMonotone
  <2>2. a < t
    BY <1>1, <1>5
  <2>3. off = t - a
    BY <2>2 DEF MaxOf
  <2>4. Distance(t, b) = b - t /\ Distance(t, a) = t - a /\ Distance(b, a) = b - a
    BY <2>2 DEF Distance, MaxOf
  <2>5. 128 * d <= off * 256
    BY <1>1, <1>2, <2>1
  <2>q. QED
    BY <1>3, <2>2, <2>3, <2>4, <2>5 DEF Nearest
<1>q. QED
  BY <1>3, <1>4, <1>5 DEF alpha

LEMMA BetweenTwo ==
  ASSUME NEW a \in Nat, NEW b \in Nat, a < b, NEW t \in Nat, t < b,
         NEW frame, frame.alpha = Proportion(t, a, b), Proportion(t, a, b) # 0
  PROVE  Between(frame, t, a, b)
<1>1. LET alpha == Proportion(t, a, b)
      IN /\ alpha \in 0 .. AlphaOne - 1
         /\ alpha * (b - a) <= MaxOf(t - a, 0) * AlphaOne
         /\ MaxOf(t - a, 0) * AlphaOne < (alpha + 1) * (b - a)
         /\ alpha > 0 => a < t
  BY ProportionBounds
<1>2. a < t
  BY <1>1
<1>3. MaxOf(t - a, 0) = t - a
  BY <1>2 DEF MaxOf
<1>q. QED
  BY <1>1, <1>2, <1>3 DEF Between

(* A source that is farther away on the same side is no nearer.            *)
LEMMA NearestIsNearest ==
  ASSUME NEW t \in Nat, NEW a \in Nat, NEW b \in Nat, NEW x \in Nat
  PROVE  /\ t <= a /\ a <= x => Nearest(t, a, x)
         /\ x <= a /\ a <= t => Nearest(t, a, x)
         /\ Nearest(t, a, b) /\ a <= b /\ t <= b /\ b <= x => Nearest(t, a, x)
         /\ Nearest(t, a, b) /\ b <= a /\ b <= t /\ x <= b => Nearest(t, a, x)
<1>1. AlphaOne \div 2 = 128
  BY DEF AlphaOne
<1>q. QED
  BY <1>1 DEF Nearest, Distance, MaxOf

-------------------------------------------------------------------------------
(* Sequences of frames.                                                    *)

(* A function on 1 .. n is a sequence of length n.                         *)
LEMMA FunctionIsSeq ==
  ASSUME NEW S, NEW n \in Nat, NEW f \in [1 .. n -> S]
  PROVE  f \in Seq(S) /\ Len(f) = n
<1>1. f \in Seq(S)
  BY SeqDef
<1>2. Len(f) \in Nat /\ 1 .. Len(f) = 1 .. n
  BY <1>1, LenProperties
<1>q. QED
  BY <1>1, <1>2

(* The parts of a concatenation.                                           *)
LEMMA Joined ==
  ASSUME NEW S, NEW a \in Seq(S), NEW b \in Seq(S)
  PROVE  /\ a \o b \in Seq(S) /\ Len(a) \in Nat /\ Len(b) \in Nat
         /\ Len(a \o b) = Len(a) + Len(b)
         /\ \A i \in 1 .. Len(a) : (a \o b)[i] = a[i]
         /\ \A i \in 1 .. Len(b) : (a \o b)[Len(a) + i] = b[i]
<1>1. Len(a) \in Nat /\ Len(b) \in Nat
  BY LenProperties
<1>2. /\ a \o b \in Seq(S) /\ Len(a \o b) = Len(a) + Len(b)
      /\ \A i \in 1 .. Len(a) + Len(b) :
           (a \o b)[i] = IF i <= Len(a) THEN a[i] ELSE b[i - Len(a)]
  BY ConcatProperties
<1> DEFINE c == a \o b
<1> HIDE DEF c
<1>3. \A i \in 1 .. Len(a) + Len(b) : c[i] = IF i <= Len(a) THEN a[i] ELSE b[i - Len(a)]
  BY <1>2 DEF c
<1>4. \A i \in 1 .. Len(a) : c[i] = a[i]
  BY <1>1, <1>3
<1>5. ASSUME NEW i \in 1 .. Len(b) PROVE c[Len(a) + i] = b[i]
  <2>1. /\ Len(a) + i \in 1 .. Len(a) + Len(b) /\ ~ (Len(a) + i <= Len(a))
        /\ (Len(a) + i) - Len(a) = i
    BY <1>1
  <2>q. QED
    BY <1>3, <2>1
<1>q. QED
  BY <1>1, <1>2, <1>4, <1>5 DEF c

(* What is released are the frames before the bound, up to the first that  *)
(* is not.                                                                 *)
LEMMA BeforeFacts ==
  ASSUME NEW frames \in Seq(Frames), NEW bound \in Nat
  PROVE  /\ Before(frames, bound) \in 0 .. Len(frames)
         /\ \A i \in 1 .. Before(frames, bound) : frames[i].pts < bound
         /\ Before(frames, bound) < Len(frames)
              => frames[Before(frames, bound) + 1].pts >= bound
<1> DEFINE S == {n \in 0 .. Len(frames) : n < Len(frames) => frames[n + 1].pts >= bound}
<1>1. Len(frames) \in Nat /\ \A i \in 1 .. Len(frames) : frames[i].pts \in Nat
  <2>1. Len(frames) \in Nat /\ \A i \in 1 .. Len(frames) : frames[i] \in Frames
    BY LenProperties, ElementOfSeq
  <2>q. QED
    BY <2>1 DEF Frames
<1>2. Len(frames) \in S /\ S \in SUBSET Nat
  BY <1>1
<1>3. PICK n \in S : \A m \in S : n <= m
  BY <1>2, LeastNatural
<1>4. ASSUME NEW i \in 1 .. n PROVE frames[i].pts < bound
  <2>1. i - 1 \in 0 .. Len(frames) /\ ~ (n <= i - 1) /\ (i - 1) + 1 = i
    BY <1>1
  <2>2. i - 1 \notin S
    BY <1>3, <2>1
  <2>3. ~ (frames[i].pts >= bound)
    BY <2>1, <2>2
  <2>4. i \in 1 .. Len(frames)
    BY <1>1
  <2>q. QED
    BY <1>1, <2>3, <2>4
<1>5. \E m \in 0 .. Len(frames) :
        /\ \A i \in 1 .. m : frames[i].pts < bound
        /\ m < Len(frames) => frames[m + 1].pts >= bound
  BY <1>4
<1>q. QED
  BY <1>5, Zenon DEF Before

LEMMA ReleaseFacts ==
  ASSUME NEW frames \in Seq(Frames), NEW bound \in Nat
  PROVE  LET n == Before(frames, bound)
         IN /\ Released(frames, bound) \in Seq(Frames) /\ Len(Released(frames, bound)) = n
            /\ \A i \in 1 .. n : Released(frames, bound)[i] = frames[i]
            /\ Kept(frames, bound) \in Seq(Frames)
            /\ Len(Kept(frames, bound)) = Len(frames) - n
            /\ \A i \in 1 .. Len(frames) - n : Kept(frames, bound)[i] = frames[n + i]
<1> DEFINE n == Before(frames, bound)
<1>1. n \in 0 .. Len(frames)
  BY BeforeFacts
<1>2. Len(frames) \in Nat /\ \A i \in 1 .. Len(frames) : frames[i] \in Frames
  BY LenProperties, ElementOfSeq
<1> HIDE DEF n
<1>3. /\ SubSeq(frames, 1, n) \in Seq(Frames)
      /\ Len(SubSeq(frames, 1, n)) = n
      /\ \A i \in 1 .. n : SubSeq(frames, 1, n)[i] = frames[i]
  <2>1. \A i \in 1 .. n : frames[i] \in Frames
    BY <1>1, <1>2
  <2>2. 1 \in Int /\ n \in Int
    BY <1>1
  <2>q. QED
    BY <1>1, <2>1, <2>2, SubSeqProperties
<1>4. /\ SubSeq(frames, n + 1, Len(frames)) \in Seq(Frames)
      /\ Len(SubSeq(frames, n + 1, Len(frames))) = Len(frames) - n
      /\ \A i \in 1 .. Len(frames) - n :
           SubSeq(frames, n + 1, Len(frames))[i] = frames[n + i]
  <2>1. \A i \in n + 1 .. Len(frames) : frames[i] \in Frames
    BY <1>1, <1>2
  <2>2. n + 1 \in Int /\ Len(frames) \in Int
    BY <1>1, <1>2
  <2>3. /\ SubSeq(frames, n + 1, Len(frames)) \in Seq(Frames)
        /\ Len(SubSeq(frames, n + 1, Len(frames)))
             = IF n + 1 <= Len(frames) THEN Len(frames) - (n + 1) + 1 ELSE 0
        /\ \A i \in 1 .. Len(frames) - (n + 1) + 1 :
             SubSeq(frames, n + 1, Len(frames))[i] = frames[(n + 1) + i - 1]
    BY <2>1, <2>2, SubSeqProperties
  <2>4. Len(frames) - (n + 1) + 1 = Len(frames) - n
    BY <1>1, <1>2
  <2>5. ASSUME NEW i \in 1 .. Len(frames) - n
        PROVE  SubSeq(frames, n + 1, Len(frames))[i] = frames[n + i]
    <3>1. (n + 1) + i - 1 = n + i
      BY <1>1, <1>2
    <3>q. QED
      BY <2>3, <2>4, <3>1
  <2>6. Len(SubSeq(frames, n + 1, Len(frames))) = Len(frames) - n
    BY <1>1, <1>2, <2>3
  <2>q. QED
    BY <2>3, <2>5, <2>6
<1>q. QED
  BY <1>3, <1>4 DEF n, Released, Kept

(* Of frames stamped one after the other, how many are before the bound.   *)
LEMMA BeforeInRow ==
  ASSUME NEW frames \in Seq(Frames), NEW bound \in Nat, NEW from \in Nat,
         \A i \in 1 .. Len(frames) : frames[i].pts = from + i - 1
  PROVE  /\ bound <= from => Before(frames, bound) = 0
         /\ from <= bound /\ bound <= from + Len(frames) => Before(frames, bound) = bound - from
         /\ bound >= from + Len(frames) => Before(frames, bound) = Len(frames)
<1> DEFINE n == Before(frames, bound)
<1>1. /\ n \in 0 .. Len(frames) /\ Len(frames) \in Nat
      /\ \A i \in 1 .. n : frames[i].pts < bound
      /\ n < Len(frames) => frames[n + 1].pts >= bound
  BY BeforeFacts, LenProperties
<1> HIDE DEF n
<1>2. n > 0 => from + n - 1 < bound
  BY <1>1
<1>3. n < Len(frames) => from + n >= bound
  <2>1. SUFFICES ASSUME n < Len(frames) PROVE from + n >= bound
    OBVIOUS
  <2>2. n + 1 \in 1 .. Len(frames) /\ from + (n + 1) - 1 = from + n
    BY <1>1, <2>1
  <2>3. frames[n + 1].pts = from + n
    BY <2>2
  <2>q. QED
    BY <1>1, <2>1, <2>3
<1>4. /\ bound <= from => n = 0
      /\ from <= bound /\ bound <= from + Len(frames) => n = bound - from
      /\ bound >= from + Len(frames) => n = Len(frames)
  BY <1>1, <1>2, <1>3
<1>q. QED
  BY <1>4 DEF n

(* The frames made, released or not, follow each other.                    *)
LEMMA MadeFacts ==
  ASSUME emitted \in Seq(Frames), pending \in Seq(Frames)
  PROVE  /\ Made \in Seq(Frames) /\ Len(Made) = Len(emitted) + Len(pending)
         /\ DOMAIN Made = 1 .. Len(emitted) + Len(pending)
         /\ Len(emitted) \in Nat /\ Len(pending) \in Nat
         /\ \A i \in 1 .. Len(emitted) : Made[i] = emitted[i]
         /\ \A i \in 1 .. Len(pending) : Made[Len(emitted) + i] = pending[i]
<1>1. /\ Made \in Seq(Frames) /\ Len(Made) = Len(emitted) + Len(pending)
      /\ Len(emitted) \in Nat /\ Len(pending) \in Nat
      /\ \A i \in 1 .. Len(emitted) : Made[i] = emitted[i]
      /\ \A i \in 1 .. Len(pending) : Made[Len(emitted) + i] = pending[i]
  BY Joined DEF Made
<1>2. DOMAIN Made = 1 .. Len(Made)
  BY <1>1, LenProperties
<1>q. QED
  BY <1>1, <1>2

LEMMA ReleasedFollow ==
  ASSUME emitted \in Seq(Frames), pending \in Seq(Frames), NEW made \in Seq(Frames),
         NEW bound \in Nat,
         emitted' = emitted \o Released(pending \o made, bound),
         pending' = Kept(pending \o made, bound)
  PROVE  /\ emitted' \in Seq(Frames) /\ pending' \in Seq(Frames)
         /\ Len(emitted') = Len(emitted) + Before(pending \o made, bound)
         /\ Len(Made') = Len(Made) + Len(made)
         /\ \A i \in 1 .. Len(Made) : Made'[i] = Made[i]
         /\ \A i \in 1 .. Len(made) : Made'[Len(Made) + i] = made[i]
<1> DEFINE all == pending \o made
           n   == Before(all, bound)
           out == Released(all, bound)
<1>1. /\ Len(emitted) \in Nat /\ Len(pending) \in Nat /\ Len(made) \in Nat
      /\ Len(Made) = Len(emitted) + Len(pending)
      /\ \A i \in 1 .. Len(emitted) : Made[i] = emitted[i]
      /\ \A i \in 1 .. Len(pending) : Made[Len(emitted) + i] = pending[i]
  BY MadeFacts, LenProperties
<1>2. /\ all \in Seq(Frames) /\ Len(all) = Len(pending) + Len(made)
      /\ \A i \in 1 .. Len(pending) : all[i] = pending[i]
      /\ \A i \in 1 .. Len(made) : all[Len(pending) + i] = made[i]
  BY Joined
<1>3. emitted' = emitted \o out /\ pending' = Kept(all, bound)
  OBVIOUS
<1> HIDE DEF all
<1>4. /\ n \in 0 .. Len(all)
      /\ out \in Seq(Frames) /\ Len(out) = n
      /\ \A i \in 1 .. n : out[i] = all[i]
      /\ pending' \in Seq(Frames) /\ Len(pending') = Len(all) - n
      /\ \A i \in 1 .. Len(all) - n : pending'[i] = all[n + i]
  <2>1. n \in 0 .. Len(all)
    BY <1>2, BeforeFacts
  <2>2. /\ out \in Seq(Frames) /\ Len(out) = n
        /\ \A i \in 1 .. n : out[i] = all[i]
        /\ Kept(all, bound) \in Seq(Frames) /\ Len(Kept(all, bound)) = Len(all) - n
        /\ \A i \in 1 .. Len(all) - n : Kept(all, bound)[i] = all[n + i]
    BY ONLY <1>2, ReleaseFacts, bound \in Nat
  <2>q. QED
    BY ONLY <1>3, <2>1, <2>2
<1> HIDE DEF n, out
<1>5. /\ emitted' \in Seq(Frames) /\ Len(emitted') = Len(emitted) + n
      /\ \A i \in 1 .. Len(emitted) : emitted'[i] = emitted[i]
      /\ \A i \in 1 .. n : emitted'[Len(emitted) + i] = all[i]
  <2>1. /\ emitted' \in Seq(Frames) /\ Len(emitted') = Len(emitted) + Len(out)
        /\ \A i \in 1 .. Len(emitted) : emitted'[i] = emitted[i]
        /\ \A i \in 1 .. Len(out) : emitted'[Len(emitted) + i] = out[i]
    <3> DEFINE e == emitted \o out
    <3>0. emitted \in Seq(Frames) /\ out \in Seq(Frames)
      BY <1>4
    <3>1. /\ e \in Seq(Frames) /\ Len(e) = Len(emitted) + Len(out)
          /\ \A i \in 1 .. Len(emitted) : e[i] = emitted[i]
          /\ \A i \in 1 .. Len(out) : e[Len(emitted) + i] = out[i]
      BY ONLY <3>0, Joined
    <3>2. emitted' = e
      BY <1>3
    <3> HIDE DEF e
    <3>q. QED
      BY ONLY <3>1, <3>2
  <2>q. QED
    BY <1>4, <2>1
<1>6. /\ Len(Made') = Len(emitted') + Len(pending')
      /\ \A i \in 1 .. Len(emitted') : Made'[i] = emitted'[i]
      /\ \A i \in 1 .. Len(pending') : Made'[Len(emitted') + i] = pending'[i]
  <2> DEFINE e == emitted'
             p == pending'
  <2>1. e \in Seq(Frames) /\ p \in Seq(Frames) /\ Made' = e \o p
    BY <1>4, <1>5 DEF Made
  <2> HIDE DEF e, p
  <2>2. /\ Len(Made') = Len(e) + Len(p)
        /\ \A i \in 1 .. Len(e) : Made'[i] = e[i]
        /\ \A i \in 1 .. Len(p) : Made'[Len(e) + i] = p[i]
    BY ONLY <2>1, Joined
  <2>q. QED
    BY <2>2 DEF e, p
<1>7. \A i \in 1 .. Len(emitted) : Made'[i] = emitted[i]
  BY <1>1, <1>4, <1>5, <1>6
<1>8. ASSUME NEW i \in 1 .. Len(all) PROVE Made'[Len(emitted) + i] = all[i]
  <2>1. CASE i <= n
    <3>1. i \in 1 .. n /\ Len(emitted) + i \in 1 .. Len(emitted')
      BY <1>1, <1>2, <1>4, <1>5, <2>1
    <3>q. QED
      BY <1>5, <1>6, <3>1
  <2>2. CASE i > n
    <3>1. /\ i - n \in 1 .. Len(pending') /\ i - n \in 1 .. Len(all) - n
          /\ Len(emitted') + (i - n) = Len(emitted) + i /\ n + (i - n) = i
      BY <1>1, <1>2, <1>4, <1>5, <2>2
    <3>2. Made'[Len(emitted') + (i - n)] = pending'[i - n]
      BY <1>6, <3>1
    <3>q. QED
      BY <1>4, <3>1, <3>2
  <2>3. i \in Int /\ n \in Int
    BY <1>1, <1>2, <1>4
  <2>q. QED
    BY ONLY <2>1, <2>2, <2>3
<1>9. Len(Made') = Len(Made) + Len(made)
  BY <1>1, <1>2, <1>4, <1>5, <1>6
<1>10. ASSUME NEW i \in 1 .. Len(Made) PROVE Made'[i] = Made[i]
  <2>1. CASE i <= Len(emitted)
    BY <1>1, <1>7, <2>1
  <2>2. CASE i > Len(emitted)
    <3>1. /\ i - Len(emitted) \in 1 .. Len(pending) /\ i - Len(emitted) \in 1 .. Len(all)
          /\ Len(emitted) + (i - Len(emitted)) = i
      BY <1>1, <1>2, <2>2
    <3>2. Made[i] = pending[i - Len(emitted)]
      BY <1>1, <3>1
    <3>3. Made'[i] = all[i - Len(emitted)]
      BY <1>8, <3>1
    <3>q. QED
      BY <1>2, <3>1, <3>2, <3>3
  <2>q. QED
    BY <1>1, <2>1, <2>2
<1>11. ASSUME NEW i \in 1 .. Len(made) PROVE Made'[Len(Made) + i] = made[i]
  <2>1. Len(pending) + i \in 1 .. Len(all) /\ Len(emitted) + (Len(pending) + i) = Len(Made) + i
    BY <1>1, <1>2
  <2>2. Made'[Len(Made) + i] = all[Len(pending) + i]
    BY <1>8, <2>1
  <2>q. QED
    BY <1>2, <2>2
<1>q. QED
  BY <1>4, <1>5, <1>9, <1>10, <1>11 DEF n, all

-------------------------------------------------------------------------------
(* What a source finds, and what becomes of the sources.                   *)

LEMMA SourcesTyped ==
  ASSUME TypeInv
  PROVE  /\ Len(sources) \in Nat /\ DOMAIN sources = 1 .. Len(sources)
         /\ sources = <<>> <=> Len(sources) = 0
         /\ \A i \in 1 .. Len(sources) : sources[i] \in Sources /\ sources[i].pts \in Nat
         /\ Last(sources) = sources[Len(sources)]
<1>1. sources \in Seq(Sources)
  BY DEF TypeInv
<1>2. Len(sources) \in Nat /\ DOMAIN sources = 1 .. Len(sources)
  BY <1>1, LenProperties
<1>3. sources = <<>> <=> Len(sources) = 0
  BY <1>1, EmptySeq
<1>4. ASSUME NEW i \in 1 .. Len(sources) PROVE sources[i] \in Sources /\ sources[i].pts \in Nat
  <2>1. sources[i] \in Sources
    BY <1>1, ElementOfSeq
  <2>q. QED
    BY <2>1 DEF Sources
<1>q. QED
  BY <1>2, <1>3, <1>4 DEF Last

LEMMA SourceAppended ==
  ASSUME TypeInv, NEW source \in Sources, sources' = Append(sources, source)
  PROVE  /\ sources' \in Seq(Sources) /\ Len(sources') = Len(sources) + 1
         /\ DOMAIN sources' = 1 .. Len(sources) + 1
         /\ \A i \in 1 .. Len(sources) : sources'[i] = sources[i]
         /\ sources'[Len(sources) + 1] = source
         /\ sources' # <<>> /\ Last(sources)' = source
         /\ Rising' => Rising
<1>1. sources \in Seq(Sources) /\ Len(sources) \in Nat
  BY LenProperties DEF TypeInv
<1>2. /\ sources' \in Seq(Sources) /\ Len(sources') = Len(sources) + 1
      /\ \A i \in 1 .. Len(sources) : sources'[i] = sources[i]
      /\ sources'[Len(sources) + 1] = source
      /\ sources' # <<>>
  BY <1>1, AppendProperties
<1>3. DOMAIN sources' = 1 .. Len(sources) + 1
  BY <1>2, LenProperties
<1>4. Last(sources)' = source
  BY <1>2 DEF Last
<1>5. Rising' => Rising
  <2>1. SUFFICES ASSUME Rising', NEW i \in 1 .. Len(sources) - 1
                 PROVE  sources[i].pts < sources[i + 1].pts
    BY DEF Rising
  <2>2. /\ i \in 1 .. Len(sources') - 1 /\ i \in 1 .. Len(sources)
        /\ i + 1 \in 1 .. Len(sources)
    BY <1>1, <1>2
  <2>3. sources'[i].pts < sources'[i + 1].pts
    BY <2>1, <2>2 DEF Rising
  <2>q. QED
    BY <1>2, <2>2, <2>3
<1>q. QED
  BY <1>2, <1>3, <1>4, <1>5

(* The detector remembers a frame's number.                                *)
LEMMA DetectorTyped ==
  ASSUME TypeInv, NEW from, NEW pair, Detects(from, pair)
  PROVE  (detector # None => detector.prev \in Nat)'
<1>1. Len(sources) + 1 \in Nat
  BY SourcesTyped
<1>2. CASE detector = None
  BY <1>2 DEF Detects
<1>3. CASE detector # None
  <2>1. detector'.prev = Len(sources) + 1
    BY <1>3 DEF Detects, Fed
  <2>q. QED
    BY <1>1, <2>1
<1>q. QED
  BY <1>2, <1>3

(* What a source that comes after the one before it finds.                 *)
LEMMA NextFinds ==
  ASSUME TypeInv, OpenInv, NEW pts \in Stamps, NEW duration \in Durations,
         NEW pair \in Pairs \union {NoPair}, PushNext(pts, duration, pair)
  PROVE  /\ pts \in Nat /\ duration \in Nat
         /\ prev = Len(sources) /\ prev \in Nat \ {0} /\ prev \in 1 .. Len(sources)
         /\ nextOut \in Nat /\ nextOut = First + Len(Made)
         /\ sources[prev].pts \in Nat /\ sources[prev].pts < pts
         /\ \E source \in Sources :
              /\ source.pts = pts /\ source.cut = CutBefore(pair)
              /\ sources' = Append(sources, source)
<1>1. pts \in Nat /\ duration \in Nat
  BY ResamplerAssumption
<1>2. /\ Len(sources) \in Nat /\ (sources = <<>> <=> Len(sources) = 0)
      /\ \A i \in 1 .. Len(sources) : sources[i].pts \in Nat
  BY SourcesTyped
<1>3. phase = "open" /\ prev # 0 /\ sources[prev].pts < pts
  BY <1>1, <1>2 DEF PushNext, OpenInv
<1>4. prev = Len(sources)
  BY <1>3 DEF OpenInv
<1>5. prev \in 1 .. Len(sources) /\ prev \in Nat \ {0} /\ sources # <<>>
  BY <1>2, <1>3, <1>4
<1>6. nextOut \in Nat /\ nextOut = First + Len(Made)
  BY <1>3, <1>5 DEF OpenInv
<1> DEFINE source == [pts |-> pts, cut |-> CutBefore(pair), pair |-> pair,
                      with |-> IF detector = None THEN 0 ELSE detector.prev]
<1>7. source \in Sources
  <2>1. (IF detector = None THEN 0 ELSE detector.prev) \in Nat
    BY DEF TypeInv
  <2>2. CutBefore(pair) \in BOOLEAN
    BY DEF CutBefore
  <2>q. QED
    BY <1>1, <2>1, <2>2 DEF Sources
<1>8. source.pts = pts /\ source.cut = CutBefore(pair) /\ sources' = Append(sources, source)
  BY DEF PushNext
<1>q. QED
  BY <1>1, <1>2, <1>3, <1>4, <1>5, <1>6, <1>7, <1>8

-------------------------------------------------------------------------------
(* Making a frame.                                                         *)

(* The motion of a pair is estimated from its sources: what is cached      *)
(* under the first one's timestamp is a copy of it, and no motion is known *)
(* under the second one's.                                                 *)
LEMMA EstimatesOfPair ==
  ASSUME TypeInv, OpenInv, CacheInv, NEW pts \in Stamps, NEW duration \in Durations,
         NEW pair \in Pairs \union {NoPair}, PushNext(pts, duration, pair),
         Estimates(prev, Len(sources) + 1)
  PROVE  /\ padded'[1].source = prev
         /\ padded'[2].source = Len(sources) + 1 /\ padded'[2].pts = pts
         /\ field' = <<prev, Len(sources) + 1>>
         /\ estimated' = <<sources[prev].pts, pts>>
<1> DEFINE j == Len(sources) + 1
           p == sources[prev].pts
           held == padded[2].source
<1>1. /\ pts \in Nat /\ prev = Len(sources) /\ prev \in 1 .. Len(sources)
      /\ p \in Nat /\ p < pts
      /\ \E source \in Sources : source.pts = pts /\ sources' = Append(sources, source)
  BY NextFinds
<1>2. sources'[prev].pts = p /\ sources'[j].pts = pts
  BY <1>1, SourceAppended
<1>3. Pair(prev, j) = <<p, pts>>
  BY <1>2 DEF Pair
<1>4. None \notin Nat /\ None \notin Nat \X Nat
  BY ResamplerAssumption
<1>5. Len(sources) \in Nat /\ DOMAIN sources = 1 .. Len(sources)
  BY SourcesTyped
<1>6. padded[2].pts # None =>
        /\ held \in 1 .. Len(sources) /\ sources[held].pts = padded[2].pts
        /\ held # prev => p > padded[2].pts
  <2>1. SUFFICES ASSUME padded[2].pts # None
                 PROVE  /\ held \in 1 .. Len(sources) /\ sources[held].pts = padded[2].pts
                        /\ held # prev => p > padded[2].pts
    OBVIOUS
  <2>2. /\ held \in 1 .. Len(sources) /\ sources[held].pts = padded[2].pts
        /\ \A i \in 1 .. Len(sources) : i > held => sources[i].pts > padded[2].pts
    BY <1>5, <2>1 DEF CacheInv
  <2>3. held # prev => prev > held
    BY <1>1, <1>5, <2>2
  <2>q. QED
    BY <1>1, <2>2, <2>3
<1>7. padded[2].pts = p => held = prev
  BY <1>1, <1>4, <1>6
<1>8. estimated # <<p, pts>>
  <2>1. SUFFICES ASSUME estimated = <<p, pts>> PROVE FALSE
    OBVIOUS
  <2>2. estimated # None /\ estimated[2] = pts
    BY <1>1, <1>4, <2>1
  <2>3. padded[2].pts = pts
    BY <2>2 DEF CacheInv
  <2>4. padded[2].pts # None
    BY <1>1, <1>4, <2>3
  <2>5. held = prev => pts = p
    BY <1>6, <2>3, <2>4
  <2>q. QED
    BY <1>1, <1>6, <2>3, <2>4, <2>5
<1>9. /\ padded' = Prepared(prev, j) /\ estimated' = <<p, pts>>
      /\ field' = <<padded'[1].source, padded'[2].source>>
  BY <1>3, <1>8 DEF Estimates
<1>10. padded'[2] = [source |-> j, pts |-> pts]
  BY <1>2, <1>9 DEF Prepared
<1>11. padded'[1] = IF padded[2].pts = p THEN padded[2] ELSE [source |-> prev, pts |-> p]
  BY <1>2, <1>9 DEF Prepared
<1>12. padded'[1].source = prev
  BY <1>7, <1>11
<1>q. QED
  BY <1>9, <1>10, <1>12

(* What is made of the two sources for a time before the second: a mix of  *)
(* both, or a copy of the nearer one.                                      *)
MadeOf(frame, k, j, cut, a, b) ==
  /\ frame \in Frames /\ frame.pts = k /\ frame.motion = frame.from
  /\ \/ /\ frame.from[1] = prev /\ frame.from[2] = j
        /\ ~ cut /\ Between(frame, OutTime(k), a, b)
     \/ /\ frame.from[1] = prev /\ frame.from[2] = prev
        /\ Nearest(OutTime(k), a, b)
     \/ /\ frame.from[1] = j /\ frame.from[2] = j
        /\ Nearest(OutTime(k), b, a) /\ a < OutTime(k)

LEMMA OutputFacts ==
  ASSUME TypeInv, OpenInv, CacheInv, NEW pts \in Stamps, NEW duration \in Durations,
         NEW pair \in Pairs \union {NoPair}, PushNext(pts, duration, pair),
         NEW k \in nextOut .. Until(pts) - 1
  PROVE  MadeOf(Output(prev, Len(sources) + 1, k, CutBefore(pair)), k, Len(sources) + 1,
                CutBefore(pair), InTime(sources[prev].pts), InTime(pts))
<1> DEFINE j   == Len(sources) + 1
           cut == CutBefore(pair)
           a   == InTime(sources[prev].pts)
           b   == InTime(pts)
           t   == OutTime(k)
           alpha == Alpha(prev, j, k)
           it  == Output(prev, j, k, cut)
           chosen == Repeated(prev, j, alpha, cut)
<1>1. /\ pts \in Nat /\ prev = Len(sources) /\ prev \in Nat \ {0} /\ prev \in 1 .. Len(sources)
      /\ nextOut \in Nat
      /\ sources[prev].pts \in Nat /\ sources[prev].pts < pts
      /\ \E source \in Sources : source.pts = pts /\ sources' = Append(sources, source)
  BY NextFinds
<1>2. sources'[prev] = sources[prev] /\ sources'[j].pts = pts
  BY <1>1, SourceAppended
<1>3. rate \in Rates /\ synthesis \in {"blend", "motion"}
  BY DEF TypeInv
<1>4. k \in Nat /\ k < Until(pts) /\ k >= nextOut /\ t < b
  <2>1. Until(pts) \in Nat /\ nextOut \in Nat
    BY <1>1, <1>3, UntilFacts
  <2>2. t < b
    BY <1>1, <1>3, UntilFacts
  <2> HIDE DEF t, b
  <2>3. k \in nextOut .. Until(pts) - 1
    OBVIOUS
  <2>q. QED
    BY ONLY <2>1, <2>2, <2>3
<1>5. a \in Nat /\ b \in Nat /\ a < b /\ t \in Nat
  BY <1>1, <1>3, <1>4, TimesTyped
<1>6. alpha = Proportion(t, a, b)
  BY <1>2 DEF Alpha, Proportion
<1>7. alpha \in Nat
  <2> HIDE DEF a, b, t, alpha
  <2>1. Proportion(t, a, b) \in 0 .. AlphaOne - 1
    BY ONLY <1>4, <1>5, ProportionBounds
  <2>q. QED
    BY <1>6, <2>1 DEF AlphaOne
<1>8. j \in Nat \ {0} /\ j # prev
  BY <1>1
<1>9. /\ alpha <= 128 => Nearest(t, a, b)
      /\ alpha >= 128 => a < t /\ Nearest(t, b, a)
  BY <1>4, <1>5, <1>6, NearerOfTwo DEF AlphaOne
<1> HIDE DEF cut, a, b, t, alpha, j
<1>10. ASSUME NEW i \in {prev, j}, chosen = i, i = prev => alpha <= 128, i = j => alpha >= 128
       PROVE  MadeOf(it, k, j, cut, a, b)
  <2>1. i # 0 /\ i \in Nat
    BY <1>1, <1>8, <1>10
  <2>2. it = Copy(i, k)
    BY <1>10, <2>1 DEF Output, alpha, j
  <2>3. /\ it = [pts |-> k, from |-> <<i, i>>, motion |-> <<i, i>>, alpha |-> 0]
    BY <2>2 DEF Copy
  <2>4. it \in Frames
    BY <1>4, <2>1, <2>3 DEF Frames
  <2>5. it.pts = k /\ it.motion = it.from /\ it.from[1] = i /\ it.from[2] = i
    BY <2>3
  <2> HIDE DEF it
  <2>q. QED
    BY <1>9, <1>10, <2>4, <2>5 DEF MadeOf, t
<1>11. ASSUME chosen = 0
       PROVE  MadeOf(it, k, j, cut, a, b)
  <2>1. it = Mixed(prev, j, k)
    BY <1>11 DEF Output, alpha, j
  <2>2. ~ cut /\ alpha # 0
    BY <1>1, <1>8, <1>11 DEF Repeated
  <2>3. it = [pts |-> k, from |-> <<prev, j>>, motion |-> <<prev, j>>, alpha |-> alpha]
    <3>1. CASE synthesis = "motion"
      <4>1. Synthesizes(j, pts, cut)
        BY <1>11 DEF Synthesizes, alpha
      <4>2. Estimates(prev, j)
        BY <3>1, <4>1 DEF PushNext, cut, j
      <4>3. /\ padded'[1].source = prev /\ padded'[2].source = j
            /\ field' = <<prev, j>>
        BY <4>2, EstimatesOfPair DEF j
      <4>q. QED
        BY <2>1, <3>1, <4>3 DEF Mixed, alpha
    <3>2. CASE synthesis # "motion"
      BY <2>1, <3>2 DEF Mixed, alpha
    <3>q. QED
      BY <3>1, <3>2
  <2>4. it \in Frames
    BY <1>1, <1>4, <1>7, <1>8, <2>3 DEF Frames
  <2>5. /\ it.pts = k /\ it.motion = it.from /\ it.from[1] = prev /\ it.from[2] = j
        /\ it.alpha = Proportion(t, a, b)
    BY <1>6, <2>3
  <2> HIDE DEF it
  <2>6. Between(it, t, a, b)
    BY <1>4, <1>5, <1>6, <2>2, <2>5, BetweenTwo
  <2>q. QED
    BY <2>2, <2>4, <2>5, <2>6 DEF MadeOf, t
<1>12. \/ chosen = 0
       \/ chosen = prev /\ alpha <= 128
       \/ chosen = j /\ alpha >= 128
  BY <1>7 DEF Repeated, AlphaOne, BlendStart, BlendEnd
<1>13. MadeOf(it, k, j, cut, a, b)
  BY <1>8, <1>10, <1>11, <1>12
<1>q. QED
  BY <1>13 DEF it, j, cut, a, b

-------------------------------------------------------------------------------
(* A source that comes after the one before it.                            *)

(* The frames made of it, and where they go.                               *)
LEMMA NextMakes ==
  ASSUME TypeInv, OpenInv, CacheInv, NEW pts \in Stamps, NEW duration \in Durations,
         NEW pair \in Pairs \union {NoPair}, PushNext(pts, duration, pair)
  PROVE  LET bound == Rounded(pts)
             made  == MadeFor(Len(sources) + 1, pts, CutBefore(pair))
         IN /\ made \in Seq(Frames) /\ Len(made) = Until(pts) - nextOut
            /\ \A n \in 1 .. Len(made) :
                 MadeOf(made[n], nextOut + n - 1, Len(sources) + 1, CutBefore(pair),
                        InTime(sources[prev].pts), InTime(pts))
            /\ emitted' \in Seq(Frames) /\ pending' \in Seq(Frames)
            /\ Len(emitted') = Len(emitted) + Before(pending \o made, bound)
            /\ Len(Made') = Len(Made) + Len(made)
            /\ \A i \in 1 .. Len(Made) : Made'[i] = Made[i]
            /\ \A i \in 1 .. Len(made) : Made'[Len(Made) + i] = made[i]
<1> DEFINE j     == Len(sources) + 1
           cut   == CutBefore(pair)
           bound == Rounded(pts)
           made  == MadeFor(j, pts, cut)
           count == Until(pts) - nextOut
           Is(frame, k) == MadeOf(frame, k, j, cut, InTime(sources[prev].pts), InTime(pts))
<1>1. pts \in Nat /\ nextOut \in Nat /\ rate \in Rates
  BY NextFinds DEF TypeInv
<1>2. Until(pts) \in Nat /\ Until(pts) >= nextOut /\ count \in Nat
  BY <1>1, UntilFacts
<1>3. ASSUME NEW n \in 1 .. count
      PROVE  Is(Output(prev, j, nextOut + n - 1, cut), nextOut + n - 1)
  <2>1. nextOut + n - 1 \in nextOut .. Until(pts) - 1
    BY <1>1, <1>2
  <2>q. QED
    BY <2>1, OutputFacts
<1>4. made = [n \in 1 .. count |-> Output(prev, j, nextOut + n - 1, cut)]
  BY DEF MadeFor
<1>5. emitted' = emitted \o Released(pending \o made, bound) /\ pending' = Kept(pending \o made, bound)
  BY DEF PushNext, Bound
<1>6. bound \in Nat
  BY <1>1, RoundedBounds
<1> HIDE DEF j, cut, bound, made, count, Is
<1>7. \A n \in 1 .. count : made[n] = Output(prev, j, nextOut + n - 1, cut)
  BY <1>4
<1>8. \A n \in 1 .. count : Is(made[n], nextOut + n - 1)
  BY <1>3, <1>7
<1>9. made \in Seq(Frames) /\ Len(made) = count
  <2>1. \A n \in 1 .. count : made[n] \in Frames
    BY <1>8 DEF Is, MadeOf
  <2>2. made \in [1 .. count -> Frames]
    BY <1>4, <1>7, <2>1
  <2>q. QED
    BY <1>2, <2>2, FunctionIsSeq
<1>10. emitted \in Seq(Frames) /\ pending \in Seq(Frames)
  BY DEF TypeInv
<1>11. /\ emitted' \in Seq(Frames) /\ pending' \in Seq(Frames)
       /\ Len(emitted') = Len(emitted) + Before(pending \o made, bound)
       /\ Len(Made') = Len(Made) + Len(made)
       /\ \A i \in 1 .. Len(Made) : Made'[i] = Made[i]
       /\ \A i \in 1 .. Len(made) : Made'[Len(Made) + i] = made[i]
  BY <1>5, <1>6, <1>9, <1>10, ReleasedFollow
<1>q. QED
  BY <1>8, <1>9, <1>11 DEF Is, made, count, j, cut, bound

LEMMA NextKeepsTypes ==
  ASSUME TypeInv, OpenInv, CacheInv, NEW pts \in Stamps, NEW duration \in Durations,
         NEW pair \in Pairs \union {NoPair}, PushNext(pts, duration, pair)
  PROVE  TypeInv'
<1>1. /\ pts \in Nat /\ duration \in Nat /\ nextOut \in Nat
      /\ \E source \in Sources : sources' = Append(sources, source)
  BY NextFinds
<1>2. sources' \in Seq(Sources) /\ Len(sources) + 1 \in Nat
  BY <1>1, SourceAppended, SourcesTyped
<1>3. emitted' \in Seq(Frames) /\ pending' \in Seq(Frames)
  BY NextMakes
<1>4. (detector # None => detector.prev \in Nat)'
  BY DetectorTyped DEF PushNext
<1>5. nextOut' \in Nat
  BY <1>1, UntilFacts DEF PushNext, TypeInv
<1>6. /\ rate' = rate /\ synthesis' = synthesis /\ phase' = phase
      /\ end' = pts + duration /\ prev' = Len(sources) + 1
  BY DEF PushNext
<1>7. \A slot \in 1 .. 2 : padded'[slot] \in Copies
  <2> DEFINE j == Len(sources) + 1
  <2>1. CASE UNCHANGED cache
    BY <2>1 DEF cache, TypeInv
  <2>2. CASE padded' = Prepared(prev, j)
    <3>1. /\ prev \in Nat /\ j \in Nat /\ sources'[prev].pts \in Nat /\ sources'[j].pts \in Nat
      BY <1>1, NextFinds, SourceAppended, SourcesTyped
    <3>2. padded[2] \in Copies
      BY DEF TypeInv
    <3>3. /\ [source |-> prev, pts |-> sources'[prev].pts] \in Copies
          /\ [source |-> j, pts |-> sources'[j].pts] \in Copies
      BY <3>1 DEF Copies
    <3> HIDE DEF j
    <3>4. padded'[1] \in Copies /\ padded'[2] \in Copies
      BY <2>2, <3>2, <3>3 DEF Prepared
    <3>q. QED
      BY <3>4
  <2>q. QED
    BY <2>1, <2>2 DEF PushNext, Estimates
<1>q. QED
  BY <1>1, <1>2, <1>3, <1>4, <1>5, <1>6, <1>7 DEF TypeInv

LEMMA NextKeepsOpen ==
  ASSUME TypeInv, OpenInv, CacheInv, NEW pts \in Stamps, NEW duration \in Durations,
         NEW pair \in Pairs \union {NoPair}, PushNext(pts, duration, pair)
  PROVE  OpenInv'
<1> DEFINE made == MadeFor(Len(sources) + 1, pts, CutBefore(pair))
<1>1. /\ pts \in Nat /\ duration \in Nat /\ nextOut \in Nat /\ nextOut = First + Len(Made)
      /\ prev \in 1 .. Len(sources) /\ prev = Len(sources)
      /\ \E source \in Sources : source.pts = pts /\ sources' = Append(sources, source)
  BY NextFinds
<1>2. /\ sources' # <<>> /\ sources'[1] = sources[1] /\ Len(sources') = Len(sources) + 1
      /\ Last(sources)'.pts = pts
  BY <1>1, SourceAppended
<1>3. Len(made) = Until(pts) - nextOut /\ Len(Made') = Len(Made) + Len(made)
  BY NextMakes
<1>4. Len(Made) \in Nat
  BY MadeFacts, LenProperties DEF TypeInv
<1>5. /\ rate' = rate /\ nextOut' = Until(pts) /\ end' = pts + duration
      /\ prev' = Len(sources) + 1
  BY DEF PushNext
<1>6. Until(pts) \in Nat
  BY <1>1, UntilFacts DEF TypeInv
<1>7. First' = First
  BY <1>2, <1>5 DEF First, Rounded, InTime
<1>8. First \in Nat
  <2>1. Len(sources) \in Nat /\ \A i \in 1 .. Len(sources) : sources[i].pts \in Nat
    BY SourcesTyped
  <2>2. 1 \in 1 .. Len(sources)
    BY <1>1, <2>1
  <2>3. sources[1].pts \in Nat /\ rate \in Rates
    BY <2>1, <2>2 DEF TypeInv
  <2>q. QED
    BY <2>3, RoundedBounds DEF First
<1> HIDE DEF made
<1>9. nextOut' = First' + Len(Made')
  <2>1. nextOut \in Nat /\ nextOut = First + Len(Made)
    BY <1>1
  <2>2. Len(made) \in Int /\ nextOut' = nextOut + Len(made)
    BY ONLY <1>3, <1>5, <1>6, <2>1
  <2>3. First' + Len(Made') = First + (Len(Made) + Len(made))
    BY ONLY <1>3, <1>7
  <2>4. First + (Len(Made) + Len(made)) = (First + Len(Made)) + Len(made)
    BY ONLY <1>4, <1>8, <2>2
  <2>q. QED
    BY ONLY <2>1, <2>2, <2>3, <2>4
<1>10. end' >= Last(sources)'.pts
  BY <1>1, <1>2, <1>5
<1>q. QED
  BY <1>2, <1>5, <1>6, <1>9, <1>10 DEF OpenInv

(* Where the timestamps rise, they rise throughout.                        *)
LEMMA RisesOn ==
  ASSUME TypeInv, DueInv, Rising', NEW source \in Sources,
         sources' = Append(sources, source),
         sources # <<>> => Last(sources).pts < source.pts
  PROVE  RisingThroughout /\ RisingThroughout'
<1>1. /\ Len(sources) \in Nat /\ DOMAIN sources = 1 .. Len(sources)
      /\ sources = <<>> <=> Len(sources) = 0
      /\ \A i \in 1 .. Len(sources) : sources[i].pts \in Nat
      /\ Last(sources) = sources[Len(sources)]
  BY SourcesTyped
<1>2. /\ DOMAIN sources' = 1 .. Len(sources) + 1 /\ (Rising' => Rising)
      /\ \A i \in 1 .. Len(sources) : sources'[i] = sources[i]
      /\ sources'[Len(sources) + 1] = source
  BY SourceAppended
<1>3. source.pts \in Nat
  BY DEF Sources
<1>4. RisingThroughout
  BY <1>2 DEF DueInv
<1>5. ASSUME NEW x \in 1 .. Len(sources) + 1, NEW y \in 1 .. Len(sources) + 1, x < y
      PROVE  sources'[x].pts < sources'[y].pts
  <2>1. x \in 1 .. Len(sources) /\ sources'[x] = sources[x]
    BY <1>1, <1>2, <1>5
  <2>2. CASE y \in 1 .. Len(sources)
    BY <1>1, <1>2, <1>4, <1>5, <2>1, <2>2 DEF RisingThroughout
  <2>3. CASE y = Len(sources) + 1
    <3>1. Len(sources) \in 1 .. Len(sources) /\ sources # <<>>
      BY <1>1, <2>1
    <3>2. sources[x].pts <= sources[Len(sources)].pts
      <4>1. CASE x = Len(sources)
        BY <1>1, <3>1, <4>1
      <4>2. CASE x < Len(sources)
        BY <1>1, <1>4, <2>1, <3>1, <4>2 DEF RisingThroughout
      <4>3. x = Len(sources) \/ x < Len(sources)
        <5>1. Len(sources) \in Nat
          BY <1>1
        <5>2. x \in 1 .. Len(sources)
          BY <2>1
        <5>q. QED
          BY ONLY <5>1, <5>2
      <4>q. QED
        BY <4>1, <4>2, <4>3
    <3>3. sources[Len(sources)].pts < source.pts
      BY <1>1, <3>1
    <3>q. QED
      BY <1>1, <1>2, <1>3, <2>1, <2>3, <3>1, <3>2, <3>3
  <2>q. QED
    BY <1>1, <2>2, <2>3
<1>q. QED
  BY <1>2, <1>4, <1>5 DEF RisingThroughout

LEMMA NextKeepsDue ==
  ASSUME TypeInv, OpenInv, CacheInv, DueInv, NEW pts \in Stamps, NEW duration \in Durations,
         NEW pair \in Pairs \union {NoPair}, PushNext(pts, duration, pair)
  PROVE  DueInv'
<1> DEFINE made == MadeFor(Len(sources) + 1, pts, CutBefore(pair))
<1>0. SUFFICES ASSUME Rising' PROVE DueInv'
  BY DEF DueInv
<1>1. /\ pts \in Nat /\ nextOut \in Nat
      /\ prev \in 1 .. Len(sources) /\ prev = Len(sources)
      /\ sources[prev].pts \in Nat /\ sources[prev].pts < pts
  BY NextFinds
<1>2. PICK source \in Sources : source.pts = pts /\ sources' = Append(sources, source)
  BY NextFinds
<1>3. /\ Len(sources) \in Nat /\ sources # <<>> /\ Last(sources) = sources[prev]
  BY <1>1, SourcesTyped
<1>4. /\ RisingThroughout /\ RisingThroughout'
  BY <1>0, <1>1, <1>2, <1>3, RisesOn
<1>5. /\ Len(sources') = Len(sources) + 1 /\ Last(sources)'.pts = pts /\ Rising
  BY <1>0, <1>2, SourceAppended
<1>6. /\ Len(made) = Until(pts) - nextOut /\ Len(Made') = Len(Made) + Len(made)
      /\ \A i \in 1 .. Len(Made) : Made'[i] = Made[i]
      /\ \A i \in 1 .. Len(made) : Made'[Len(Made) + i] = made[i]
      /\ \A n \in 1 .. Len(made) : made[n].pts = nextOut + n - 1
      /\ emitted' \in Seq(Frames) /\ pending' \in Seq(Frames)
  BY NextMakes DEF MadeOf
<1>7. rate' = rate /\ nextOut' = Until(pts) /\ phase' = "open" /\ phase = "open"
  BY DEF PushNext
<1>8. /\ Until(pts) \in Nat /\ Until(pts) >= nextOut
      /\ OutTime(Until(pts)) >= InTime(pts)
      /\ \A k \in nextOut .. Until(pts) - 1 : OutTime(k) < InTime(pts)
  BY <1>1, UntilFacts DEF TypeInv
<1>9. Made \in Seq(Frames) /\ DOMAIN Made = 1 .. Len(Made) /\ Len(Made) \in Nat
  BY MadeFacts, LenProperties DEF TypeInv
<1>10. DOMAIN Made' = 1 .. Len(Made')
  <2> DEFINE e == emitted'
             p == pending'
  <2>1. Made' = e \o p /\ e \in Seq(Frames) /\ p \in Seq(Frames)
    BY <1>6 DEF Made
  <2> HIDE DEF e, p
  <2>2. e \o p \in Seq(Frames)
    BY <2>1, Joined
  <2>q. QED
    BY <2>1, <2>2, LenProperties
<1> HIDE DEF made
<1>11. \A i \in 1 .. Len(Made) : Made[i].pts \in Nat /\ OutTime(Made[i].pts) < InTime(sources[prev].pts)
  <2>1. \A i \in 1 .. Len(Made) : Made[i] \in Frames
    BY <1>9, ElementOfSeq
  <2>2. \A i \in 1 .. Len(Made) : OutTime(Made[i].pts) < InTime(sources[prev].pts)
    BY <1>1, <1>3, <1>5, <1>7, <1>9 DEF DueInv
  <2>q. QED
    BY <2>1, <2>2 DEF Frames
<1>12. InTime(sources[prev].pts) \in Nat /\ InTime(pts) \in Nat /\ InTime(sources[prev].pts) < InTime(pts)
  BY <1>1, TimesTyped DEF TypeInv
<1>13. ASSUME NEW i \in DOMAIN Made' PROVE OutTime(Made'[i].pts) < InTime(pts)
  <2>1. CASE i \in 1 .. Len(Made)
    <3>1. Made'[i] = Made[i] /\ Made[i].pts \in Nat /\ OutTime(Made[i].pts) < InTime(sources[prev].pts)
      BY <1>6, <1>11, <2>1
    <3>2. OutTime(Made[i].pts) \in Nat
      BY <3>1, TimesTyped DEF TypeInv
    <3>q. QED
      BY <1>12, <3>1, <3>2
  <2>2. CASE i \notin 1 .. Len(Made)
    <3>1. i - Len(Made) \in 1 .. Len(made) /\ Len(Made) + (i - Len(Made)) = i
      <4>1. Len(made) \in Nat /\ nextOut \in Nat
        BY <1>1, <1>6, <1>8
      <4>2. i \in 1 .. Len(Made) + Len(made) /\ i \notin 1 .. Len(Made)
        BY <1>6, <1>10, <2>2
      <4>q. QED
        BY ONLY <1>9, <4>1, <4>2
    <3>2. Made'[i].pts = nextOut + (i - Len(Made)) - 1
      BY <1>6, <3>1
    <3>3. nextOut + (i - Len(Made)) - 1 \in nextOut .. Until(pts) - 1
      <4>1. \A n \in 1 .. Until(pts) - nextOut : nextOut + n - 1 \in nextOut .. Until(pts) - 1
        BY <1>1, <1>8
      <4>q. QED
        BY <1>6, <3>1, <4>1
    <3>q. QED
      BY <1>8, <3>2, <3>3
  <2>q. QED
    BY <2>1, <2>2
<1>15. /\ \A i \in DOMAIN Made' : (OutTime(Made[i].pts) < InTime(Last(sources).pts))'
       /\ (OutTime(nextOut) >= InTime(Last(sources).pts))'
  BY <1>5, <1>7, <1>8, <1>13 DEF OutTime, InTime
<1>16. Len(sources') > 1 /\ Len(sources') # 1
  BY <1>1, <1>3, <1>5
<1>17. /\ \A i \in DOMAIN Made' : OutTime(Made[i].pts)' < InTime(Last(sources).pts)'
       /\ OutTime(nextOut)' >= InTime(Last(sources).pts)'
  BY <1>15
<1>q. QED
  BY <1>4, <1>16, <1>17 DEF DueInv

(* Every frame is an old one, or made of the two sources.                  *)
LEMMA OldOrNew ==
  ASSUME TypeInv, OpenInv, CacheInv, NEW pts \in Stamps, NEW duration \in Durations,
         NEW pair \in Pairs \union {NoPair}, PushNext(pts, duration, pair),
         NEW i \in DOMAIN Made'
  PROVE  \/ i \in DOMAIN Made /\ Made'[i] = Made[i]
         \/ \E k \in nextOut .. Until(pts) - 1 :
              /\ k = First + i - 1
              /\ MadeOf(Made'[i], k, Len(sources) + 1, CutBefore(pair),
                        InTime(sources[prev].pts), InTime(pts))
<1> DEFINE made == MadeFor(Len(sources) + 1, pts, CutBefore(pair))
           Is(frame, k) == MadeOf(frame, k, Len(sources) + 1, CutBefore(pair),
                                  InTime(sources[prev].pts), InTime(pts))
<1>1. /\ made \in Seq(Frames)
      /\ Len(made) = Until(pts) - nextOut /\ Len(Made') = Len(Made) + Len(made)
      /\ \A n \in 1 .. Len(Made) : Made'[n] = Made[n]
      /\ \A n \in 1 .. Len(made) : Made'[Len(Made) + n] = made[n]
      /\ \A n \in 1 .. Len(made) : Is(made[n], nextOut + n - 1)
      /\ emitted' \in Seq(Frames) /\ pending' \in Seq(Frames)
  BY NextMakes
<1> HIDE DEF made, Is
<1>2. DOMAIN Made = 1 .. Len(Made) /\ Len(Made) \in Nat
  BY MadeFacts, LenProperties DEF TypeInv
<1>3. DOMAIN Made' = 1 .. Len(Made')
  <2> DEFINE e == emitted'
             p == pending'
  <2>1. Made' = e \o p /\ e \in Seq(Frames) /\ p \in Seq(Frames)
    BY <1>1 DEF Made
  <2> HIDE DEF e, p
  <2>2. e \o p \in Seq(Frames)
    BY <2>1, Joined
  <2>q. QED
    BY <2>1, <2>2, LenProperties
<1>4. /\ nextOut \in Nat /\ nextOut = First + Len(Made)
      /\ Until(pts) \in Nat /\ Until(pts) >= nextOut
  BY NextFinds, UntilFacts, ResamplerAssumption DEF TypeInv
<1>5. First \in Int
  <2>1. Len(sources) \in Nat /\ \A n \in 1 .. Len(sources) : sources[n].pts \in Nat
    BY SourcesTyped
  <2>2. 1 \in 1 .. Len(sources)
    BY <2>1, NextFinds
  <2>3. sources[1].pts \in Nat /\ rate \in Rates
    BY <2>1, <2>2 DEF TypeInv
  <2>q. QED
    BY <2>3, RoundedBounds DEF First
<1>6. CASE i \in 1 .. Len(Made)
  BY <1>1, <1>2, <1>6
<1>7. CASE i \notin 1 .. Len(Made)
  <2> DEFINE n == i - Len(Made)
  <2>1. n \in 1 .. Len(made) /\ Len(Made) + n = i
    <3>1. Len(made) \in Nat
      BY <1>1, LenProperties
    <3>q. QED
      BY <1>1, <1>2, <1>3, <1>7, <3>1
  <2>2. Is(Made'[i], nextOut + n - 1)
    <3> HIDE DEF n
    <3>1. Made'[i] = made[n]
      BY <1>1, <2>1
    <3>q. QED
      BY <1>1, <2>1, <3>1
  <2>3. nextOut + n - 1 \in nextOut .. Until(pts) - 1
    <3> HIDE DEF n
    <3>1. n \in 1 .. Until(pts) - nextOut
      BY <1>1, <2>1
    <3>q. QED
      BY ONLY <1>4, <3>1
  <2>4. nextOut + n - 1 = First + i - 1
    <3> HIDE DEF n
    <3>q. QED
      BY <1>2, <1>3, <1>4, <1>5, <2>1
  <2>q. QED
    BY <2>2, <2>3, <2>4 DEF Is
<1>q. QED
  BY <1>6, <1>7

LEMMA NextKeepsSources ==
  ASSUME TypeInv, OpenInv, CacheInv, SourcesInv, OfOnePair,
         NEW pts \in Stamps, NEW duration \in Durations,
         NEW pair \in Pairs \union {NoPair}, PushNext(pts, duration, pair)
  PROVE  SourcesInv' /\ OfOnePair'
<1> DEFINE j == Len(sources) + 1
<1>1. /\ pts \in Nat /\ prev = Len(sources) /\ prev \in 1 .. Len(sources)
      /\ sources[prev].pts \in Nat /\ sources[prev].pts < pts
  BY NextFinds
<1>2. PICK source \in Sources :
        source.pts = pts /\ source.cut = CutBefore(pair) /\ sources' = Append(sources, source)
  BY NextFinds
<1>3. /\ DOMAIN sources = 1 .. Len(sources) /\ DOMAIN sources' = 1 .. j /\ Len(sources) \in Nat
      /\ \A i \in 1 .. Len(sources) : sources'[i] = sources[i]
      /\ sources'[j].pts = pts /\ sources'[j].cut = CutBefore(pair)
  BY <1>2, SourceAppended, SourcesTyped
<1>4. ASSUME NEW i \in DOMAIN Made'
      PROVE  /\ Made'[i].from[1] \in DOMAIN sources' /\ Made'[i].from[2] \in DOMAIN sources'
             /\ Made'[i].motion = Made'[i].from
             /\ Made'[i].from[1] # Made'[i].from[2] =>
                  /\ Made'[i].from[2] = Made'[i].from[1] + 1
                  /\ sources'[Made'[i].from[1]].pts < sources'[Made'[i].from[2]].pts
                  /\ ~ sources'[Made'[i].from[2]].cut
  <2>1. CASE i \in DOMAIN Made /\ Made'[i] = Made[i]
    <3>1. Made[i].from[1] \in 1 .. Len(sources) /\ Made[i].from[2] \in 1 .. Len(sources)
      BY <1>3, <2>1 DEF SourcesInv
    <3>2. /\ sources'[Made[i].from[1]] = sources[Made[i].from[1]]
          /\ sources'[Made[i].from[2]] = sources[Made[i].from[2]]
      BY <1>3, <3>1
    <3>3. Made[i].from[1] \in 1 .. j /\ Made[i].from[2] \in 1 .. j
      BY <1>3, <3>1
    <3>4. /\ Made[i].motion = Made[i].from
          /\ Made[i].from[1] # Made[i].from[2] =>
               /\ Made[i].from[2] = Made[i].from[1] + 1
               /\ sources[Made[i].from[1]].pts < sources[Made[i].from[2]].pts
               /\ ~ sources[Made[i].from[2]].cut
      BY <2>1 DEF OfOnePair
    <3>q. QED
      BY <1>3, <2>1, <3>2, <3>3, <3>4
  <2>2. CASE \E k \in nextOut .. Until(pts) - 1 :
               MadeOf(Made'[i], k, j, CutBefore(pair), InTime(sources[prev].pts), InTime(pts))
    <3>1. /\ Made'[i].motion = Made'[i].from
          /\ \/ Made'[i].from[1] = prev /\ Made'[i].from[2] = j /\ ~ CutBefore(pair)
             \/ Made'[i].from[1] = prev /\ Made'[i].from[2] = prev
             \/ Made'[i].from[1] = j /\ Made'[i].from[2] = j
      BY <2>2 DEF MadeOf
    <3>2. prev \in 1 .. j /\ j \in 1 .. j /\ j = prev + 1
      BY <1>1, <1>3
    <3>3. sources'[prev].pts < sources'[j].pts
      BY <1>1, <1>3
    <3>q. QED
      BY <1>3, <3>1, <3>2, <3>3
  <2>q. QED
    BY <2>1, <2>2, OldOrNew
<1>q. QED
  BY <1>4 DEF SourcesInv, OfOnePair

LEMMA NextKeepsCache ==
  ASSUME TypeInv, OpenInv, CacheInv, NEW pts \in Stamps, NEW duration \in Durations,
         NEW pair \in Pairs \union {NoPair}, PushNext(pts, duration, pair)
  PROVE  CacheInv'
<1> DEFINE j == Len(sources) + 1
<1>1. /\ pts \in Nat /\ prev = Len(sources) /\ prev \in 1 .. Len(sources)
      /\ sources[prev].pts \in Nat /\ sources[prev].pts < pts
  BY NextFinds
<1>2. PICK source \in Sources : source.pts = pts /\ sources' = Append(sources, source)
  BY NextFinds
<1>3. /\ DOMAIN sources = 1 .. Len(sources) /\ DOMAIN sources' = 1 .. j /\ Len(sources) \in Nat
      /\ \A i \in 1 .. Len(sources) : sources'[i] = sources[i] /\ sources[i].pts \in Nat
      /\ sources'[j].pts = pts
  BY <1>2, SourceAppended, SourcesTyped
<1>4. CASE Estimates(prev, j)
  <2>1. /\ padded'[2].source = j /\ padded'[2].pts = pts
        /\ estimated' = <<sources[prev].pts, pts>>
    BY <1>4, EstimatesOfPair
  <2>2. \A i \in 1 .. j : ~ (i > j)
    BY <1>3
  <2>3. j \in 1 .. j
    BY <1>3
  <2>q. QED
    BY <1>1, <1>3, <2>1, <2>2, <2>3 DEF CacheInv
<1>5. CASE UNCHANGED cache
  <2>1. padded' = padded /\ estimated' = estimated
    BY <1>5 DEF cache
  <2>2. ASSUME padded[2].pts # None
        PROVE  /\ padded[2].source \in 1 .. j
               /\ sources'[padded[2].source].pts = padded[2].pts
               /\ \A i \in 1 .. j : i > padded[2].source => sources'[i].pts > padded[2].pts
    <3> DEFINE held == padded[2].source
    <3>1. /\ held \in 1 .. Len(sources) /\ sources[held].pts = padded[2].pts
          /\ \A i \in 1 .. Len(sources) : i > held => sources[i].pts > padded[2].pts
      BY <1>3, <2>2 DEF CacheInv
    <3> HIDE DEF held
    <3>2. sources'[held].pts = padded[2].pts /\ padded[2].pts \in Nat
      BY <1>3, <3>1
    <3>3. held = prev \/ prev > held
      BY <1>1, <1>3, <3>1
    <3>4. padded[2].pts < pts
      BY <1>1, <3>1, <3>2, <3>3
    <3>5. ASSUME NEW i \in 1 .. j, i > held PROVE sources'[i].pts > padded[2].pts
      <4>1. CASE i \in 1 .. Len(sources)
        BY <1>3, <3>1, <3>5, <4>1
      <4>2. CASE i = j
        BY <1>1, <1>3, <3>2, <3>4, <4>2
      <4>q. QED
        BY <1>3, <4>1, <4>2
    <3>6. held \in 1 .. j
      BY <1>3, <3>1
    <3>q. QED
      BY <3>2, <3>5, <3>6 DEF held
  <2>3. /\ padded'[2].pts # None =>
             /\ padded'[2].source \in DOMAIN sources'
             /\ sources'[padded'[2].source].pts = padded'[2].pts
             /\ \A i \in DOMAIN sources' : i > padded'[2].source => sources'[i].pts > padded'[2].pts
    BY <1>3, <2>1, <2>2
  <2>4. estimated' # None => estimated' \in Nat \X Nat /\ padded'[2].pts = estimated'[2]
    BY <2>1 DEF CacheInv
  <2>q. QED
    BY <2>3, <2>4 DEF CacheInv
<1>q. QED
  BY <1>4, <1>5 DEF PushNext

(* The first frame's time is that of the first source.                     *)
LEMMA FirstTyped == TypeInv /\ sources # <<>> => First \in Nat
<1>1. SUFFICES ASSUME TypeInv, sources # <<>> PROVE First \in Nat
  OBVIOUS
<1>2. /\ Len(sources) \in Nat /\ Len(sources) # 0
      /\ \A i \in 1 .. Len(sources) : sources[i].pts \in Nat
  BY <1>1, SourcesTyped
<1>3. 1 \in 1 .. Len(sources)
  BY <1>2
<1>4. sources[1].pts \in Nat /\ rate \in Rates
  BY <1>1, <1>2, <1>3 DEF TypeInv
<1>q. QED
  BY <1>4, RoundedBounds DEF First

(* While timestamps rise, what was emitted ends at the last source.        *)
LEMMA EmittedSoFar ==
  ASSUME TypeInv, TimedAsFps, DueInv, Rising, phase = "open", sources # <<>>
  PROVE  /\ First + Len(emitted) = Rounded(Last(sources).pts)
         /\ Rounded(Last(sources).pts) \in Nat
<1>1. /\ Len(sources) \in Nat /\ Len(sources) # 0 /\ Last(sources) = sources[Len(sources)]
      /\ DOMAIN sources = 1 .. Len(sources)
      /\ \A i \in 1 .. Len(sources) : sources[i].pts \in Nat
  BY SourcesTyped
<1>2. 1 \in 1 .. Len(sources) /\ Len(sources) \in 1 .. Len(sources)
  BY <1>1
<1>3. sources[1].pts <= sources[Len(sources)].pts
  <2>1. CASE Len(sources) = 1
    BY <1>1, <1>2, <2>1
  <2>2. CASE Len(sources) > 1
    BY <1>1, <1>2, <2>2 DEF DueInv, RisingThroughout
  <2>3. Len(sources) = 1 \/ Len(sources) > 1
    BY <1>1
  <2>q. QED
    BY <2>1, <2>2, <2>3
<1>4. rate \in Rates /\ sources[1].pts \in Nat /\ sources[Len(sources)].pts \in Nat
  BY <1>1, <1>2 DEF TypeInv
<1>5. First \in Nat /\ Rounded(Last(sources).pts) \in Nat /\ First <= Rounded(Last(sources).pts)
  BY <1>1, <1>3, <1>4, RoundedBounds, RoundedMonotone DEF First
<1>6. Len(emitted) = MaxOf(Rounded(Last(sources).pts) - First, 0)
  BY DEF TimedAsFps, First
<1>q. QED
  BY <1>5, <1>6 DEF MaxOf

LEMMA NextKeepsTimes ==
  ASSUME TypeInv, OpenInv, CacheInv, DueInv, TimedAsFps,
         NEW pts \in Stamps, NEW duration \in Durations,
         NEW pair \in Pairs \union {NoPair}, PushNext(pts, duration, pair)
  PROVE  TimedAsFps'
<1> DEFINE j     == Len(sources) + 1
           made  == MadeFor(j, pts, CutBefore(pair))
           all   == pending \o made
           bound == Rounded(pts)
<1>1. /\ pts \in Nat /\ prev = Len(sources) /\ prev \in 1 .. Len(sources)
      /\ sources[prev].pts \in Nat /\ sources[prev].pts < pts
      /\ nextOut \in Nat /\ nextOut = First + Len(Made)
  BY NextFinds
<1>2. PICK source \in Sources : source.pts = pts /\ sources' = Append(sources, source)
  BY NextFinds
<1>3. /\ \A i \in 1 .. Len(sources) : sources'[i] = sources[i]
      /\ Last(sources)'.pts = pts /\ (Rising' => Rising)
      /\ sources' # <<>>
  BY <1>2, SourceAppended
<1>4. Len(sources) \in Nat /\ sources # <<>> /\ Last(sources) = sources[prev]
  BY <1>1, SourcesTyped
<1>5. rate' = rate /\ phase' = "open" /\ phase = "open" /\ rate \in Rates
  BY DEF PushNext, TypeInv
<1>6. First \in Nat /\ First' = First
  <2>1. First \in Nat
    BY <1>4, FirstTyped
  <2>2. sources'[1] = sources[1]
    BY <1>1, <1>3, <1>4
  <2>q. QED
    BY <1>5, <2>1, <2>2 DEF First, Rounded, InTime
<1>7. ASSUME NEW i \in DOMAIN Made' PROVE Made'[i].pts = First + i - 1
  <2>1. CASE i \in DOMAIN Made /\ Made'[i] = Made[i]
    BY <2>1 DEF TimedAsFps, First
  <2>2. CASE \E k \in nextOut .. Until(pts) - 1 :
               /\ k = First + i - 1
               /\ MadeOf(Made'[i], k, j, CutBefore(pair), InTime(sources[prev].pts), InTime(pts))
    BY <2>2 DEF MadeOf
  <2>q. QED
    BY <2>1, <2>2, OldOrNew
<1>8. ASSUME Rising' PROVE Len(emitted') = MaxOf(Rounded(pts) - First, 0)
  <2> DEFINE from == First + Len(emitted)
  <2>1. /\ made \in Seq(Frames) /\ Len(made) = Until(pts) - nextOut
        /\ \A n \in 1 .. Len(made) : made[n].pts = nextOut + n - 1
        /\ Len(emitted') = Len(emitted) + Before(all, bound)
    BY NextMakes DEF MadeOf
  <2>2. /\ emitted \in Seq(Frames) /\ pending \in Seq(Frames)
        /\ Len(emitted) \in Nat /\ Len(pending) \in Nat
        /\ Len(Made) = Len(emitted) + Len(pending) /\ DOMAIN Made = 1 .. Len(Made)
        /\ \A i \in 1 .. Len(pending) : Made[Len(emitted) + i] = pending[i]
    BY MadeFacts, LenProperties DEF TypeInv
  <2> HIDE DEF made
  <2>3. /\ all \in Seq(Frames) /\ Len(made) \in Nat /\ Len(all) = Len(pending) + Len(made)
        /\ \A i \in 1 .. Len(pending) : all[i] = pending[i]
        /\ \A i \in 1 .. Len(made) : all[Len(pending) + i] = made[i]
    <3>1. made \in Seq(Frames) /\ pending \in Seq(Frames)
      BY <2>1, <2>2
    <3>q. QED
      BY ONLY <3>1, Joined
  <2> HIDE DEF all
  <2>4. ASSUME NEW i \in 1 .. Len(all) PROVE all[i].pts = from + i - 1
    <3>1. CASE i <= Len(pending)
      <4>1. i \in 1 .. Len(pending) /\ Len(emitted) + i \in 1 .. Len(Made)
        BY <2>2, <3>1
      <4>2. all[i] = Made[Len(emitted) + i]
        BY <2>2, <2>3, <4>1
      <4>3. Made[Len(emitted) + i].pts = First + (Len(emitted) + i) - 1
        BY <2>2, <4>1 DEF TimedAsFps, First
      <4>q. QED
        BY <1>6, <2>2, <4>2, <4>3
    <3>2. CASE i > Len(pending)
      <4>1. i - Len(pending) \in 1 .. Len(made) /\ Len(pending) + (i - Len(pending)) = i
        BY <2>2, <2>3, <3>2
      <4>2. all[i] = made[i - Len(pending)]
        BY <2>3, <4>1
      <4>3. made[i - Len(pending)].pts = nextOut + (i - Len(pending)) - 1
        BY <2>1, <4>1
      <4>4. nextOut + (i - Len(pending)) - 1 = from + i - 1
        BY <1>1, <1>6, <2>2
      <4>q. QED
        BY <4>2, <4>3, <4>4
    <3>3. i <= Len(pending) \/ i > Len(pending)
      BY <2>2
    <3>q. QED
      BY <3>1, <3>2, <3>3
  <2>5. from = Rounded(sources[prev].pts) /\ from \in Nat
    BY <1>3, <1>4, <1>5, <1>8, EmittedSoFar
  <2>6. bound \in Nat /\ from <= bound
    <3>1. sources[prev].pts <= pts
      BY <1>1
    <3>2. Rounded(pts) \in Nat /\ Rounded(sources[prev].pts) <= Rounded(pts)
      BY <1>1, <1>5, <3>1, RoundedBounds, RoundedMonotone
    <3>q. QED
      BY <2>5, <3>2
  <2>7. /\ Until(pts) \in Nat /\ bound <= Until(pts) /\ Until(pts) >= nextOut
    BY <1>1, <1>5, UntilFacts, NotBeforeRounded
  <2>8. from + Len(all) = Until(pts)
    <3>1. /\ Len(all) = Len(pending) + Len(made) /\ Len(made) = Until(pts) - nextOut
          /\ nextOut = First + (Len(emitted) + Len(pending))
      BY <1>1, <2>1, <2>2, <2>3
    <3>2. /\ First \in Nat /\ Until(pts) \in Nat /\ nextOut \in Nat
          /\ Len(emitted) \in Nat /\ Len(pending) \in Nat /\ Len(made) \in Nat
      BY <1>1, <1>6, <2>2, <2>3, <2>7
    <3>q. QED
      BY ONLY <3>1, <3>2
  <2> HIDE DEF from, bound
  <2>9. Before(all, bound) = bound - from
    BY <2>3, <2>4, <2>5, <2>6, <2>7, <2>8, BeforeInRow
  <2>10. Len(emitted') = bound - First
    BY <1>6, <2>1, <2>2, <2>5, <2>6, <2>9 DEF from
  <2>11. bound >= First
    BY <1>6, <2>2, <2>6 DEF from
  <2>12. bound \in Nat
    BY <2>6
  <2>q. QED
    BY <1>6, <2>10, <2>11, <2>12 DEF MaxOf, bound
<1>9. /\ Rounded(sources[1].pts)' = First
      /\ Rounded(Last(sources).pts)' = Rounded(pts)
  BY <1>3, <1>5, <1>6 DEF First, Rounded, InTime
<1>q. QED
  BY <1>5, <1>7, <1>8, <1>9 DEF TimedAsFps

LEMMA NextKeepsShown ==
  ASSUME TypeInv, OpenInv, CacheInv, DueInv, SourcesInv, ShowsItsTime,
         NEW pts \in Stamps, NEW duration \in Durations,
         NEW pair \in Pairs \union {NoPair}, PushNext(pts, duration, pair)
  PROVE  ShowsItsTime'
<1> DEFINE j    == Len(sources) + 1
           T(x) == InTime(sources'[x].pts)
<1>0. SUFFICES ASSUME Rising' PROVE ShowsItsTime'
  BY DEF ShowsItsTime
<1>1. /\ pts \in Nat /\ prev = Len(sources) /\ prev \in 1 .. Len(sources)
      /\ sources[prev].pts \in Nat /\ sources[prev].pts < pts /\ nextOut \in Nat
  BY NextFinds
<1>2. PICK source \in Sources : source.pts = pts /\ sources' = Append(sources, source)
  BY NextFinds
<1>3. /\ DOMAIN sources = 1 .. Len(sources) /\ DOMAIN sources' = 1 .. j /\ Len(sources) \in Nat
      /\ \A i \in 1 .. Len(sources) : sources'[i] = sources[i] /\ sources[i].pts \in Nat
      /\ sources'[j].pts = pts /\ Rising
      /\ sources # <<>> /\ Last(sources) = sources[prev]
  BY <1>0, <1>1, <1>2, SourceAppended, SourcesTyped
<1>4. RisingThroughout'
  BY <1>0, <1>1, <1>2, <1>3, RisesOn
<1>5. rate' = rate /\ phase = "open" /\ rate \in Rates
  BY DEF PushNext, TypeInv
<1>6. ASSUME NEW x \in 1 .. j PROVE sources'[x].pts \in Nat /\ T(x) \in Nat
  <2>1. sources'[x].pts \in Nat
    BY <1>1, <1>3
  <2>q. QED
    BY <1>5, <2>1, TimesTyped
<1>7. ASSUME NEW x \in 1 .. j, NEW y \in 1 .. j, x < y PROVE T(x) < T(y)
  <2>1. sources'[x].pts < sources'[y].pts
    BY <1>3, <1>4, <1>7 DEF RisingThroughout
  <2>q. QED
    BY <1>5, <1>6, <2>1, TimesTyped
<1>8. T(prev) = InTime(sources[prev].pts) /\ T(j) = InTime(pts)
  BY <1>1, <1>3
<1>9. prev \in 1 .. j /\ j \in 1 .. j /\ prev < j
  BY <1>1, <1>3
<1> HIDE DEF T
<1>10. ASSUME NEW i \in DOMAIN Made'
       PROVE  LET a    == T(Made'[i].from[1])
                  b    == T(Made'[i].from[2])
                  time == OutTime(Made'[i].pts)
              IN IF a # b THEN Between(Made'[i], time, a, b)
                 ELSE \A x \in 1 .. j : Nearest(time, a, T(x))
  <2>1. CASE i \in DOMAIN Made /\ Made'[i] = Made[i]
    <3> DEFINE f == Made[i]
               t == OutTime(f.pts)
               p == f.from[1]
               q == f.from[2]
    <3>1. p \in 1 .. Len(sources) /\ q \in 1 .. Len(sources)
      BY <1>3, <2>1 DEF SourcesInv
    <3>2. /\ T(p) = InTime(sources[p].pts) /\ T(q) = InTime(sources[q].pts)
          /\ \A x \in 1 .. Len(sources) : T(x) = InTime(sources[x].pts)
      BY <1>3, <3>1 DEF T
    <3>3. IF T(p) # T(q) THEN Between(f, t, T(p), T(q))
          ELSE \A x \in 1 .. Len(sources) : Nearest(t, T(p), T(x))
      BY <1>3, <2>1, <3>2 DEF ShowsItsTime
    <3>4. ASSUME T(p) = T(q), NEW x \in 1 .. j PROVE Nearest(t, T(p), T(x))
      <4>1. CASE x \in 1 .. Len(sources)
        BY <3>3, <3>4, <4>1
      <4>2. CASE x = j
        <5>1. t < T(prev)
          <6>1. Len(sources) >= 1
            BY <1>1, <1>3
          <6>q. QED
            BY <1>3, <1>5, <1>8, <2>1, <6>1 DEF DueInv
        <5>2. T(p) <= T(prev)
          <6>1. p \in 1 .. j /\ (p = prev \/ p < prev)
            BY <1>1, <1>3, <3>1
          <6>q. QED
            BY <1>6, <1>7, <1>9, <6>1
        <5>3. Nearest(t, T(p), T(prev))
          BY <1>1, <3>3, <3>4
        <5>4. t \in Nat
          <6>1. Made \in Seq(Frames) /\ i \in 1 .. Len(Made)
            BY <2>1, MadeFacts, LenProperties DEF TypeInv
          <6>2. f \in Frames
            BY <6>1, ElementOfSeq
          <6>3. f.pts \in Nat
            BY <6>2 DEF Frames
          <6>q. QED
            BY <1>5, <6>3, TimesTyped
        <5>5. T(p) \in Nat /\ T(prev) \in Nat /\ T(j) \in Nat /\ T(prev) < T(j)
          <6>1. p \in 1 .. j
            BY <1>3, <3>1
          <6>q. QED
            BY <1>6, <1>7, <1>9, <6>1
        <5> HIDE DEF f, t, p, q
        <5>6. t <= T(prev) /\ T(prev) <= T(j)
          BY <5>1, <5>4, <5>5
        <5>7. Nearest(t, T(p), T(j))
          BY <5>2, <5>3, <5>4, <5>5, <5>6, NearestIsNearest
        <5>q. QED
          BY <4>2, <5>7
      <4>q. QED
        BY <1>3, <4>1, <4>2
    <3>q. QED
      BY <2>1, <3>3, <3>4
  <2>2. CASE \E k \in nextOut .. Until(pts) - 1 :
               MadeOf(Made'[i], k, j, CutBefore(pair), InTime(sources[prev].pts), InTime(pts))
    <3> DEFINE f == Made'[i]
    <3>1. PICK k \in nextOut .. Until(pts) - 1 :
                 MadeOf(f, k, j, CutBefore(pair), T(prev), T(j))
      BY <1>8, <2>2
    <3> DEFINE t == OutTime(k)
    <3>2. /\ k \in Nat /\ t \in Nat /\ t < T(j) /\ k >= nextOut
      <4>1. /\ k \in Nat /\ k >= nextOut /\ t < InTime(pts)
        BY <1>1, <1>5, UntilFacts
      <4>q. QED
        BY <1>5, <1>8, <4>1, TimesTyped
    <3>3. T(prev) \in Nat /\ T(j) \in Nat /\ T(prev) < T(j)
      BY <1>6, <1>7, <1>9
    <3>4. f.pts = k
      BY <3>1 DEF MadeOf
    <3> HIDE DEF f, t
    <3>5. CASE f.from[1] = prev /\ f.from[2] = j /\ Between(f, t, T(prev), T(j))
      BY <3>3, <3>4, <3>5 DEF f, t
    <3>6. CASE f.from[1] = prev /\ f.from[2] = prev /\ Nearest(t, T(prev), T(j))
      <4>1. ASSUME NEW x \in 1 .. j PROVE Nearest(t, T(prev), T(x))
        <5>0. T(x) \in Nat
          BY <1>6
        <5>1. CASE x = j
          BY <3>6, <5>1
        <5>2. CASE x = prev
          <6>1. t <= T(prev) \/ T(prev) <= t
            BY <3>2, <3>3
          <6>2. T(prev) <= T(prev)
            BY <3>3
          <6>q. QED
            BY <3>2, <3>3, <5>2, <6>1, <6>2, NearestIsNearest
        <5>3. CASE x < prev
          <6>1. Len(sources) > 1
            BY <1>1, <1>3, <5>3
          <6>2. OutTime(nextOut) >= T(prev)
            BY <1>3, <1>5, <1>8, <6>1 DEF DueInv
          <6>3. OutTime(nextOut) \in Nat /\ OutTime(nextOut) <= t
            BY <1>1, <1>5, <3>2, TimesTyped DEF t
          <6>4. T(x) < T(prev)
            BY <1>7, <1>9, <5>3
          <6>5. T(x) <= T(prev) /\ T(prev) <= t
            BY <3>2, <3>3, <5>0, <6>2, <6>3, <6>4
          <6>q. QED
            BY <3>2, <3>3, <5>0, <6>5, NearestIsNearest
        <5>4. x = j \/ x = prev \/ x < prev
          BY <1>1, <1>3
        <5>q. QED
          BY <5>1, <5>2, <5>3, <5>4
      <4>q. QED
        BY <3>4, <3>6, <4>1 DEF f, t
    <3>7. CASE f.from[1] = j /\ f.from[2] = j /\ Nearest(t, T(j), T(prev)) /\ T(prev) < t
      <4>1. ASSUME NEW x \in 1 .. j PROVE Nearest(t, T(j), T(x))
        <5>0. T(x) \in Nat
          BY <1>6
        <5>1. CASE x = j
          <6>1. t <= T(j) /\ T(j) <= T(j)
            BY <3>2, <3>3
          <6>q. QED
            BY <3>2, <3>3, <5>1, <6>1, NearestIsNearest
        <5>2. CASE x = prev
          BY <3>7, <5>2
        <5>3. CASE x < prev
          <6>1. T(x) < T(prev)
            BY <1>7, <1>9, <5>3
          <6>2. T(prev) <= T(j) /\ T(prev) <= t /\ T(x) <= T(prev)
            BY <3>2, <3>3, <3>7, <5>0, <6>1
          <6>q. QED
            BY <3>2, <3>3, <3>7, <5>0, <6>2, NearestIsNearest
        <5>4. x = j \/ x = prev \/ x < prev
          BY <1>1, <1>3
        <5>q. QED
          BY <5>1, <5>2, <5>3, <5>4
      <4>q. QED
        BY <3>4, <3>7, <4>1 DEF f, t
    <3>q. QED
      BY <3>1, <3>5, <3>6, <3>7 DEF MadeOf, t
  <2>q. QED
    BY <2>1, <2>2, OldOrNew
<1>q. QED
  BY <1>3, <1>5, <1>10 DEF ShowsItsTime, T, InTime, OutTime

LEMMA NextKeeps ==
  ASSUME IInv, NEW pts \in Stamps, NEW duration \in Durations,
         NEW pair \in Pairs \union {NoPair}, PushNext(pts, duration, pair)
  PROVE  IInv'
<1>1. /\ TypeInv /\ OpenInv /\ DueInv /\ SourcesInv /\ CacheInv
      /\ TimedAsFps /\ OfOnePair /\ ShowsItsTime
  BY DEF IInv
<1>2. TypeInv' /\ OpenInv' /\ DueInv'
  BY <1>1, NextKeepsTypes, NextKeepsOpen, NextKeepsDue
<1>3. SourcesInv' /\ OfOnePair' /\ CacheInv'
  BY <1>1, NextKeepsSources, NextKeepsCache
<1>4. TimedAsFps' /\ ShowsItsTime'
  BY <1>1, NextKeepsTimes, NextKeepsShown
<1>q. QED
  BY <1>2, <1>3, <1>4 DEF IInv

-------------------------------------------------------------------------------
(* The other steps.                                                        *)

(* A source that nothing is made of.                                       *)
LEMMA ArrivalFacts ==
  ASSUME TypeInv, OpenInv, NEW pts \in Stamps, NEW duration \in Durations,
         Arrives(pts, duration, FALSE, 0, NoPair)
  PROVE  /\ pts \in Nat /\ duration \in Nat
         /\ prev = Len(sources) /\ phase = "open"
         /\ \E source \in Sources : source.pts = pts /\ sources' = Append(sources, source)
         /\ sources' \in Seq(Sources) /\ prev' = Len(sources') /\ prev' \in Nat
         /\ end' = pts + duration /\ end' \in Nat
         /\ nextOut' = (IF sources = <<>> THEN Rounded(pts) ELSE nextOut) /\ nextOut' \in Nat
         /\ rate' = rate /\ synthesis' = synthesis /\ phase' = phase
<1> DEFINE source == [pts |-> pts, cut |-> FALSE, with |-> 0, pair |-> NoPair]
<1>1. pts \in Nat /\ duration \in Nat /\ None \notin Nat
  BY ResamplerAssumption
<1>2. source \in Sources
  BY <1>1 DEF Sources
<1>3. source.pts = pts /\ sources' = Append(sources, source)
  BY DEF Arrives
<1> HIDE DEF source
<1>4. sources' \in Seq(Sources) /\ Len(sources') = Len(sources) + 1 /\ Len(sources) \in Nat
  BY <1>2, <1>3, SourceAppended, SourcesTyped
<1>5. /\ phase = "open" /\ prev' = Len(sources) + 1 /\ end' = pts + duration
      /\ nextOut' = (IF nextOut = None THEN Rounded(pts) ELSE nextOut)
      /\ rate' = rate /\ synthesis' = synthesis /\ phase' = phase
  BY DEF Arrives
<1>6. prev = Len(sources)
  BY <1>5 DEF OpenInv
<1>7. /\ nextOut = None <=> sources = <<>>
      /\ nextOut # None => nextOut \in Nat
  BY <1>1 DEF OpenInv, TypeInv
<1>8. Rounded(pts) \in Nat
  BY <1>1, RoundedBounds DEF TypeInv
<1>q. QED
  BY <1>1, <1>2, <1>3, <1>4, <1>5, <1>6, <1>7, <1>8

LEMMA ArrivalKeepsTypes ==
  ASSUME TypeInv, OpenInv, NEW pts \in Stamps, NEW duration \in Durations,
         Arrives(pts, duration, FALSE, 0, NoPair), NEW from, Detects(from, NoPair),
         UNCHANGED <<pending, emitted>>,
         UNCHANGED padded \/ Invalidated
  PROVE  TypeInv'
<1>1. (detector # None => detector.prev \in Nat)'
  BY DetectorTyped
<1>2. /\ sources' \in Seq(Sources) /\ prev' \in Nat /\ end' \in Nat /\ nextOut' \in Nat
      /\ rate' = rate /\ synthesis' = synthesis /\ phase' = phase
  BY ArrivalFacts
<1>3. \A slot \in 1 .. 2 : padded'[slot] \in Copies
  <2>1. \A slot \in 1 .. 2 : [padded[slot] EXCEPT !.pts = None] \in Copies
    BY DEF TypeInv, Copies
  <2>q. QED
    BY <2>1 DEF Invalidated, TypeInv
<1>q. QED
  BY <1>1, <1>2, <1>3 DEF TypeInv

(* The first source.                                                       *)
LEMMA FirstKeeps ==
  ASSUME IInv, NEW pts \in Stamps, NEW duration \in Durations, PushFirst(pts, duration)
  PROVE  IInv'
<1>1. TypeInv /\ OpenInv /\ CacheInv /\ Arrives(pts, duration, FALSE, 0, NoPair)
  BY DEF IInv, PushFirst
<1>2. /\ prev = 0 /\ Detects(detector, NoPair)
      /\ pending' = pending /\ emitted' = emitted /\ padded' = padded /\ estimated' = estimated
  BY DEF PushFirst, cache
<1>3. /\ pts \in Nat /\ duration \in Nat /\ prev = Len(sources) /\ phase = "open"
      /\ prev' = Len(sources') /\ end' = pts + duration
      /\ nextOut' = (IF sources = <<>> THEN Rounded(pts) ELSE nextOut) /\ nextOut' \in Nat
      /\ rate' = rate /\ phase' = phase
  BY <1>1, ArrivalFacts
<1>4. PICK source \in Sources : source.pts = pts /\ sources' = Append(sources, source)
  BY <1>1, ArrivalFacts
<1>5. Len(sources) = 0 /\ sources = <<>> /\ DOMAIN sources = {}
  <2>1. Len(sources) = 0
    BY <1>2, <1>3
  <2>2. sources = <<>> /\ DOMAIN sources = 1 .. 0
    BY <1>1, <2>1, SourcesTyped
  <2>q. QED
    BY <2>1, <2>2
<1>6. /\ DOMAIN sources' = {1} /\ Len(sources') = 1 /\ sources'[1].pts = pts
      /\ sources' # <<>> /\ Last(sources)'.pts = pts
  <2>1. /\ DOMAIN sources' = 1 .. 1 /\ Len(sources') = 1 /\ sources'[1] = source
        /\ sources' # <<>> /\ Last(sources)' = source
    BY <1>1, <1>4, <1>5, SourceAppended
  <2>q. QED
    BY <1>4, <2>1
<1>7. Made = <<>> /\ Made' = Made /\ DOMAIN Made = {} /\ Len(Made) = 0
  <2>1. Made = <<>> /\ Made' = Made
    BY <1>1, <1>2, <1>5 DEF OpenInv, Made
  <2>2. Len(Made) = 0 /\ DOMAIN Made = 1 .. Len(Made)
    BY <1>1, <2>1, MadeFacts, LenProperties, EmptySeq DEF TypeInv
  <2>q. QED
    BY <2>1, <2>2
<1>8. Len(emitted) = 0
  BY <1>1, <1>7, MadeFacts DEF TypeInv
<1>9. TypeInv'
  BY <1>1, <1>2, ArrivalKeepsTypes
<1>10. First' = Rounded(pts) /\ Rounded(pts) \in Nat
  <2>1. First' = Rounded(pts)
    BY <1>3, <1>6 DEF First, Rounded, InTime
  <2>2. Rounded(pts) \in Nat
    BY <1>1, <1>3, RoundedBounds DEF TypeInv
  <2>q. QED
    BY <2>1, <2>2
<1>11. OpenInv'
  <2>1. nextOut' = First' + Len(Made') /\ end' >= pts
    BY <1>3, <1>5, <1>7, <1>10
  <2>q. QED
    BY <1>3, <1>6, <2>1 DEF OpenInv
<1>12. DueInv'
  <2>1. RisingThroughout'
    BY <1>6 DEF RisingThroughout
  <2>q. QED
    BY <1>6, <1>7, <2>1 DEF DueInv
<1>13. CacheInv'
  <2>1. padded[2].pts = None
    BY <1>1, <1>5 DEF CacheInv
  <2>2. estimated = None
    <3>1. SUFFICES ASSUME estimated # None PROVE FALSE
      OBVIOUS
    <3>2. estimated \in Nat \X Nat /\ estimated[2] = None
      BY <1>1, <2>1, <3>1 DEF CacheInv
    <3>q. QED
      BY <3>2, ResamplerAssumption
  <2>q. QED
    BY <1>2, <2>1, <2>2 DEF CacheInv
<1>14. SourcesInv' /\ OfOnePair' /\ ShowsItsTime'
  BY <1>7 DEF SourcesInv, OfOnePair, ShowsItsTime
<1>15. TimedAsFps'
  <2>1. Rounded(Last(sources).pts)' = Rounded(pts) /\ Rounded(sources[1].pts)' = Rounded(pts)
    BY <1>3, <1>6 DEF Rounded, InTime
  <2>2. MaxOf(Rounded(pts) - Rounded(pts), 0) = 0
    BY <1>10 DEF MaxOf
  <2>q. QED
    BY <1>2, <1>3, <1>7, <1>8, <2>1, <2>2 DEF TimedAsFps
<1>q. QED
  BY <1>9, <1>11, <1>12, <1>13, <1>14, <1>15 DEF IInv

(* A source that does not come after the one before it.                    *)
LEMMA BackKeeps ==
  ASSUME IInv, NEW pts \in Stamps, NEW duration \in Durations, PushBack(pts, duration)
  PROVE  IInv'
<1>1. /\ TypeInv /\ OpenInv /\ TimedAsFps /\ OfOnePair /\ SourcesInv
      /\ Arrives(pts, duration, FALSE, 0, NoPair)
  BY DEF IInv, PushBack
<1>2. /\ prev # 0 /\ pts <= sources[prev].pts /\ Invalidated
      /\ Detects(Reset(detector), NoPair) /\ pending' = pending /\ emitted' = emitted
  BY DEF PushBack
<1>3. /\ pts \in Nat /\ duration \in Nat /\ prev = Len(sources) /\ phase = "open"
      /\ prev' = Len(sources') /\ end' = pts + duration
      /\ nextOut' = (IF sources = <<>> THEN Rounded(pts) ELSE nextOut) /\ nextOut' \in Nat
      /\ rate' = rate /\ phase' = phase
  BY <1>1, ArrivalFacts
<1>4. PICK source \in Sources : source.pts = pts /\ sources' = Append(sources, source)
  BY <1>1, ArrivalFacts
<1>5. /\ Len(sources) \in Nat /\ prev \in 1 .. Len(sources) /\ sources # <<>>
      /\ DOMAIN sources = 1 .. Len(sources) /\ sources[prev].pts \in Nat
  BY <1>1, <1>2, <1>3, SourcesTyped
<1>6. /\ DOMAIN sources' = 1 .. Len(sources) + 1 /\ Len(sources') = Len(sources) + 1
      /\ \A i \in 1 .. Len(sources) : sources'[i] = sources[i]
      /\ sources'[Len(sources) + 1] = source
      /\ sources' # <<>> /\ Last(sources)' = source
  BY <1>1, <1>4, SourceAppended
<1>7. Made' = Made
  BY <1>2 DEF Made
<1>8. TypeInv'
  BY <1>1, <1>2, ArrivalKeepsTypes
<1>9. ~ Rising'
  <2>1. SUFFICES ASSUME Rising' PROVE FALSE
    OBVIOUS
  <2>2. prev \in 1 .. Len(sources') - 1
    BY <1>5, <1>6
  <2>3. sources'[prev].pts < sources'[prev + 1].pts
    BY <2>1, <2>2 DEF Rising
  <2>4. sources'[prev] = sources[prev] /\ sources'[prev + 1].pts = pts
    BY <1>3, <1>4, <1>5, <1>6
  <2>q. QED
    BY <1>2, <1>3, <1>5, <2>3, <2>4
<1>10. First' = First
  <2>1. sources'[1] = sources[1]
    BY <1>5, <1>6
  <2>q. QED
    BY <1>3, <2>1 DEF First, Rounded, InTime
<1>11. OpenInv'
  <2>1. nextOut' = First' + Len(Made')
    BY <1>1, <1>3, <1>5, <1>7, <1>10 DEF OpenInv
  <2>2. end' >= Last(sources)'.pts
    BY <1>3, <1>4, <1>6
  <2>q. QED
    BY <1>3, <1>6, <2>1, <2>2 DEF OpenInv
<1>12. DueInv' /\ ShowsItsTime'
  BY <1>9 DEF DueInv, ShowsItsTime
<1>13. CacheInv'
  <2>1. padded'[2] = [padded[2] EXCEPT !.pts = None] /\ estimated' = None
    BY <1>2 DEF Invalidated
  <2>2. padded'[2].pts = None
    <3>1. padded[2] \in Copies
      BY <1>1 DEF TypeInv
    <3>q. QED
      BY <2>1, <3>1 DEF Copies
  <2>q. QED
    BY <2>1, <2>2 DEF CacheInv
<1>14. SourcesInv' /\ OfOnePair'
  <2>1. ASSUME NEW i \in DOMAIN Made
        PROVE  /\ Made[i].from[1] \in 1 .. Len(sources) /\ Made[i].from[2] \in 1 .. Len(sources)
               /\ Made[i].from[1] \in DOMAIN sources' /\ Made[i].from[2] \in DOMAIN sources'
    BY <1>1, <1>5, <1>6 DEF SourcesInv
  <2>2. SourcesInv'
    BY <1>7, <2>1 DEF SourcesInv
  <2>3. OfOnePair'
    BY <1>1, <1>6, <1>7, <2>1 DEF OfOnePair
  <2>q. QED
    BY <2>2, <2>3
<1>15. TimedAsFps'
  <2>1. Rounded(sources[1].pts)' = Rounded(sources[1].pts)
    BY <1>10 DEF First
  <2>q. QED
    BY <1>1, <1>7, <1>9, <2>1 DEF TimedAsFps
<1>q. QED
  BY <1>8, <1>11, <1>12, <1>13, <1>14, <1>15 DEF IInv

(* The end: what is pending before it, and then copies of the last source, *)
(* of which there are none while a pending frame is left out.              *)
LEMMA FinishFacts ==
  ASSUME TypeInv, OpenInv, TimedAsFps, Finish
  PROVE  \E repeats \in Nat :
           LET until == Rounded(end)
               kept  == Before(pending, until)
           IN /\ until \in Nat /\ kept \in 0 .. Len(pending)
              /\ repeats = (IF prev = 0 THEN 0 ELSE MaxOf(until - nextOut, 0))
              /\ nextOut' = (IF prev = 0 THEN nextOut ELSE nextOut + repeats)
              /\ emitted' \in Seq(Frames) /\ Made' \in Seq(Frames)
              /\ Len(emitted') = Len(emitted) + kept + repeats /\ Len(Made') = Len(emitted')
              /\ \A i \in 1 .. Len(emitted) + kept : Made'[i] = Made[i]
              /\ \A i \in 1 .. repeats :
                   Made'[Len(emitted) + kept + i] = Copy(prev, nextOut + i - 1)
<1> DEFINE until   == Rounded(end)
           kept    == Before(pending, until)
           out     == Released(pending, until)
           repeats == IF prev = 0 THEN 0 ELSE MaxOf(until - nextOut, 0)
           tail    == [n \in 1 .. repeats |-> Copy(prev, nextOut + n - 1)]
           front   == emitted \o out
<1>1. /\ emitted' = front \o tail /\ pending' = <<>>
      /\ nextOut' = (IF prev = 0 THEN nextOut ELSE nextOut + repeats)
  BY DEF Finish
<1>2. until \in Nat
  BY RoundedBounds DEF TypeInv
<1>3. emitted \in Seq(Frames) /\ pending \in Seq(Frames) /\ prev \in Nat
  BY DEF TypeInv
<1>4. prev # 0 => nextOut \in Nat
  <2>1. phase = "open"
    BY DEF Finish
  <2>2. prev = Len(sources) /\ (sources = <<>> <=> Len(sources) = 0)
    BY <2>1, SourcesTyped DEF OpenInv
  <2>q. QED
    BY <2>2 DEF OpenInv
<1> HIDE DEF until
<1>5. repeats \in Nat
  BY <1>2, <1>3, <1>4 DEF MaxOf
<1>6. /\ kept \in 0 .. Len(pending) /\ out \in Seq(Frames) /\ Len(out) = kept
      /\ \A i \in 1 .. kept : out[i] = pending[i]
  BY <1>2, <1>3, BeforeFacts, ReleaseFacts
<1>7. tail \in Seq(Frames) /\ Len(tail) = repeats
  <2> HIDE DEF repeats
  <2>1. ASSUME NEW n \in 1 .. repeats PROVE Copy(prev, nextOut + n - 1) \in Frames
    <3>1. prev # 0
      BY <1>5, <2>1 DEF repeats
    <3>2. nextOut + n - 1 \in Nat
      BY <1>4, <1>5, <3>1
    <3>q. QED
      BY <1>3, <3>2 DEF Copy, Frames
  <2>2. tail \in [1 .. repeats -> Frames]
    BY <2>1
  <2> HIDE DEF tail
  <2>q. QED
    BY ONLY <1>5, <2>2, FunctionIsSeq
<1>8. \A i \in 1 .. repeats : tail[i] = Copy(prev, nextOut + i - 1)
  OBVIOUS
<1> HIDE DEF repeats, tail, out, kept
<1>9. /\ front \in Seq(Frames) /\ Len(front) = Len(emitted) + kept
      /\ \A i \in 1 .. Len(emitted) : front[i] = emitted[i]
      /\ \A i \in 1 .. kept : front[Len(emitted) + i] = pending[i]
  <2>1. /\ front \in Seq(Frames) /\ Len(front) = Len(emitted) + Len(out)
        /\ \A i \in 1 .. Len(emitted) : front[i] = emitted[i]
        /\ \A i \in 1 .. Len(out) : front[Len(emitted) + i] = out[i]
    <3>1. emitted \in Seq(Frames) /\ out \in Seq(Frames)
      BY <1>3, <1>6
    <3>q. QED
      BY ONLY <3>1, Joined
  <2> HIDE DEF front
  <2>q. QED
    BY <1>6, <2>1
<1> HIDE DEF front
<1>10. /\ emitted' \in Seq(Frames) /\ Len(emitted') = Len(front) + repeats
       /\ \A i \in 1 .. Len(front) : emitted'[i] = front[i]
       /\ \A i \in 1 .. repeats : emitted'[Len(front) + i] = tail[i]
  <2> DEFINE e == front \o tail
  <2>1. /\ e \in Seq(Frames) /\ Len(e) = Len(front) + Len(tail)
        /\ \A i \in 1 .. Len(front) : e[i] = front[i]
        /\ \A i \in 1 .. Len(tail) : e[Len(front) + i] = tail[i]
    <3>1. front \in Seq(Frames) /\ tail \in Seq(Frames)
      BY <1>7, <1>9
    <3>q. QED
      BY ONLY <3>1, Joined
  <2>2. emitted' = e
    BY <1>1
  <2> HIDE DEF e
  <2>q. QED
    BY <1>7, <2>1, <2>2
<1>11. Made' = emitted'
  <2> DEFINE e == emitted'
  <2>1. Made' = e \o <<>> /\ e \in Seq(Frames)
    BY <1>1, <1>10 DEF Made
  <2> HIDE DEF e
  <2>2. Made' = e
    BY ONLY <2>1, ConcatEmptySeq
  <2>q. QED
    BY <2>2 DEF e
<1>12. /\ Len(emitted) \in Nat /\ Len(pending) \in Nat
       /\ \A i \in 1 .. Len(emitted) : Made[i] = emitted[i]
       /\ \A i \in 1 .. Len(pending) : Made[Len(emitted) + i] = pending[i]
  BY <1>3, MadeFacts
<1>13. ASSUME NEW i \in 1 .. Len(emitted) + kept PROVE Made'[i] = Made[i]
  <2>1. Made'[i] = front[i]
    BY <1>6, <1>9, <1>10, <1>11, <1>12
  <2>2. CASE i <= Len(emitted)
    BY <1>6, <1>9, <1>12, <2>1, <2>2
  <2>3. CASE i > Len(emitted)
    <3>1. /\ i - Len(emitted) \in 1 .. kept /\ i - Len(emitted) \in 1 .. Len(pending)
          /\ Len(emitted) + (i - Len(emitted)) = i
      BY <1>6, <1>12, <2>3
    <3>2. front[i] = pending[i - Len(emitted)] /\ Made[i] = pending[i - Len(emitted)]
      BY <1>9, <1>12, <3>1
    <3>q. QED
      BY <2>1, <3>2
  <2>q. QED
    BY <1>6, <1>12, <2>2, <2>3
<1>14. ASSUME NEW i \in 1 .. repeats
       PROVE Made'[Len(emitted) + kept + i] = Copy(prev, nextOut + i - 1)
  BY <1>8, <1>9, <1>10, <1>11
<1>15. Made' \in Seq(Frames) /\ Len(emitted') = Len(emitted) + kept + repeats
       /\ Len(Made') = Len(emitted')
  BY <1>9, <1>10, <1>11
<1>16. repeats = (IF prev = 0 THEN 0 ELSE MaxOf(until - nextOut, 0))
  BY DEF repeats
<1>q. QED
  BY <1>1, <1>2, <1>5, <1>6, <1>10, <1>13, <1>14, <1>15, <1>16 DEF until, kept

(* Every frame there is in the end was made before, or is a copy of the    *)
(* last source at the time that is next.                                   *)
LEMMA FinishMakes ==
  ASSUME TypeInv, OpenInv, TimedAsFps, Finish, NEW i \in DOMAIN Made'
  PROVE  \/ i \in DOMAIN Made /\ Made'[i] = Made[i]
         \/ /\ prev # 0 /\ nextOut \in Nat
            /\ \E k \in Nat : k >= nextOut /\ k = First + i - 1 /\ Made'[i] = Copy(prev, k)
<1> DEFINE until == Rounded(end)
           kept  == Before(pending, until)
<1>1. PICK repeats \in Nat :
        /\ until \in Nat /\ kept \in 0 .. Len(pending)
        /\ repeats = (IF prev = 0 THEN 0 ELSE MaxOf(until - nextOut, 0))
        /\ Made' \in Seq(Frames) /\ Len(Made') = Len(emitted) + kept + repeats
        /\ \A n \in 1 .. Len(emitted) + kept : Made'[n] = Made[n]
        /\ \A n \in 1 .. repeats : Made'[Len(emitted) + kept + n] = Copy(prev, nextOut + n - 1)
  BY FinishFacts
<1>2. /\ emitted \in Seq(Frames) /\ pending \in Seq(Frames)
      /\ Len(emitted) \in Nat /\ Len(pending) \in Nat
      /\ Len(Made) = Len(emitted) + Len(pending) /\ DOMAIN Made = 1 .. Len(emitted) + Len(pending)
      /\ \A n \in 1 .. Len(pending) : Made[Len(emitted) + n] = pending[n]
  BY MadeFacts DEF TypeInv
<1>3. i \in 1 .. Len(emitted) + kept + repeats
  BY <1>1, LenProperties
<1>4. CASE i <= Len(emitted) + kept
  <2>1. i \in 1 .. Len(emitted) + kept /\ i \in 1 .. Len(emitted) + Len(pending)
    BY <1>1, <1>2, <1>3, <1>4
  <2>q. QED
    BY <1>1, <1>2, <2>1
<1>5. CASE i > Len(emitted) + kept
  <2> DEFINE n == i - (Len(emitted) + kept)
  <2>1. n \in 1 .. repeats /\ Len(emitted) + kept + n = i /\ repeats > 0
    <3>1. /\ Len(emitted) \in Nat /\ kept \in Nat /\ repeats \in Nat
          /\ i \in 1 .. Len(emitted) + kept + repeats
      BY <1>1, <1>2, <1>3
    <3> HIDE DEF kept
    <3>q. QED
      BY ONLY <3>1, <1>5
  <2>2. prev # 0 /\ repeats = MaxOf(until - nextOut, 0)
    BY <1>1, <2>1
  <2>3. sources # <<>>
    <3>1. prev = Len(sources) /\ (sources = <<>> <=> Len(sources) = 0)
      BY SourcesTyped DEF OpenInv, Finish
    <3>q. QED
      BY <2>2, <3>1
  <2>4. nextOut \in Nat /\ nextOut = First + Len(Made) /\ First \in Nat
    BY <2>3, FirstTyped DEF OpenInv, Finish
  <2> HIDE DEF until, kept
  <2>5. nextOut < until
    BY <1>1, <2>1, <2>2, <2>4 DEF MaxOf
  <2> DEFINE from == First + Len(emitted)
  <2>6. ASSUME NEW m \in 1 .. Len(pending) PROVE pending[m].pts = from + m - 1
    <3>1. Len(emitted) + m \in DOMAIN Made /\ Made[Len(emitted) + m] = pending[m]
      BY <1>2
    <3>2. Made[Len(emitted) + m].pts = First + (Len(emitted) + m) - 1
      BY <3>1 DEF TimedAsFps, First
    <3>q. QED
      BY <1>2, <2>4, <3>1, <3>2
  <2>7. from \in Nat /\ until >= from + Len(pending)
    BY <1>1, <1>2, <2>4, <2>5
  <2> HIDE DEF from
  <2>8. kept = Len(pending)
    BY <1>1, <1>2, <2>6, <2>7, BeforeInRow DEF kept
  <2>9. /\ nextOut + n - 1 \in Nat /\ nextOut + n - 1 >= nextOut
        /\ nextOut + n - 1 = First + i - 1
    BY <1>2, <2>1, <2>4, <2>8
  <2>10. Made'[i] = Copy(prev, nextOut + n - 1)
    BY <1>1, <2>1
  <2>q. QED
    BY <2>2, <2>4, <2>9, <2>10
<1>q. QED
  BY <1>1, <1>2, <1>3, <1>4, <1>5

LEMMA FinishKeepsTimes ==
  ASSUME TypeInv, OpenInv, DueInv, TimedAsFps, Finish
  PROVE  TimedAsFps'
<1> DEFINE until == Rounded(end)
           kept  == Before(pending, until)
<1>1. /\ phase = "open" /\ phase' = "done" /\ rate' = rate /\ sources' = sources /\ end' = end
      /\ (Rising' <=> Rising)
  BY DEF Finish, Rising
<1>2. Rounded(sources[1].pts)' = First /\ Rounded(end)' = until /\ Rounded(sources[1].pts) = First
  BY <1>1 DEF First, Rounded, InTime
<1>3. ASSUME NEW i \in DOMAIN Made' PROVE Made'[i].pts = First + i - 1
  <2>1. CASE i \in DOMAIN Made /\ Made'[i] = Made[i]
    BY <1>2, <2>1 DEF TimedAsFps
  <2>2. CASE \E k \in Nat : k >= nextOut /\ k = First + i - 1 /\ Made'[i] = Copy(prev, k)
    BY <2>2 DEF Copy
  <2>q. QED
    BY <2>1, <2>2, FinishMakes
<1>4. ASSUME Rising, sources # <<>> PROVE Len(emitted') = MaxOf(until - First, 0)
  <2>1. PICK repeats \in Nat :
          /\ until \in Nat /\ kept \in 0 .. Len(pending)
          /\ repeats = (IF prev = 0 THEN 0 ELSE MaxOf(until - nextOut, 0))
          /\ Len(emitted') = Len(emitted) + kept + repeats
    BY FinishFacts
  <2>2. /\ emitted \in Seq(Frames) /\ pending \in Seq(Frames)
        /\ Len(emitted) \in Nat /\ Len(pending) \in Nat
        /\ Len(Made) = Len(emitted) + Len(pending) /\ DOMAIN Made = 1 .. Len(emitted) + Len(pending)
        /\ \A n \in 1 .. Len(pending) : Made[Len(emitted) + n] = pending[n]
    BY MadeFacts DEF TypeInv
  <2>3. /\ prev # 0 /\ nextOut \in Nat /\ nextOut = First + Len(Made) /\ First \in Nat
        /\ end >= Last(sources).pts
    <3>1. prev = Len(sources) /\ (sources = <<>> <=> Len(sources) = 0)
      BY <1>1, SourcesTyped DEF OpenInv
    <3>q. QED
      BY <1>1, <1>4, <3>1, FirstTyped DEF OpenInv
  <2> DEFINE from == First + Len(emitted)
  <2>4. from = Rounded(Last(sources).pts) /\ from \in Nat
    BY <1>1, <1>4, EmittedSoFar
  <2>5. from <= until
    <3>1. Last(sources).pts \in Nat /\ end \in Nat /\ Last(sources).pts <= end /\ rate \in Rates
      <4>1. Len(sources) \in Nat /\ Len(sources) # 0 /\ Last(sources) = sources[Len(sources)]
            /\ \A i \in 1 .. Len(sources) : sources[i].pts \in Nat
        BY <1>4, SourcesTyped
      <4>2. Len(sources) \in 1 .. Len(sources)
        BY <4>1
      <4>q. QED
        BY <2>3, <4>1, <4>2 DEF TypeInv
    <3>q. QED
      BY <2>4, <3>1, RoundedMonotone
  <2>6. ASSUME NEW m \in 1 .. Len(pending) PROVE pending[m].pts = from + m - 1
    <3>1. Len(emitted) + m \in DOMAIN Made /\ Made[Len(emitted) + m] = pending[m]
      BY <2>2
    <3>2. Made[Len(emitted) + m].pts = First + (Len(emitted) + m) - 1
      BY <3>1 DEF TimedAsFps, First
    <3>q. QED
      BY <2>2, <2>3, <3>1, <3>2
  <2>7. nextOut = from + Len(pending)
    BY <2>2, <2>3
  <2>8. First <= from /\ Len(emitted) = from - First
    BY <2>2, <2>3
  <2> HIDE DEF from, until
  <2>9. CASE until <= from + Len(pending)
    <3>1. kept = until - from
      BY <2>1, <2>2, <2>4, <2>5, <2>6, <2>9, BeforeInRow DEF kept
    <3>2. repeats = 0
      BY <2>1, <2>2, <2>3, <2>4, <2>7, <2>9 DEF MaxOf
    <3>3. /\ until \in Nat /\ First \in Nat /\ First <= until
          /\ Len(emitted') = until - First
      <4>1. /\ until \in Nat /\ First \in Nat /\ from \in Nat /\ Len(emitted) \in Nat
            /\ Len(emitted') = Len(emitted) + kept + repeats
        BY <2>1, <2>2, <2>3, <2>4
      <4> HIDE DEF kept
      <4>2. Len(emitted') = (from - First) + (until - from) + 0
        BY ONLY <4>1, <2>8, <3>1, <3>2, Zenon
      <4>q. QED
        BY ONLY <4>1, <4>2, <2>5, <2>8
    <3>q. QED
      BY ONLY <3>3 DEF MaxOf
  <2>10. CASE until >= from + Len(pending)
    <3>1. kept = Len(pending)
      BY <2>1, <2>2, <2>4, <2>6, <2>10, BeforeInRow DEF kept
    <3>2. repeats = until - nextOut
      BY <2>1, <2>2, <2>3, <2>4, <2>7, <2>10 DEF MaxOf
    <3>3. /\ until \in Nat /\ First \in Nat /\ First <= until
          /\ Len(emitted') = until - First
      <4>1. /\ until \in Nat /\ First \in Nat /\ from \in Nat /\ Len(emitted) \in Nat
            /\ Len(emitted') = Len(emitted) + kept + repeats /\ Len(pending) \in Nat
        BY <2>1, <2>2, <2>3, <2>4
      <4> HIDE DEF kept
      <4>q. QED
        BY ONLY <4>1, <2>5, <2>7, <2>8, <3>1, <3>2
    <3>q. QED
      BY ONLY <3>3 DEF MaxOf
  <2>q. QED
    BY <2>1, <2>2, <2>4, <2>9, <2>10
<1>q. QED
  BY <1>1, <1>2, <1>3, <1>4 DEF TimedAsFps

LEMMA FinishKeepsShown ==
  ASSUME TypeInv, OpenInv, DueInv, TimedAsFps, SourcesInv, ShowsItsTime, Finish
  PROVE  ShowsItsTime'
<1> DEFINE T(x) == InTime(sources[x].pts)
<1>1. phase = "open" /\ rate' = rate /\ sources' = sources /\ (Rising' <=> Rising)
  BY DEF Finish, Rising
<1>2. SUFFICES ASSUME Rising PROVE ShowsItsTime'
  BY <1>1 DEF ShowsItsTime
<1>3. /\ Len(sources) \in Nat /\ DOMAIN sources = 1 .. Len(sources)
      /\ (sources = <<>> <=> Len(sources) = 0) /\ Last(sources) = sources[Len(sources)]
      /\ prev = Len(sources) /\ rate \in Rates
      /\ \A x \in 1 .. Len(sources) : sources[x].pts \in Nat
  BY <1>1, SourcesTyped DEF OpenInv, TypeInv
<1>4. ASSUME NEW i \in DOMAIN Made'
      PROVE  LET a    == T(Made'[i].from[1])
                 b    == T(Made'[i].from[2])
                 time == OutTime(Made'[i].pts)
             IN IF a # b THEN Between(Made'[i], time, a, b)
                ELSE \A x \in DOMAIN sources : Nearest(time, a, T(x))
  <2>1. CASE i \in DOMAIN Made /\ Made'[i] = Made[i]
    BY <1>2, <2>1 DEF ShowsItsTime
  <2>2. CASE /\ prev # 0 /\ nextOut \in Nat
             /\ \E k \in Nat : k >= nextOut /\ k = First + i - 1 /\ Made'[i] = Copy(prev, k)
    <3>1. PICK k \in Nat : k >= nextOut /\ Made'[i] = Copy(prev, k)
      BY <2>2
    <3>2. Made'[i].from[1] = prev /\ Made'[i].from[2] = prev /\ Made'[i].pts = k
      BY <3>1 DEF Copy
    <3>3. ASSUME NEW x \in DOMAIN sources PROVE Nearest(OutTime(k), T(prev), T(x))
      <4>1. prev \in 1 .. Len(sources) /\ x \in 1 .. Len(sources)
        BY <1>3, <2>2
      <4>2. sources[prev].pts \in Nat /\ sources[x].pts \in Nat /\ sources[x].pts <= sources[prev].pts
        <5>1. CASE x = prev
          BY <1>3, <4>1, <5>1
        <5>2. CASE x < prev
          BY <1>2, <1>3, <4>1, <5>2 DEF DueInv, RisingThroughout
        <5>q. QED
          BY <1>3, <4>1, <5>1, <5>2
      <4>3. /\ T(prev) \in Nat /\ T(x) \in Nat /\ T(x) <= T(prev) /\ OutTime(k) \in Nat
            /\ OutTime(nextOut) \in Nat /\ OutTime(nextOut) <= OutTime(k)
        BY <1>3, <2>2, <3>1, <4>2, TimesTyped
      <4>4. CASE Len(sources) > 1
        <5>1. OutTime(nextOut) >= T(prev)
          BY <1>1, <1>2, <1>3, <4>4 DEF DueInv
        <5> HIDE DEF T
        <5>2. T(prev) <= OutTime(k)
          BY <4>3, <5>1
        <5>q. QED
          BY <4>3, <5>2, NearestIsNearest
      <4>5. CASE Len(sources) = 1
        <5>1. x = prev
          BY <1>3, <4>1, <4>5
        <5> HIDE DEF T
        <5>2. T(x) = T(prev) /\ (OutTime(k) <= T(prev) \/ T(prev) <= OutTime(k))
          BY <4>3, <5>1
        <5>3. T(prev) <= T(x)
          BY <4>3, <5>2
        <5>q. QED
          BY <4>3, <5>2, <5>3, NearestIsNearest
      <4>q. QED
        BY <1>3, <4>1, <4>4, <4>5
    <3>q. QED
      BY <3>2, <3>3
  <2>q. QED
    BY <2>1, <2>2, FinishMakes
<1>q. QED
  BY <1>1, <1>4 DEF ShowsItsTime, InTime, OutTime

LEMMA FinishKeeps ==
  ASSUME IInv, Finish
  PROVE  IInv'
<1>1. /\ TypeInv /\ OpenInv /\ DueInv /\ SourcesInv /\ CacheInv
      /\ TimedAsFps /\ OfOnePair /\ ShowsItsTime
  BY DEF IInv
<1>2. /\ phase = "open" /\ phase' = "done" /\ prev' = 0 /\ pending' = <<>>
      /\ rate' = rate /\ synthesis' = synthesis /\ detector' = detector /\ sources' = sources
      /\ end' = end /\ padded' = padded /\ estimated' = estimated
  BY DEF Finish, cache
<1>3. PICK repeats \in Nat :
        /\ repeats = (IF prev = 0 THEN 0 ELSE MaxOf(Rounded(end) - nextOut, 0))
        /\ nextOut' = (IF prev = 0 THEN nextOut ELSE nextOut + repeats)
        /\ emitted' \in Seq(Frames) /\ Made' \in Seq(Frames)
        /\ Before(pending, Rounded(end)) \in 0 .. Len(pending)
        /\ Len(Made') = Len(emitted) + Before(pending, Rounded(end)) + repeats
  BY <1>1, FinishFacts
<1>4. /\ prev = Len(sources) /\ (sources = <<>> <=> Len(sources) = 0) /\ Len(sources) \in Nat
      /\ DOMAIN sources = 1 .. Len(sources)
      /\ sources = <<>> => nextOut = None /\ Made = <<>>
      /\ sources # <<>> => nextOut \in Nat
  BY <1>1, <1>2, SourcesTyped DEF OpenInv
<1>5. sources # <<>> => nextOut' \in Nat
  BY <1>3, <1>4
<1>6. sources = <<>> => nextOut' = None /\ Made' = <<>>
  <2>1. SUFFICES ASSUME sources = <<>> PROVE nextOut' = None /\ Made' = <<>>
    OBVIOUS
  <2>2. prev = 0 /\ nextOut' = None /\ Made = <<>>
    BY <1>3, <1>4, <2>1
  <2>3. /\ Len(Made) = Len(emitted) + Len(pending) /\ Len(emitted) \in Nat /\ Len(pending) \in Nat
        /\ Len(Made) = 0
    BY <1>1, <2>2, MadeFacts, EmptySeq DEF TypeInv
  <2>4. Len(Made') = 0
    BY <1>3, <2>2, <2>3
  <2>q. QED
    BY <1>3, <2>2, <2>4, EmptySeq
<1>7. TypeInv'
  <2>1. nextOut' \in Nat \union {None}
    BY <1>5, <1>6
  <2>2. pending' \in Seq(Frames)
    BY <1>2
  <2>q. QED
    BY <1>1, <1>2, <1>3, <2>1, <2>2 DEF TypeInv
<1>8. OpenInv'
  BY <1>2, <1>5, <1>6 DEF OpenInv
<1>9. DueInv' /\ CacheInv'
  <2>1. RisingThroughout' <=> RisingThroughout
    BY <1>2 DEF RisingThroughout
  <2>2. Rising' <=> Rising
    BY <1>2 DEF Rising
  <2>3. phase' # "open"
    BY <1>2
  <2>4. DueInv'
    BY <1>1, <2>1, <2>2, <2>3 DEF DueInv
  <2>q. QED
    BY <1>1, <1>2, <2>4 DEF CacheInv
<1>10. SourcesInv' /\ OfOnePair'
  <2>1. ASSUME NEW i \in DOMAIN Made'
        PROVE  LET a == Made'[i].from[1]
                   b == Made'[i].from[2]
               IN /\ a \in DOMAIN sources /\ b \in DOMAIN sources
                  /\ Made'[i].motion = Made'[i].from
                  /\ a # b => b = a + 1 /\ sources[a].pts < sources[b].pts /\ ~ sources[b].cut
    <3>1. CASE i \in DOMAIN Made /\ Made'[i] = Made[i]
      BY <1>1, <3>1 DEF SourcesInv, OfOnePair
    <3>2. CASE prev # 0 /\ \E k \in Nat : Made'[i] = Copy(prev, k)
      <4>1. prev \in DOMAIN sources
        BY <1>4, <3>2
      <4>q. QED
        BY <3>2, <4>1 DEF Copy
    <3>q. QED
      BY <1>1, <3>1, <3>2, FinishMakes
  <2>q. QED
    BY <1>2, <2>1 DEF SourcesInv, OfOnePair
<1>11. TimedAsFps' /\ ShowsItsTime'
  BY <1>1, FinishKeepsTimes, FinishKeepsShown
<1>q. QED
  BY <1>7, <1>8, <1>9, <1>10, <1>11 DEF IInv

LEMMA FailsKeep ==
  ASSUME IInv, Fails
  PROVE  IInv'
<1>1. /\ rate' = rate /\ synthesis' = synthesis /\ detector' = detector /\ sources' = sources
      /\ prev' = prev /\ nextOut' = nextOut /\ end' = end /\ pending' = pending
      /\ emitted' = emitted /\ padded' = padded /\ estimated' = estimated
      /\ phase' = "failed" /\ Made' = Made /\ phase' # "open"
      /\ (Rising' <=> Rising) /\ (RisingThroughout' <=> RisingThroughout)
  BY DEF Fails, cache, Made, Rising, RisingThroughout
<1>2. TypeInv' /\ OpenInv' /\ DueInv' /\ SourcesInv' /\ CacheInv'
  BY <1>1 DEF IInv, TypeInv, OpenInv, DueInv, SourcesInv, CacheInv
<1>3. TimedAsFps'
  BY <1>1 DEF IInv, TimedAsFps, Rounded, InTime
<1>4. OfOnePair' /\ ShowsItsTime'
  BY <1>1 DEF IInv, OfOnePair, ShowsItsTime, InTime, OutTime
<1>q. QED
  BY <1>2, <1>3, <1>4 DEF IInv

LEMMA InitHolds == Init => IInv
<1>1. SUFFICES ASSUME Init PROVE IInv
  OBVIOUS
<1>2. /\ sources = <<>> /\ prev = 0 /\ nextOut = None /\ end = 0 /\ pending = <<>>
      /\ emitted = <<>> /\ estimated = None /\ phase = "open"
      /\ rate \in Rates /\ synthesis \in {"blend", "motion"} /\ detector \in {None, NewDetector}
      /\ padded = <<[source |-> 0, pts |-> None], [source |-> 0, pts |-> None]>>
  BY <1>1 DEF Init
<1>3. Made = <<>> /\ DOMAIN Made = {} /\ Len(sources) = 0 /\ DOMAIN sources = {}
  <2>1. Made = <<>>
    BY <1>2 DEF Made
  <2>2. DOMAIN sources = 1 .. 0 /\ DOMAIN Made = 1 .. 0 /\ Len(sources) = 0
    BY <1>2, <2>1
  <2>q. QED
    BY <2>1, <2>2
<1>4. TypeInv
  <2>1. sources \in Seq(Sources) /\ emitted \in Seq(Frames) /\ pending \in Seq(Frames)
    BY <1>2
  <2>2. detector # None => detector.prev \in Nat
    BY <1>2 DEF NewDetector
  <2>3. \A slot \in 1 .. 2 : padded[slot] \in Copies
    BY <1>2 DEF Copies
  <2>q. QED
    BY <1>2, <2>1, <2>2, <2>3 DEF TypeInv
<1>5. OpenInv /\ DueInv /\ SourcesInv /\ CacheInv
  BY <1>2, <1>3 DEF OpenInv, DueInv, RisingThroughout, SourcesInv, CacheInv
<1>6. TimedAsFps /\ OfOnePair /\ ShowsItsTime
  BY <1>2, <1>3 DEF TimedAsFps, OfOnePair, ShowsItsTime
<1>q. QED
  BY <1>4, <1>5, <1>6 DEF IInv

LEMMA StutterKeeps ==
  ASSUME IInv, UNCHANGED vars
  PROVE  IInv'
<1>1. /\ rate' = rate /\ synthesis' = synthesis /\ detector' = detector /\ sources' = sources
      /\ prev' = prev /\ nextOut' = nextOut /\ end' = end /\ pending' = pending
      /\ emitted' = emitted /\ padded' = padded /\ estimated' = estimated
      /\ phase' = phase /\ Made' = Made
      /\ (Rising' <=> Rising) /\ (RisingThroughout' <=> RisingThroughout)
  BY DEF vars, Made, Rising, RisingThroughout
<1>2. TypeInv' /\ SourcesInv' /\ CacheInv'
  BY <1>1 DEF IInv, TypeInv, SourcesInv, CacheInv
<1>3. OpenInv' /\ DueInv'
  BY <1>1 DEF IInv, OpenInv, DueInv, First, Rounded, InTime, OutTime
<1>4. TimedAsFps'
  BY <1>1 DEF IInv, TimedAsFps, Rounded, InTime
<1>5. OfOnePair' /\ ShowsItsTime'
  BY <1>1 DEF IInv, OfOnePair, ShowsItsTime, InTime, OutTime
<1>q. QED
  BY <1>2, <1>3, <1>4, <1>5 DEF IInv

-------------------------------------------------------------------------------
(* Resampler::push and finish keep what a frame is made from: the          *)
(* invariant holds before the first source and after every call, for any   *)
(* rates, timestamps, durations and number of sources.                     *)
THEOREM InvariantHolds == Spec => []IInv
<1>1. ASSUME IInv, [Next]_vars PROVE IInv'
  <2>1. ASSUME NEW pts \in Stamps, NEW duration \in Durations, PushFirst(pts, duration)
        PROVE  IInv'
    BY <1>1, <2>1, FirstKeeps
  <2>2. ASSUME NEW pts \in Stamps, NEW duration \in Durations, PushBack(pts, duration)
        PROVE  IInv'
    BY <1>1, <2>2, BackKeeps
  <2>3. ASSUME NEW pts \in Stamps, NEW duration \in Durations,
               NEW pair \in Pairs \union {NoPair}, PushNext(pts, duration, pair)
        PROVE  IInv'
    BY <1>1, <2>3, NextKeeps
  <2>4. CASE Fails
    BY <1>1, <2>4, FailsKeep
  <2>5. CASE Finish
    BY <1>1, <2>5, FinishKeeps
  <2>6. CASE Done \/ UNCHANGED vars
    BY <1>1, <2>6, StutterKeeps DEF Done
  <2>q. QED
    BY <1>1, <2>1, <2>2, <2>3, <2>4, <2>5, <2>6 DEF Next
<1>q. QED
  BY <1>1, InitHolds, PTL DEF Spec

(* The frames Resampler hands on have the timestamps of FFmpeg's fps       *)
(* filter: one after the other from the first source's rounded time, up to *)
(* the last source's while it is open and up to the end once finished.     *)
THEOREM TimesAlways == Spec => []TimedAsFps
BY InvariantHolds, PTL DEF IInv

(* A synthesized frame is of two consecutive sources with no cut between   *)
(* them, and the cached copies and motion it was made with are of these    *)
(* two, whatever timestamps the sources have.                              *)
THEOREM PairsAlways == Spec => []OfOnePair
BY InvariantHolds, PTL DEF IInv

(* Of a stream whose timestamps rise, every frame lies between the two     *)
(* sources it mixes, in proportion, or copies the one nearest to it.       *)
THEOREM ShownAlways == Spec => []ShowsItsTime
BY InvariantHolds, PTL DEF IInv
===============================================================================
