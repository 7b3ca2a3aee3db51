---------------------------- MODULE AudioAlignProofs ----------------------------
(***************************************************************************)
(* Proofs about AudioAlign, for every tensor, every length of frames,      *)
(* every sequence of timestamps and every threshold.                       *)
(***************************************************************************)
EXTENDS AudioAlign, FiniteSetTheorems, SequenceTheorems, WellFoundedInduction, TLAPS

-------------------------------------------------------------------------------
(* The invariant.                                                          *)

Time  == Int \union {NoTime}
Views == [at : Nat, length : Nat, pts : Time, frame : Nat \ {0}]

Timed ==
  /\ request.fill \in BOOLEAN
  /\ request.output # NoTime =>
       /\ request.output \in Int /\ request.decoded \in Int
       /\ request.skippedEnd \in Time /\ request.reported \in Time
       /\ request.start \in Time /\ request.other \in Time

TypeInv ==
  /\ Timed
  /\ tensor \in Seq(Nat) /\ written \in 0 .. capacity
  /\ frames \in Seq(Views)
  /\ runs \in Seq([start : Nat, offset : Nat])
  /\ boundary \in Nat /\ run \in Nat
  /\ pc \in {"align", "gaps", "move", "zero", "views", "done"}

(* The views as the pipeline left them.                                    *)
LaidOut(i) == MinOf(i * Length, capacity)
FramesInv ==
  /\ written = LaidOut(Len(frames))
  /\ \A i \in DOMAIN frames :
       /\ frames[i].at = LaidOut(i - 1) /\ frames[i].length = LaidOut(i) - LaidOut(i - 1)
       /\ frames[i].frame = i

(* Runs start with a frame, one after the other, and move no less than the *)
(* runs before them.                                                       *)
AtFrame(k) == \E m \in Nat : k = m * Length
RunsInv ==
  /\ runs # <<>> /\ runs[1].start = 0 /\ runs[1].offset = Lead
  /\ \A i, j \in DOMAIN runs :
       i < j => runs[i].start < runs[j].start /\ runs[i].offset <= runs[j].offset
  /\ \A i \in DOMAIN runs : AtFrame(runs[i].start) /\ (i > 1 => runs[i].start < written)

(* What boundaries have added to the runs.                                 *)
Offset(k) == runs[RunBefore(k)].offset
Resumes(n) ==
  \A at, before \in Nat :
    at = NonEmpty[n].at /\ before = Offset(at) =>
      LET fill == Silence(n, before)
      IN Offset(at + 1) = IF fill > 0 THEN before + fill ELSE before
GapsInv ==
  /\ boundary >= 2
  /\ \A n \in 1 .. Len(NonEmpty) :
       /\ n >= boundary => Last(runs).start < NonEmpty[n].at
       /\ n >= 2 /\ n < boundary => Resumes(n)

(* What the tensor has in the end.                                         *)
Final(p) ==
  IF \E k \in 1 .. written : Placed(k) = p
  THEN CHOOSE k \in 1 .. written : Placed(k) = p ELSE 0

(* The samples up to first are where they were, those past last are where  *)
(* they belong.                                                            *)
Between(first, last) ==
  /\ \A k \in 1 .. first : tensor[k] = k
  /\ \A p \in 1 .. capacity : p > last => tensor[p] = Final(p)

MoveInv ==
  /\ pc \in {"move", "zero"} => run \in 1 .. Len(runs)
  /\ pc \in {"align", "gaps"} =>
       \A k \in 1 .. capacity : tensor[k] = IF k <= written THEN k ELSE 0
  /\ pc = "move" => Between(RunEnd, RunEnd + runs[run].offset)
  /\ pc = "zero" => Between(runs[run].start, To)
  /\ pc = "views" => Between(0, 0)

IInv ==
  /\ TypeInv
  /\ pc \notin {"align", "done"} => request.output # NoTime
  /\ pc # "done" => FramesInv
  /\ pc \in {"gaps", "move", "zero", "views"} => RunsInv
  /\ pc = "gaps" => GapsInv
  /\ MoveInv
  /\ ViewsFollow /\ StartIsTrue

-------------------------------------------------------------------------------
(* Arithmetic.                                                             *)

(* What division leaves.                                                   *)
LEMMA Division ==
  ASSUME NEW n \in Nat, NEW d \in Nat \ {0}
  PROVE  /\ n \div d \in Nat
         /\ d * (n \div d) \in Nat
         /\ d * (n \div d) <= n /\ n < d * (n \div d) + d
OBVIOUS

(* Multiples are in the order of their factors.                            *)
LEMMA Multiples ==
  ASSUME NEW a \in Int, NEW b \in Int, NEW c \in Nat \ {0}
  PROVE  /\ a * c \in Int /\ b * c \in Int
         /\ (a + b) * c = a * c + b * c /\ (a - b) * c = a * c - b * c
         /\ (a + 1) * c = a * c + c /\ (a - 1) * c = a * c - c
         /\ a <= b <=> a * c <= b * c
         /\ a < b <=> a * c + c <= b * c
         /\ a >= 0 <=> a * c >= 0
<1>1. /\ a * c \in Int /\ b * c \in Int
      /\ (a + b) * c = a * c + b * c /\ (a - b) * c = a * c - b * c
      /\ (a + 1) * c = a * c + c /\ (a - 1) * c = a * c - c
  OBVIOUS
<1>2. ASSUME NEW x \in Nat PROVE x * c \in Nat
  BY <1>2
<1>3. ASSUME NEW x \in Int, NEW y \in Int PROVE x <= y => x * c <= y * c
  <2>1. SUFFICES ASSUME x <= y PROVE x * c <= y * c
    OBVIOUS
  <2>2. y - x \in Nat
    BY <2>1
  <2>3. (y - x) * c \in Nat
    BY <1>2, <2>2
  <2>4. (y - x) * c = y * c - x * c /\ x * c \in Int /\ y * c \in Int
    OBVIOUS
  <2>q. QED
    BY ONLY <2>3, <2>4
<1>4. ASSUME NEW x \in Int, NEW y \in Int PROVE x < y <=> x * c + c <= y * c
  <2>1. x < y => x * c + c <= y * c
    <3>1. x + 1 \in Int /\ (x < y => x + 1 <= y) /\ (x + 1) * c = x * c + c
      OBVIOUS
    <3>q. QED
      BY <1>3, <3>1
  <2>2. y <= x => y * c <= x * c
    BY <1>3
  <2>3. x * c \in Int /\ y * c \in Int
    OBVIOUS
  <2>q. QED
    BY <2>1, <2>2, <2>3
<1>5. a <= b <=> a * c <= b * c
  <2>1. b < a => b * c + c <= a * c
    BY <1>4
  <2>2. a <= b => a * c <= b * c
    BY <1>3
  <2>q. QED
    BY <1>1, <2>1, <2>2
<1>6. a >= 0 <=> a * c >= 0
  <2>1. 0 \in Int /\ 0 * c = 0
    OBVIOUS
  <2>2. 0 <= a => 0 * c <= a * c
    BY <1>3, <2>1
  <2>3. a < 0 => a * c + c <= 0 * c
    BY <1>4, <2>1
  <2>q. QED
    BY <1>1, <2>1, <2>2, <2>3
<1>7. a < b <=> a * c + c <= b * c
  BY <1>4
<1>q. QED
  BY <1>1, <1>5, <1>6, <1>7

(* A set of naturals that is not empty has a least element, and, if it is  *)
(* bounded, a greatest.                                                    *)
LEMMA LeastNatural ==
  ASSUME NEW S \in SUBSET Nat, S # {}
  PROVE  \E k \in S : \A l \in S : k <= l
<1> DEFINE Less == {pair \in Nat \X Nat : pair[1] < pair[2]}
<1>1. IsWellFoundedOn(Less, Nat)
  BY NatLessThanWellFounded, Zenon DEF OpToRel
<1>2. PICK k \in S : \A l \in S : ~ (<<l, k>> \in Less)
  BY <1>1, WFMin
<1>3. ASSUME NEW l \in S PROVE k <= l
  <2>1. l < k => <<l, k>> \in Less
    OBVIOUS
  <2>q. QED
    BY <1>2, <2>1
<1>q. QED
  BY <1>3

LEMMA GreatestNatural ==
  ASSUME NEW n \in Nat, NEW S \in SUBSET (0 .. n), S # {}
  PROVE  \E k \in S : \A l \in S : l <= k
<1> DEFINE T == {n - k : k \in S}
<1>1. T \in SUBSET Nat /\ T # {}
  OBVIOUS
<1>2. PICK t \in T : \A u \in T : t <= u
  BY <1>1, LeastNatural
<1>3. PICK k \in S : t = n - k
  BY <1>2
<1>4. ASSUME NEW l \in S PROVE l <= k
  <2>1. n - l \in T
    OBVIOUS
  <2>2. n - k <= n - l
    BY <1>2, <1>3, <2>1
  <2>q. QED
    BY <2>2
<1>q. QED
  BY <1>4

(* A time in samples is within half a sample of it.                        *)
LEMMA RoundedNear ==
  ASSUME NEW t \in Int
  PROVE  /\ Rounded(t) \in Int /\ Rounded(t) * Unit \in Int
         /\ 2 * (Rounded(t) * Unit) <= 2 * t + Unit
         /\ 2 * t - Unit <= 2 * (Rounded(t) * Unit)
         /\ t >= 0 => 2 * t + Unit < 2 * (Rounded(t) * Unit) + 2 * Unit
<1>1. Unit \in Nat \ {0} /\ 2 * Unit \in Nat \ {0}
  BY AlignAssumption
<1>2. CASE t < 0
  <2> DEFINE n == Unit - 2 * t
             q == n \div (2 * Unit)
  <2>1. n \in Nat
    BY <1>1, <1>2
  <2> HIDE DEF n
  <2>2. q \in Nat /\ (2 * Unit) * q <= n /\ n < (2 * Unit) * q + 2 * Unit
    BY <1>1, <2>1, Division
  <2>3. Rounded(t) = -q
    BY <1>2 DEF Rounded, n
  <2> HIDE DEF q
  <2>4. q * Unit \in Int /\ (2 * Unit) * q = 2 * (q * Unit) /\ (-q) * Unit = -(q * Unit)
    BY <1>1, <2>2
  <2>5. -q \in Int /\ Rounded(t) * Unit = -(q * Unit)
    BY <2>2, <2>3, <2>4
  <2>6. 2 * (q * Unit) <= Unit - 2 * t /\ Unit - 2 * t < 2 * (q * Unit) + 2 * Unit
    BY <2>2, <2>4 DEF n
  <2>q. QED
    BY ONLY <1>1, <1>2, <2>3, <2>4, <2>5, <2>6, t \in Int
<1>3. CASE t >= 0
  <2> DEFINE n == 2 * t + Unit
             q == n \div (2 * Unit)
  <2>1. n \in Nat
    BY <1>1, <1>3
  <2> HIDE DEF n
  <2>2. q \in Nat /\ (2 * Unit) * q <= n /\ n < (2 * Unit) * q + 2 * Unit
    BY <1>1, <2>1, Division
  <2>3. Rounded(t) = q
    BY <1>3 DEF Rounded, n
  <2> HIDE DEF q
  <2>4. q * Unit \in Int /\ (2 * Unit) * q = 2 * (q * Unit)
    BY <1>1, <2>2
  <2>6. 2 * (q * Unit) <= 2 * t + Unit /\ 2 * t + Unit < 2 * (q * Unit) + 2 * Unit
    BY <2>2, <2>4 DEF n
  <2>q. QED
    BY ONLY <1>1, <2>2, <2>3, <2>4, <2>6, t \in Int
<1>q. QED
  BY <1>2, <1>3

(* A threshold in samples is the least number of them that is no shorter.  *)
LEMMA CeilingAbove ==
  ASSUME NEW t \in Nat
  PROVE  /\ Ceiling(t) \in Int /\ Ceiling(t) * Unit \in Int
         /\ t <= Ceiling(t) * Unit /\ Ceiling(t) * Unit < t + Unit
<1>1. Unit \in Nat \ {0}
  BY AlignAssumption
<1> DEFINE q == (-t) \div Unit
<1>2. q \in Int /\ Unit * q <= -t /\ -t < Unit * q + Unit
  BY <1>1
<1>3. Ceiling(t) = -q
  BY DEF Ceiling
<1> HIDE DEF q
<1>4. q * Unit \in Int /\ Unit * q = q * Unit /\ (-q) * Unit = -(q * Unit)
  BY <1>1, <1>2
<1>5. q * Unit <= -t /\ -t < q * Unit + Unit
  BY <1>2, <1>4
<1>q. QED
  BY ONLY <1>1, <1>2, <1>3, <1>4, <1>5, t \in Nat

-------------------------------------------------------------------------------
(* Picking elements of a sequence keeps their order and leaves none out.   *)
LEMMA NthFacts ==
  ASSUME NEW k \in Nat, NEW I \in SUBSET (1 .. k)
  PROVE  /\ Cardinality(I) \in Nat
         /\ \A n \in 1 .. Cardinality(I) : Nth(I, n) \in I
         /\ \A n, m \in 1 .. Cardinality(I) : n < m => Nth(I, n) < Nth(I, m)
         /\ \A i \in I : \E n \in 1 .. Cardinality(I) : Nth(I, n) = i
<1> DEFINE c == Cardinality(I)
           Below(i) == {j \in I : j <= i}
           rank == [i \in I |-> Cardinality(Below(i))]
<1>1. IsFiniteSet(I) /\ c \in Nat
  <2>1. IsFiniteSet(1 .. k)
    BY FS_Interval
  <2>q. QED
    BY <2>1, FS_Subset, FS_CardinalityType
<1>2. ASSUME NEW i \in I
      PROVE  /\ IsFiniteSet(Below(i)) /\ Cardinality(Below(i)) \in 1 .. c
  <2>1. IsFiniteSet(Below(i)) /\ Cardinality(Below(i)) <= c
    BY <1>1, FS_Subset
  <2>2. Cardinality(Below(i)) \in Nat
    BY <2>1, FS_CardinalityType
  <2>3. i \in Below(i)
    OBVIOUS
  <2>4. Cardinality(Below(i)) # 0
    BY <2>1, <2>3, FS_EmptySet
  <2>q. QED
    BY <1>1, <2>1, <2>2, <2>4
<1>3. ASSUME NEW i \in I, NEW j \in I, i < j PROVE rank[i] < rank[j]
  <2>1. IsFiniteSet(Below(j)) /\ Below(i) \in SUBSET Below(j)
    <3>1. \A h \in I : h <= i => h <= j
      BY <1>3
    <3>q. QED
      BY <1>2, <3>1
  <2>2. j \in Below(j) /\ j \notin Below(i)
    BY <1>3
  <2>3. Cardinality(Below(i)) <= Cardinality(Below(j))
        /\ Cardinality(Below(i)) # Cardinality(Below(j))
    BY <2>1, <2>2, FS_Subset
  <2>4. Cardinality(Below(i)) \in Nat /\ Cardinality(Below(j)) \in Nat
    BY <1>2
  <2>q. QED
    BY <2>3, <2>4
<1>4. rank \in Injection(I, 1 .. c)
  <2>1. rank \in [I -> 1 .. c]
    BY <1>2
  <2>2. ASSUME NEW i \in I, NEW j \in I, rank[i] = rank[j] PROVE i = j
    <3>1. rank[i] \in 1 .. c /\ rank[j] \in 1 .. c
      BY <2>1
    <3>2. ~ (i < j) /\ ~ (j < i)
      BY <1>1, <1>3, <2>2, <3>1
    <3>q. QED
      BY <3>2
  <2>q. QED
    BY <2>1, <2>2 DEF Injection, IsInjective
<1>5. rank \in Surjection(I, 1 .. c)
  <2>1. IsFiniteSet(1 .. c) /\ Cardinality(1 .. c) = c
    BY <1>1, FS_Interval
  <2>q. QED
    BY <1>1, <1>4, <2>1, FS_Injection
<1>6. ASSUME NEW n \in 1 .. c PROVE Nth(I, n) \in I /\ rank[Nth(I, n)] = n
  <2>1. \E i \in I : rank[i] = n
    BY <1>5 DEF Surjection
  <2>2. \E i \in I : Cardinality(Below(i)) = n
    BY <2>1
  <2>3. Nth(I, n) \in I /\ Cardinality(Below(Nth(I, n))) = n
    BY <2>2, Zenon DEF Nth
  <2>q. QED
    BY <2>3
<1>7. ASSUME NEW n \in 1 .. c, NEW m \in 1 .. c, n < m PROVE Nth(I, n) < Nth(I, m)
  <2>1. /\ Nth(I, n) \in I /\ rank[Nth(I, n)] = n
        /\ Nth(I, m) \in I /\ rank[Nth(I, m)] = m
    BY <1>6
  <2>2. Nth(I, m) < Nth(I, n) => rank[Nth(I, m)] < rank[Nth(I, n)]
    BY <1>3, <2>1
  <2>3. Nth(I, n) \in Int /\ Nth(I, m) \in Int /\ n \in Int /\ m \in Int
    <3>1. I \subseteq Int
      OBVIOUS
    <3>2. n \in Int /\ m \in Int
      <4> HIDE DEF c
      <4>q. QED
        OBVIOUS
    <3>3. Nth(I, n) \in I /\ Nth(I, m) \in I
      BY <2>1
    <3>q. QED
      BY ONLY <3>1, <3>2, <3>3, Zenon
  <2> HIDE DEF rank
  <2>q. QED
    BY ONLY <1>7, <2>1, <2>2, <2>3
<1>8. ASSUME NEW i \in I PROVE \E n \in 1 .. c : Nth(I, n) = i
  <2>1. rank[i] \in 1 .. c
    BY <1>2
  <2>2. Nth(I, rank[i]) \in I /\ rank[Nth(I, rank[i])] = rank[i]
    BY <1>6, <2>1
  <2>3. Nth(I, rank[i]) = i
    BY <1>4, <2>2 DEF Injection, IsInjective
  <2>q. QED
    BY <2>1, <2>3
<1>q. QED
  BY <1>1, <1>6, <1>7, <1>8

(* What is left of the views while the gaps are found: all that are not    *)
(* empty, one after the other.                                             *)
Full == {i \in DOMAIN frames : frames[i].length > 0}

LEMMA PickedFacts ==
  ASSUME NEW s, NEW k \in Nat, NEW I \in SUBSET (1 .. k)
  PROVE  /\ Cardinality(I) \in Nat
         /\ Len(Picked(s, I)) = Cardinality(I) /\ DOMAIN Picked(s, I) = 1 .. Cardinality(I)
         /\ \A n \in 1 .. Cardinality(I) : Nth(I, n) \in I /\ Picked(s, I)[n] = s[Nth(I, n)]
<1>1. Cardinality(I) \in Nat /\ \A n \in 1 .. Cardinality(I) : Nth(I, n) \in I
  BY NthFacts
<1> DEFINE c == Cardinality(I)
           f == [n \in 1 .. c |-> s[Nth(I, n)]]
           S == {s[i] : i \in I}
<1>2. f \in [1 .. c -> S]
  BY <1>1
<1>3. f \in Seq(S)
  BY <1>1, <1>2, SeqDef
<1>4. Len(f) \in Nat /\ 1 .. Len(f) = 1 .. c
  BY <1>3, LenProperties
<1>5. Len(f) = c
  BY <1>1, <1>4
<1>q. QED
  BY <1>1, <1>5 DEF Picked

-------------------------------------------------------------------------------
(* Times of the request.                                                   *)
LEMMA Constants ==
  /\ Unit \in Nat \ {0} /\ Length \in Nat \ {0}
  /\ Threshold \in Nat /\ 2 * Unit <= Threshold
BY AlignAssumption DEF Threshold, MaxOf

(* The silence in front is, to half a sample, as long as the time it       *)
(* stands for.                                                             *)
LEMMA LeadFacts ==
  ASSUME Timed, request.output # NoTime
  PROVE  /\ StartTime \in Int /\ Lead \in Nat /\ Lead * Unit \in Nat
         /\ 2 * (Lead * Unit) <= 2 * (request.output - StartTime) + Unit
         /\ 2 * (request.output - StartTime) - Unit <= 2 * (Lead * Unit)
<1>1. request.output \in Int /\ request.decoded \in Int /\ NoTime \notin Int
      /\ Unit \in Nat \ {0}
  BY AlignAssumption DEF Timed
<1>2. Origin \in Int
  <2>1. request.other = NoTime \/ request.other \in Int
    BY DEF Timed, Time
  <2>2. request.start = NoTime \/ request.start \in Int
    BY DEF Timed, Time
  <2>q. QED
    BY <1>1, <2>1, <2>2 DEF Origin, MinOf, MaxOf
<1> DEFINE first == request.output
           r == Rounded(first - Origin)
<1>3. first - Origin \in Int
  BY <1>1, <1>2
<1>4. /\ r \in Int /\ r * Unit \in Int
      /\ 2 * (r * Unit) <= 2 * (first - Origin) + Unit
      /\ 2 * (first - Origin) - Unit <= 2 * (r * Unit)
  BY <1>3, RoundedNear
<1>5. Lead = 0 \/ (Lead = r /\ r > 0)
  BY <1>4 DEF Lead, MaxOf
<1> HIDE DEF r
<1>6. CASE Lead = 0
  <2>1. StartTime = first /\ Lead * Unit = 0
    BY <1>1, <1>6 DEF StartTime
  <2>q. QED
    BY ONLY <1>1, <1>6, <2>1
<1>7. CASE Lead = r /\ r > 0
  <2>1. StartTime = Origin
    BY <1>4, <1>7 DEF StartTime
  <2>2. r * Unit >= 0
    BY <1>1, <1>4, <1>7, Multiples
  <2>q. QED
    BY ONLY <1>2, <1>4, <1>7, <2>1, <2>2
<1>q. QED
  BY <1>5, <1>6, <1>7

-------------------------------------------------------------------------------
(* Views.                                                                  *)
LEMMA LaidOutFacts ==
  ASSUME capacity \in Nat, NEW i \in Nat, NEW j \in Nat
  PROVE  /\ i * Length \in Nat /\ LaidOut(i) \in 0 .. capacity
         /\ LaidOut(i) <= i * Length /\ LaidOut(0) = 0
         /\ LaidOut(i) < capacity => LaidOut(i) = i * Length
         /\ i <= j => LaidOut(i) <= LaidOut(j)
         /\ i < j /\ LaidOut(i) < capacity => LaidOut(i) < LaidOut(j)
<1>1. Length \in Nat \ {0}
  BY Constants
<1>2. /\ i * Length \in Nat /\ j * Length \in Nat /\ 0 * Length = 0
      /\ i <= j => i * Length <= j * Length
      /\ i < j => i * Length + Length <= j * Length
  BY <1>1, Multiples
<1> DEFINE a == i * Length
           b == j * Length
<1>3. LaidOut(i) = MinOf(a, capacity) /\ LaidOut(j) = MinOf(b, capacity)
      /\ LaidOut(0) = MinOf(0, capacity)
  BY <1>2 DEF LaidOut
<1>4. a \in Nat /\ b \in Nat /\ (i <= j => a <= b) /\ (i < j => a + Length <= b)
  BY <1>2
<1> HIDE DEF a, b
<1>5. /\ LaidOut(i) \in 0 .. capacity /\ LaidOut(i) <= a /\ LaidOut(0) = 0
      /\ LaidOut(i) < capacity => LaidOut(i) = a
      /\ i <= j => LaidOut(i) <= LaidOut(j)
      /\ i < j /\ LaidOut(i) < capacity => LaidOut(i) < LaidOut(j)
  BY <1>1, <1>3, <1>4 DEF MinOf
<1>q. QED
  BY <1>2, <1>5 DEF a

LEMMA ViewFacts ==
  ASSUME TypeInv, FramesInv
  PROVE  /\ capacity \in Nat /\ Len(frames) \in Nat /\ DOMAIN frames = 1 .. Len(frames)
         /\ \A i \in DOMAIN frames :
              /\ frames[i] \in Views /\ frames[i].frame = i
              /\ frames[i].at = LaidOut(i - 1) /\ frames[i].at + frames[i].length = LaidOut(i)
              /\ LaidOut(i) <= written
              /\ frames[i].length > 0 => frames[i].at = (i - 1) * Length
<1>1. /\ capacity \in Nat /\ Len(frames) \in Nat /\ DOMAIN frames = 1 .. Len(frames)
      /\ \A i \in DOMAIN frames : frames[i] \in Views
  BY LenProperties, ElementOfSeq DEF TypeInv, capacity
<1>2. ASSUME NEW i \in DOMAIN frames
      PROVE  /\ frames[i].frame = i /\ frames[i].at = LaidOut(i - 1)
             /\ frames[i].at + frames[i].length = LaidOut(i)
             /\ LaidOut(i) <= written
             /\ frames[i].length > 0 => frames[i].at = (i - 1) * Length
  <2>1. i \in Nat /\ i - 1 \in Nat /\ i <= Len(frames)
    BY <1>1
  <2>2. /\ LaidOut(i) \in 0 .. capacity /\ LaidOut(i - 1) \in 0 .. capacity
        /\ LaidOut(i - 1) < capacity => LaidOut(i - 1) = (i - 1) * Length
        /\ LaidOut(i) <= LaidOut(Len(frames))
    BY <1>1, <2>1, LaidOutFacts
  <2>3. /\ frames[i].frame = i /\ frames[i].at = LaidOut(i - 1)
        /\ frames[i].length = LaidOut(i) - LaidOut(i - 1)
        /\ written = LaidOut(Len(frames))
    BY DEF FramesInv
  <2> DEFINE a == LaidOut(i - 1)
             b == LaidOut(i)
             m == (i - 1) * Length
  <2> HIDE DEF a, b, m
  <2>4. /\ frames[i].at + frames[i].length = LaidOut(i) /\ LaidOut(i) <= written
        /\ frames[i].length > 0 => LaidOut(i - 1) < capacity
    <3>1. a \in 0 .. capacity /\ b \in 0 .. capacity
      BY <2>2 DEF a, b
    <3>2. frames[i].at = a /\ frames[i].length = b - a
      BY <2>3 DEF a, b
    <3>3. frames[i].at + frames[i].length = b /\ (frames[i].length > 0 => a < capacity)
      BY ONLY <1>1, <3>1, <3>2
    <3>q. QED
      BY <2>2, <2>3, <3>3 DEF a, b
  <2>q. QED
    BY <2>2, <2>3, <2>4
<1>q. QED
  BY <1>1, <1>2

(* The views that are not empty are the first ones.                        *)
LEMMA FullIsPrefix ==
  ASSUME TypeInv, FramesInv
  PROVE  \E m \in 0 .. Len(frames) : Full = 1 .. m
<1>1. Len(frames) \in Nat /\ DOMAIN frames = 1 .. Len(frames) /\ capacity \in Nat
  BY ViewFacts
<1>2. Full \in SUBSET (1 .. Len(frames)) /\ Full \in SUBSET (0 .. Len(frames))
  BY <1>1 DEF Full
<1>3. CASE Full = {}
  <2>1. Full = 1 .. 0
    BY <1>3
  <2>q. QED
    BY <1>1, <2>1
<1>4. CASE Full # {}
  <2>1. PICK m \in Full : \A i \in Full : i <= m
    BY <1>1, <1>2, <1>4, GreatestNatural
  <2>2. m \in 1 .. Len(frames)
    BY <1>2
  <2>3. ASSUME NEW i \in 1 .. m PROVE i \in Full
    <3>1. i \in DOMAIN frames /\ m \in DOMAIN frames
      BY <1>1, <2>2
    <3>2. i - 1 \in Nat /\ i \in Nat /\ m - 1 \in Nat /\ i - 1 <= m - 1 /\ i - 1 < i /\ m \in Nat
      BY <2>2
    <3>3. frames[m].length > 0 /\ frames[m].length = LaidOut(m) - LaidOut(m - 1)
      BY <3>1 DEF Full, FramesInv
    <3>4. LaidOut(m) \in 0 .. capacity /\ LaidOut(m - 1) \in 0 .. capacity
      BY <1>1, <3>2, LaidOutFacts
    <3>5. LaidOut(m - 1) < capacity
      BY ONLY <1>1, <3>3, <3>4
    <3>6. LaidOut(i - 1) <= LaidOut(m - 1) /\ LaidOut(i - 1) \in 0 .. capacity
          /\ LaidOut(i) \in 0 .. capacity
      BY <1>1, <3>2, LaidOutFacts
    <3>7. LaidOut(i - 1) < capacity
      BY ONLY <1>1, <3>4, <3>5, <3>6
    <3>8. LaidOut(i - 1) < LaidOut(i)
      BY <1>1, <3>2, <3>7, LaidOutFacts
    <3>9. frames[i].length = LaidOut(i) - LaidOut(i - 1)
      BY <3>1 DEF FramesInv
    <3>10. frames[i].length > 0
      BY ONLY <3>6, <3>8, <3>9
    <3>q. QED
      BY <3>1, <3>10 DEF Full
  <2>4. Full = 1 .. m
    <3>1. \A i \in Full : i \in 1 .. m
      BY ONLY <1>1, <1>2, <2>1, <2>2
    <3>q. QED
      BY ONLY <2>3, <3>1
  <2>q. QED
    BY <2>2, <2>4
<1>q. QED
  BY <1>3, <1>4

LEMMA NonEmptyFacts ==
  ASSUME TypeInv, FramesInv
  PROVE  /\ Len(NonEmpty) \in 0 .. Len(frames) /\ DOMAIN NonEmpty = 1 .. Len(NonEmpty)
         /\ Full = 1 .. Len(NonEmpty)
         /\ \A n \in 1 .. Len(NonEmpty) :
              n \in DOMAIN frames /\ NonEmpty[n] = frames[n] /\ frames[n].length > 0
<1>1. PICK m \in 0 .. Len(frames) : Full = 1 .. m
  BY FullIsPrefix
<1>2. Len(frames) \in Nat /\ DOMAIN frames = 1 .. Len(frames) /\ m \in Nat
      /\ Full \in SUBSET (1 .. Len(frames))
  BY <1>1, ViewFacts
<1>3. Cardinality(Full) = m
  BY <1>1, <1>2, FS_Interval
<1>4. ASSUME NEW n \in 1 .. m PROVE Nth(Full, n) = n
  <2>1. Nth(Full, n) = CHOOSE i \in 1 .. m : Cardinality({j \in 1 .. m : j <= i}) = n
    BY <1>1 DEF Nth
  <2>2. ASSUME NEW i \in 1 .. m PROVE Cardinality({j \in 1 .. m : j <= i}) = i
    <3>1. {j \in 1 .. m : j <= i} = 1 .. i
      BY <1>2
    <3>2. 1 \in Int /\ i \in Int /\ ~ (1 > i) /\ i - 1 + 1 = i
      BY <1>2
    <3>3. Cardinality(1 .. i) = i
      BY <3>2, FS_Interval
    <3>q. QED
      BY <3>1, <3>3
  <2>q. QED
    BY <2>1, <2>2
<1>5. /\ Len(NonEmpty) = m /\ DOMAIN NonEmpty = 1 .. m
      /\ \A n \in 1 .. m : NonEmpty[n] = frames[Nth(Full, n)]
  <2>1. NonEmpty = Picked(frames, Full)
    BY DEF NonEmpty, Full
  <2>q. QED
    BY ONLY <1>2, <1>3, <2>1, PickedFacts
<1>6. \A n \in 1 .. m : n \in DOMAIN frames /\ frames[n].length > 0
  BY <1>1 DEF Full
<1>q. QED
  BY <1>1, <1>4, <1>5, <1>6

-------------------------------------------------------------------------------
(* Runs.                                                                   *)
Run == [start : Nat, offset : Nat]

(* A sample lies in the last run that starts before it.                    *)
LastBefore(r, k, i) == r[i].start < k /\ \A j \in DOMAIN r : r[j].start < k => j <= i

LEMMA LastBeforeExists ==
  ASSUME NEW r \in Seq(Run), r # <<>>, r[1].start = 0, NEW k \in Nat \ {0}
  PROVE  /\ \E i \in DOMAIN r : LastBefore(r, k, i)
         /\ \A i, j \in DOMAIN r : LastBefore(r, k, i) /\ LastBefore(r, k, j) => i = j
<1>1. Len(r) \in Nat /\ DOMAIN r = 1 .. Len(r) /\ Len(r) # 0
  BY LenProperties, EmptySeq
<1> DEFINE S == {i \in 1 .. Len(r) : r[i].start < k}
<1>2. S \in SUBSET (0 .. Len(r)) /\ 1 \in S
  BY <1>1
<1>3. PICK i \in S : \A j \in S : j <= i
  BY <1>1, <1>2, GreatestNatural
<1>4. i \in DOMAIN r /\ LastBefore(r, k, i)
  BY <1>1, <1>3 DEF LastBefore
<1>5. ASSUME NEW m \in DOMAIN r, NEW n \in DOMAIN r, LastBefore(r, k, m), LastBefore(r, k, n)
      PROVE  m = n
  BY <1>1, <1>5 DEF LastBefore
<1>q. QED
  BY <1>4, <1>5

LEMMA RunsTyped ==
  ASSUME TypeInv
  PROVE  /\ runs \in Seq(Run) /\ Len(runs) \in Nat /\ DOMAIN runs = 1 .. Len(runs)
         /\ \A i \in DOMAIN runs : runs[i] \in Run /\ runs[i].start \in Nat /\ runs[i].offset \in Nat
<1>1. runs \in Seq(Run)
  BY DEF TypeInv, Run
<1>2. Len(runs) \in Nat /\ DOMAIN runs = 1 .. Len(runs) /\ \A i \in DOMAIN runs : runs[i] \in Run
  BY <1>1, LenProperties, ElementOfSeq
<1>q. QED
  BY <1>1, <1>2 DEF Run

LEMMA Sizes ==
  ASSUME TypeInv
  PROVE  capacity \in Nat /\ DOMAIN tensor = 1 .. capacity /\ written \in Nat /\ written <= capacity
<1>1. tensor \in Seq(Nat) /\ written \in 0 .. capacity
  BY DEF TypeInv
<1>2. capacity \in Nat /\ DOMAIN tensor = 1 .. capacity
  BY ONLY <1>1, LenProperties DEF capacity
<1>q. QED
  BY ONLY <1>1, <1>2

LEMMA SomeRuns ==
  ASSUME TypeInv, RunsInv
  PROVE  Len(runs) >= 1 /\ 1 \in DOMAIN runs /\ Len(runs) \in DOMAIN runs
<1>1. runs \in Seq(Run) /\ Len(runs) \in Nat /\ DOMAIN runs = 1 .. Len(runs)
  BY RunsTyped
<1>2. runs # <<>>
  BY DEF RunsInv
<1>3. Len(runs) # 0
  BY ONLY <1>1, <1>2, EmptySeq
<1>q. QED
  BY ONLY <1>1, <1>3

LEMMA RunBeforeFacts ==
  ASSUME TypeInv, RunsInv, NEW k \in Nat \ {0}
  PROVE  /\ RunBefore(k) \in DOMAIN runs /\ LastBefore(runs, k, RunBefore(k))
         /\ \A i \in DOMAIN runs : LastBefore(runs, k, i) => i = RunBefore(k)
<1>1. /\ \E i \in DOMAIN runs : LastBefore(runs, k, i)
      /\ \A i, j \in DOMAIN runs : LastBefore(runs, k, i) /\ LastBefore(runs, k, j) => i = j
  BY RunsTyped, LastBeforeExists DEF RunsInv
<1>2. RunBefore(k) = CHOOSE i \in DOMAIN runs : LastBefore(runs, k, i)
  BY DEF RunBefore, LastBefore
<1>3. RunBefore(k) \in DOMAIN runs /\ LastBefore(runs, k, RunBefore(k))
  BY <1>1, <1>2
<1>q. QED
  BY <1>1, <1>3

(* Where a run ends.                                                       *)
Stop(r) == IF r = Len(runs) THEN written ELSE runs[r + 1].start

LEMMA InRun ==
  ASSUME TypeInv, RunsInv, NEW r \in DOMAIN runs
  PROVE  /\ Stop(r) \in Nat /\ runs[r].start <= Stop(r) /\ Stop(r) <= written
         /\ \A k \in runs[r].start + 1 .. Stop(r) :
              k \in 1 .. written /\ Placed(k) = k + runs[r].offset
<1>1. /\ Len(runs) \in Nat /\ DOMAIN runs = 1 .. Len(runs) /\ r \in 1 .. Len(runs)
      /\ \A i \in DOMAIN runs : runs[i].start \in Nat /\ runs[i].offset \in Nat
      /\ written \in Nat
  BY RunsTyped, LenProperties DEF TypeInv, capacity
<1>2. Stop(r) \in Nat /\ runs[r].start <= Stop(r) /\ Stop(r) <= written
  <2>1. runs[r].start <= written
    <3>1. r = 1 => runs[r].start = 0
      BY DEF RunsInv
    <3>2. r > 1 => runs[r].start < written
      BY DEF RunsInv
    <3>q. QED
      BY <1>1, <3>1, <3>2
  <2>2. CASE r = Len(runs)
    BY <1>1, <2>1, <2>2 DEF Stop
  <2>3. CASE r # Len(runs)
    <3>1. r + 1 \in DOMAIN runs /\ r < r + 1 /\ r + 1 > 1
      BY <1>1, <2>3
    <3>2. runs[r].start < runs[r + 1].start /\ runs[r + 1].start < written
      BY <3>1 DEF RunsInv
    <3>3. runs[r].start \in Nat /\ runs[r + 1].start \in Nat
      BY <1>1, <3>1
    <3>q. QED
      BY <1>1, <2>3, <3>2, <3>3 DEF Stop
  <2>q. QED
    BY <2>2, <2>3
<1>3. ASSUME NEW k \in runs[r].start + 1 .. Stop(r)
      PROVE  k \in 1 .. written /\ Placed(k) = k + runs[r].offset
  <2>1. k \in Nat \ {0} /\ k \in 1 .. written /\ runs[r].start < k /\ k <= Stop(r)
    BY <1>1, <1>2
  <2>2. ASSUME NEW j \in DOMAIN runs, runs[j].start < k PROVE j <= r
    <3>1. SUFFICES ASSUME j > r PROVE FALSE
      BY <1>1
    <3>2. r # Len(runs) /\ r + 1 \in DOMAIN runs /\ (j = r + 1 \/ r + 1 < j)
      BY <1>1, <3>1
    <3>3. runs[r + 1].start <= runs[j].start
      BY <1>1, <3>2 DEF RunsInv
    <3>4. k <= runs[r + 1].start
      BY <2>1, <3>2 DEF Stop
    <3>q. QED
      BY <1>1, <2>1, <2>2, <3>2, <3>3, <3>4
  <2>3. LastBefore(runs, k, r)
    BY <2>1, <2>2 DEF LastBefore
  <2>4. RunBefore(k) = r
    BY <2>1, <2>3, RunBeforeFacts
  <2>q. QED
    BY <2>1, <2>4 DEF Placed
<1>q. QED
  BY <1>2, <1>3

(* Samples keep their order: no two come to the same place.                *)
LEMMA PlacedOrder ==
  ASSUME TypeInv, RunsInv, NEW k \in Nat \ {0}, NEW l \in Nat \ {0}
  PROVE  Placed(k) \in Nat /\ Placed(k) >= k /\ (k < l => Placed(k) < Placed(l))
<1> DEFINE a == RunBefore(k)
           b == RunBefore(l)
<1>1. /\ a \in DOMAIN runs /\ LastBefore(runs, k, a)
      /\ b \in DOMAIN runs /\ LastBefore(runs, l, b)
  BY RunBeforeFacts
<1>2. /\ runs[a].start \in Nat /\ runs[a].offset \in Nat /\ runs[b].offset \in Nat
      /\ a \in Nat /\ b \in Nat
  BY <1>1, RunsTyped
<1>3. Placed(k) = k + runs[a].offset /\ Placed(l) = l + runs[b].offset
  BY DEF Placed
<1> HIDE DEF a, b
<1>4. k < l => a <= b
  <2>1. SUFFICES ASSUME k < l PROVE a <= b
    OBVIOUS
  <2>2. runs[a].start < l
    BY <1>1, <1>2, <2>1 DEF LastBefore
  <2>q. QED
    BY <1>1, <2>2 DEF LastBefore
<1>5. k < l => runs[a].offset <= runs[b].offset
  <2>1. a < b => runs[a].offset <= runs[b].offset
    BY <1>1 DEF RunsInv
  <2>q. QED
    BY <1>2, <1>4, <2>1
<1>q. QED
  BY <1>2, <1>3, <1>5

LEMMA FinalOfPlaced ==
  ASSUME TypeInv, RunsInv, NEW k \in 1 .. written
  PROVE  Final(Placed(k)) = k
<1>1. written \in Nat /\ k \in Nat \ {0}
  BY LenProperties DEF TypeInv, capacity
<1> DEFINE found == CHOOSE l \in 1 .. written : Placed(l) = Placed(k)
<1>2. found \in 1 .. written /\ Placed(found) = Placed(k)
  OBVIOUS
<1>3. Final(Placed(k)) = found
  BY DEF Final
<1> HIDE DEF found
<1>4. found \in Nat \ {0}
  BY <1>1, <1>2
<1>5. /\ Placed(k) \in Nat /\ (k < found => Placed(k) < Placed(found))
      /\ Placed(found) \in Nat /\ (found < k => Placed(found) < Placed(k))
  BY <1>1, <1>4, PlacedOrder
<1>6. ~ (k < found) /\ ~ (found < k)
  BY <1>2, <1>5
<1>q. QED
  BY <1>1, <1>3, <1>4, <1>6

(* Between where one run ends and the next begins nothing comes.           *)
LEMMA NothingPlaced ==
  ASSUME TypeInv, RunsInv, NEW p \in Nat,
         \/ p <= runs[1].offset /\ p > 0
         \/ \E r \in DOMAIN runs : /\ r > 1 /\ p > runs[r].start + runs[r - 1].offset
                                   /\ p <= runs[r].start + runs[r].offset
         \/ p > written + runs[Len(runs)].offset
  PROVE  Final(p) = 0
<1>1. /\ Len(runs) \in Nat /\ DOMAIN runs = 1 .. Len(runs)
      /\ \A i \in DOMAIN runs : runs[i].start \in Nat /\ runs[i].offset \in Nat
      /\ written \in Nat /\ 1 \in DOMAIN runs /\ Len(runs) \in DOMAIN runs
  BY ONLY TypeInv, RunsInv, RunsTyped, SomeRuns, Sizes
<1>2. ASSUME NEW k \in 1 .. written PROVE Placed(k) # p
  <2> DEFINE b == RunBefore(k)
  <2>1. k \in Nat \ {0}
    BY <1>1
  <2>2. b \in DOMAIN runs /\ LastBefore(runs, k, b)
    BY <2>1, RunBeforeFacts
  <2>3. Placed(k) = k + runs[b].offset
    BY DEF Placed
  <2> HIDE DEF b
  <2>4. /\ runs[b].start \in Nat /\ runs[b].offset \in Nat /\ b \in 1 .. Len(runs)
        /\ runs[b].start < k
    BY <1>1, <2>2 DEF LastBefore
  <2>5. ASSUME NEW i \in DOMAIN runs, i <= b PROVE runs[i].offset <= runs[b].offset
    <3>1. i < b => runs[i].offset <= runs[b].offset
      BY <2>2 DEF RunsInv
    <3>2. i = b \/ i < b
      BY <1>1, <2>4, <2>5
    <3>q. QED
      BY <2>4, <3>1, <3>2
  <2>6. ASSUME NEW i \in DOMAIN runs, b <= i PROVE runs[b].offset <= runs[i].offset
    <3>1. b < i => runs[b].offset <= runs[i].offset
      BY <2>2 DEF RunsInv
    <3>2. i = b \/ b < i
      BY <1>1, <2>4, <2>6
    <3>q. QED
      BY <2>4, <3>1, <3>2
  <2>7. CASE p <= runs[1].offset
    <3>1. runs[1].offset <= runs[b].offset
      BY <1>1, <2>4, <2>5
    <3>2. runs[1].offset \in Nat
      BY <1>1
    <3>q. QED
      BY ONLY <2>1, <2>3, <2>4, <2>7, <3>1, <3>2, p \in Nat
  <2>8. ASSUME NEW r \in DOMAIN runs, r > 1, p > runs[r].start + runs[r - 1].offset,
               p <= runs[r].start + runs[r].offset
        PROVE  Placed(k) # p
    <3>1. /\ r \in 1 .. Len(runs) /\ r - 1 \in DOMAIN runs /\ r - 1 \in Nat
          /\ runs[r].start \in Nat /\ runs[r].offset \in Nat /\ runs[r - 1].offset \in Nat
      <4>1. r \in 1 .. Len(runs) /\ r \in Nat /\ r > 1 /\ Len(runs) \in Nat
        BY ONLY <1>1, <2>8, r \in DOMAIN runs
      <4>2. r - 1 \in 1 .. Len(runs) /\ r - 1 \in Nat
        BY ONLY <4>1
      <4>q. QED
        BY ONLY <1>1, <4>1, <4>2
    <3> DEFINE bs == runs[b].start
               bo == runs[b].offset
               rs == runs[r].start
               ro == runs[r].offset
               so == runs[r - 1].offset
    <3>2. /\ bs \in Nat /\ bo \in Nat /\ rs \in Nat /\ ro \in Nat /\ so \in Nat
          /\ bs < k /\ p > rs + so /\ p <= rs + ro /\ Placed(k) = k + bo
      BY <2>3, <2>4, <2>8, <3>1
    <3>3. CASE b >= r
      <4>1. ro <= bo
        BY <2>4, <2>5, <3>1, <3>3
      <4>2. r = b \/ r < b
        BY <2>4, <3>1, <3>3
      <4>3. r < b => rs < bs
        BY <2>2 DEF RunsInv
      <4>4. r = b => rs = bs
        OBVIOUS
      <4> HIDE DEF bs, bo, rs, ro, so
      <4>5. rs <= bs
        BY ONLY <3>2, <4>2, <4>3, <4>4
      <4>6. rs + ro < k + bo
        BY ONLY <2>1, <3>2, <4>1, <4>5
      <4>q. QED
        BY ONLY <2>1, <3>2, <4>6, p \in Nat
    <3>4. CASE b < r
      <4>1. b <= r - 1 /\ ~ (r <= b)
        BY <2>4, <3>1, <3>4
      <4>2. bo <= so
        BY <2>6, <3>1, <4>1
      <4>3. ~ (rs < k)
        BY <2>2, <4>1 DEF LastBefore
      <4> HIDE DEF bs, bo, rs, ro, so
      <4>4. k + bo <= rs + so
        BY ONLY <2>1, <3>2, <4>2, <4>3
      <4>q. QED
        BY ONLY <2>1, <3>2, <4>4, p \in Nat
    <3>5. b >= r \/ b < r
      BY <2>4, <3>1
    <3>q. QED
      BY <3>3, <3>4, <3>5
  <2>9. CASE p > written + runs[Len(runs)].offset
    <3>1. runs[b].offset <= runs[Len(runs)].offset /\ runs[Len(runs)].offset \in Nat
      BY <1>1, <2>4, <2>6
    <3>2. k <= written
      OBVIOUS
    <3>q. QED
      BY ONLY <1>1, <2>1, <2>3, <2>4, <2>9, <3>1, <3>2, p \in Nat
  <2>q. QED
    BY <2>7, <2>8, <2>9
<1>q. QED
  BY <1>2 DEF Final

(* Sample one comes after the silence in front.                            *)
LEMMA FirstPlaced ==
  ASSUME TypeInv, RunsInv
  PROVE  RunBefore(1) = 1 /\ Placed(1) = 1 + Lead
<1>1. /\ 1 \in DOMAIN runs /\ runs[1].start = 0 /\ runs[1].offset = Lead
      /\ DOMAIN runs = 1 .. Len(runs) /\ Len(runs) \in Nat
      /\ \A i \in DOMAIN runs : runs[i].start \in Nat
  BY SomeRuns, RunsTyped DEF RunsInv
<1>2. ASSUME NEW j \in DOMAIN runs, runs[j].start < 1 PROVE j <= 1
  <2>1. j > 1 => runs[1].start < runs[j].start
    BY <1>1 DEF RunsInv
  <2>2. j \in Nat /\ runs[j].start \in Nat
    BY <1>1
  <2>q. QED
    BY ONLY <1>1, <1>2, <2>1, <2>2
<1>3. LastBefore(runs, 1, 1)
  BY <1>1, <1>2 DEF LastBefore
<1>4. RunBefore(1) = 1
  BY <1>1, <1>3, RunBeforeFacts
<1>q. QED
  BY <1>1, <1>4 DEF Placed

(* Every sample written is seen through a view.                            *)
LEMMA InView ==
  ASSUME TypeInv, FramesInv, NEW p \in 1 .. written
  PROVE  \E i \in DOMAIN frames : p > frames[i].at /\ p <= frames[i].at + frames[i].length
<1>1. /\ capacity \in Nat /\ Len(frames) \in Nat /\ DOMAIN frames = 1 .. Len(frames)
      /\ written \in Nat /\ written = LaidOut(Len(frames)) /\ p \in Nat /\ p > 0
  BY ViewFacts, Sizes DEF FramesInv
<1> DEFINE S == {i \in 0 .. Len(frames) : p <= LaidOut(i)}
<1>2. Len(frames) \in S /\ S \in SUBSET Nat
  BY <1>1
<1>3. PICK i \in S : \A j \in S : i <= j
  BY <1>2, LeastNatural
<1>4. i \in 0 .. Len(frames) /\ p <= LaidOut(i)
  BY <1>3
<1>5. i # 0
  <2>1. LaidOut(0) = 0
    BY <1>1, LaidOutFacts
  <2>q. QED
    BY ONLY <1>1, <1>4, <2>1
<1>6. i \in DOMAIN frames /\ i - 1 \in 0 .. Len(frames) /\ ~ (i <= i - 1)
  BY ONLY <1>1, <1>4, <1>5
<1>7. ~ (p <= LaidOut(i - 1))
  BY <1>3, <1>6
<1>8. LaidOut(i - 1) \in Nat
  <2>1. i - 1 \in Nat
    BY <1>6
  <2>2. LaidOut(i - 1) \in 0 .. capacity
    BY <1>1, <2>1, LaidOutFacts
  <2>q. QED
    BY <1>1, <2>2
<1>9. frames[i].at = LaidOut(i - 1) /\ frames[i].at + frames[i].length = LaidOut(i)
  BY <1>6, ViewFacts
<1>10. p > frames[i].at
  BY ONLY <1>1, <1>7, <1>8, <1>9
<1>q. QED
  BY <1>4, <1>6, <1>9, <1>10

(* A view moves as its samples do: no run starts inside it.                *)
LEMMA SampleInView ==
  ASSUME TypeInv, FramesInv, RunsInv, NEW i \in DOMAIN frames, NEW n \in 1 .. frames[i].length
  PROVE  /\ frames[i].at + n \in 1 .. written
         /\ frames[i].at + n = (i - 1) * Length + n
         /\ RunOf(frames[i].at) \in DOMAIN runs
         /\ Placed(frames[i].at + n) = frames[i].at + runs[RunOf(frames[i].at)].offset + n
<1> DEFINE at == frames[i].at
           k  == at + n
<1>1. /\ at \in Nat /\ frames[i].length \in Nat /\ i \in Nat \ {0}
      /\ at + frames[i].length = LaidOut(i) /\ LaidOut(i) <= written
      /\ frames[i].length > 0 => at = (i - 1) * Length
  BY ViewFacts DEF Views
<1>2. n \in Nat \ {0} /\ n <= frames[i].length /\ frames[i].length > 0
  BY <1>1
<1>3. k \in 1 .. written /\ k \in Nat \ {0} /\ k <= LaidOut(i)
  <2>1. LaidOut(i) = at + frames[i].length
    BY <1>1
  <2>2. written \in Nat
    BY Sizes
  <2> HIDE DEF at
  <2>q. QED
    BY ONLY <1>1, <1>2, <2>1, <2>2
<1>4. Length \in Nat \ {0} /\ LaidOut(i) <= i * Length /\ LaidOut(i) \in Nat /\ i * Length \in Nat
  <2>1. capacity \in Nat /\ i \in Nat
    BY <1>1, Sizes
  <2>q. QED
    BY <2>1, Constants, LaidOutFacts
<1>5. at = (i - 1) * Length
  BY <1>1, <1>2
<1> HIDE DEF at
<1>6. ASSUME NEW j \in DOMAIN runs PROVE runs[j].start < k <=> runs[j].start <= at
  <2>1. PICK m \in Nat : runs[j].start = m * Length
    BY DEF RunsInv, AtFrame
  <2>2. runs[j].start \in Nat
    BY RunsTyped
  <2>3. i - 1 \in Int /\ m \in Int /\ i \in Int
    BY <1>1
  <2>4. m < i => m <= i - 1
    BY <2>3
  <2>5. /\ m <= i - 1 => m * Length <= (i - 1) * Length
        /\ m < i <=> m * Length + Length <= i * Length
        /\ m >= i => m * Length >= i * Length
    BY <1>4, <2>3, Multiples
  <2>6. runs[j].start < k => m < i
    <3>1. m >= i => runs[j].start >= k
      BY <1>3, <1>4, <2>1, <2>2, <2>5
    <3>q. QED
      BY <2>2, <2>3, <1>3, <3>1
  <2>7. runs[j].start < k => runs[j].start <= at
    BY <1>5, <2>1, <2>4, <2>5, <2>6
  <2>8. runs[j].start <= at => runs[j].start < k
    BY <1>1, <1>2, <2>2
  <2>q. QED
    BY <2>7, <2>8
<1>7. RunOf(at) = RunBefore(k)
  BY <1>6 DEF RunOf, RunBefore
<1>8. RunBefore(k) \in DOMAIN runs
  BY <1>3, RunBeforeFacts
<1>9. runs[RunBefore(k)].offset \in Nat
  BY <1>8, RunsTyped
<1>10. Placed(k) = k + runs[RunBefore(k)].offset
  BY DEF Placed
<1>11. Placed(k) = at + runs[RunOf(at)].offset + n
  BY <1>1, <1>2, <1>7, <1>9, <1>10
<1>q. QED
  BY <1>3, <1>5, <1>7, <1>8, <1>11 DEF at

LEMMA FinalFacts ==
  ASSUME NEW p, Final(p) # 0
  PROVE  Final(p) \in 1 .. written /\ Placed(Final(p)) = p
BY DEF Final

-------------------------------------------------------------------------------
(* What a step that leaves its parts alone leaves alone.                   *)
LEMMA SameRequest ==
  ASSUME request' = request
  PROVE  (Timed <=> Timed') /\ Lead' = Lead /\ StartTime' = StartTime
<1>1. Timed <=> Timed'
  BY DEF Timed
<1>2. Origin' = Origin
  BY DEF Origin
<1>3. StartsInWindow <=> StartsInWindow'
  BY DEF StartsInWindow, InWindow
<1>4. GapBefore <=> GapBefore'
  BY <1>2 DEF GapBefore
<1>5. Lead' = Lead
  BY <1>2, <1>3, <1>4 DEF Lead
<1>6. StartTime' = StartTime
  BY <1>2, <1>5 DEF StartTime
<1>q. QED
  BY <1>1, <1>5, <1>6

LEMMA SameFrames ==
  ASSUME UNCHANGED <<written, frames>>, capacity' = capacity
  PROVE  FramesInv <=> FramesInv'
BY DEF FramesInv, LaidOut

LEMMA SameRuns ==
  ASSUME UNCHANGED <<request, written, runs>>
  PROVE  /\ RunsInv <=> RunsInv'
         /\ \A k : Placed(k)' = Placed(k) /\ RunBefore(k)' = RunBefore(k)
         /\ \A p : Final(p)' = Final(p)
<1>1. RunsInv <=> RunsInv'
  BY SameRequest DEF RunsInv, AtFrame
<1>2. \A k : Placed(k)' = Placed(k) /\ RunBefore(k)' = RunBefore(k)
  BY DEF Placed, RunBefore
<1>3. \A p : Final(p)' = Final(p)
  BY <1>2 DEF Final
<1>q. QED
  BY <1>1, <1>2, <1>3

-------------------------------------------------------------------------------
(* The initial states.                                                     *)
LEMMA StreamsTimed ==
  ASSUME NEW first \in Time, NEW asked \in Requests(first), request = asked
  PROVE  Timed
<1>1. /\ NoTime \notin Int /\ Unit \in Int /\ Length \in Int /\ Length * Unit \in Int
      /\ Starts \union Others \subseteq Time
  BY AlignAssumption DEF Time
<1>2. CASE first = NoTime
  BY <1>2 DEF Requests, Timed
<1>3. CASE first # NoTime
  <2>1. first \in Int
    BY <1>3 DEF Time
  <2>2. PICK skipped \in {NoTime} \union {first - gap * Unit : gap \in {0, 3, 6}},
             reported \in {NoTime, first, first - 2 * Length * Unit},
             fill \in BOOLEAN, start \in Starts, other \in Others :
          asked = [decoded |-> IF skipped = NoTime THEN first ELSE skipped - Length * Unit,
                   output |-> first, skippedEnd |-> skipped, reported |-> reported,
                   fill |-> fill, start |-> start, other |-> other]
    BY <1>3 DEF Requests
  <2>3. skipped \in Time /\ (skipped # NoTime => skipped \in Int)
    BY <1>1, <2>1 DEF Time
  <2>4. reported \in Time /\ start \in Time /\ other \in Time
    <3>1. 2 * Length * Unit \in Int
      BY <1>1
    <3>2. first - 2 * Length * Unit \in Int
      BY <2>1, <3>1
    <3>q. QED
      BY <1>1, <2>1, <3>2 DEF Time
  <2>5. asked.decoded \in Int
    BY <1>1, <2>1, <2>2, <2>3
  <2>q. QED
    BY <2>1, <2>2, <2>3, <2>4, <2>5 DEF Timed
<1>q. QED
  BY <1>2, <1>3

LEMMA Initially ==
  Init => IInv
<1> SUFFICES ASSUME Init PROVE IInv
  OBVIOUS
<1>1. PICK pts \in Stamps, cap \in Capacities :
        /\ request \in {asked \in Requests(pts[1]) : Possible(asked)}
        /\ written = MinOf(Len(pts) * Length, cap)
        /\ frames = ViewsOf(pts, cap)
        /\ tensor = [k \in 1 .. cap |-> IF k <= written THEN k ELSE 0]
  BY Zenon DEF Init
<1>2. /\ pts \in Seq(Time) /\ pts # <<>> /\ Len(pts) \in Nat \ {0}
      /\ DOMAIN pts = 1 .. Len(pts) /\ \A i \in DOMAIN pts : pts[i] \in Time
  <2>1. pts \in Seq(Time) /\ pts # <<>>
    BY AlignAssumption DEF Time
  <2>q. QED
    BY ONLY <2>1, LenProperties, ElementOfSeq, EmptySeq
<1>3. cap \in Nat
  BY AlignAssumption
<1>4. Timed
  BY <1>1, <1>2, StreamsTimed
<1>5. tensor \in Seq(Nat) /\ capacity = cap
  <2>1. \A k \in 1 .. cap : (IF k <= written THEN k ELSE 0) \in Nat
    OBVIOUS
  <2>2. tensor \in [1 .. cap -> Nat]
    BY <1>1, <2>1
  <2>3. tensor \in Seq(Nat)
    BY ONLY <1>3, <2>2, SeqDef
  <2>4. Len(tensor) = cap
    BY <1>3, <2>2, <2>3, LenProperties
  <2>q. QED
    BY <2>3, <2>4 DEF capacity
<1>6. DOMAIN frames = 1 .. Len(pts)
  BY <1>1, <1>2 DEF ViewsOf
<1>7. ASSUME NEW i \in 1 .. Len(pts)
      PROVE  /\ frames[i] \in Views
             /\ frames[i].at = LaidOut(i - 1) /\ frames[i].length = LaidOut(i) - LaidOut(i - 1)
             /\ frames[i].frame = i
  <2>1. i \in DOMAIN pts /\ i \in Nat \ {0} /\ i - 1 \in Nat /\ i - 1 <= i
    BY <1>2
  <2>2. frames[i] = [at |-> LaidOut(i - 1), length |-> LaidOut(i) - LaidOut(i - 1),
                     pts |-> pts[i], frame |-> i]
    BY <1>1, <1>5, <2>1 DEF ViewsOf, LaidOut
  <2>3. LaidOut(i - 1) \in 0 .. cap /\ LaidOut(i) \in 0 .. cap /\ LaidOut(i - 1) <= LaidOut(i)
    BY <1>3, <1>5, <2>1, LaidOutFacts
  <2>4. LaidOut(i - 1) \in Nat /\ LaidOut(i) - LaidOut(i - 1) \in Nat
    BY ONLY <1>3, <2>3
  <2>5. pts[i] \in Time
    BY <1>2
  <2>q. QED
    BY ONLY <2>1, <2>2, <2>4, <2>5 DEF Views
<1>8. frames \in Seq(Views) /\ Len(frames) = Len(pts)
  <2>1. frames = [i \in 1 .. Len(pts) |-> frames[i]]
    BY <1>1, <1>2 DEF ViewsOf
  <2>2. frames \in [1 .. Len(pts) -> Views]
    BY ONLY <2>1, <1>7
  <2>3. frames \in Seq(Views)
    BY ONLY <1>2, <2>2, SeqDef
  <2>q. QED
    BY ONLY <1>2, <1>6, <2>3, LenProperties
<1>9. FramesInv
  <2>1. written = LaidOut(Len(frames))
    BY <1>1, <1>5, <1>8 DEF LaidOut
  <2>q. QED
    BY <1>6, <1>7, <2>1 DEF FramesInv
<1>10. written \in 0 .. capacity
  <2>1. LaidOut(Len(frames)) \in 0 .. capacity
    BY <1>2, <1>3, <1>5, <1>8, LaidOutFacts
  <2>q. QED
    BY <1>9, <2>1 DEF FramesInv
<1>11. TypeInv
  <2>1. runs \in Seq([start : Nat, offset : Nat]) /\ boundary \in Nat /\ run \in Nat
        /\ pc = "align"
    BY DEF Init
  <2>q. QED
    BY <1>4, <1>5, <1>8, <1>10, <2>1 DEF TypeInv
<1>12. pc = "align"
  BY DEF Init
<1>13. MoveInv
  BY <1>1, <1>5, <1>12 DEF MoveInv
<1>q. QED
  BY <1>9, <1>11, <1>12, <1>13 DEF IInv, ViewsFollow, StartIsTrue

-------------------------------------------------------------------------------
(* The steps.                                                              *)

(* A step of the control leaves the data typed as it was.                  *)
LEMMA SameTypes ==
  ASSUME TypeInv, UNCHANGED <<request, tensor, written, frames>>,
         (runs \in Seq(Run))', boundary' \in Nat, run' \in Nat,
         pc' \in {"align", "gaps", "move", "zero", "views", "done"}
  PROVE  TypeInv' /\ capacity' = capacity
<1>1. capacity' = capacity
  BY DEF capacity
<1>2. Timed'
  BY SameRequest DEF TypeInv
<1>3. (tensor \in Seq(Nat) /\ written \in 0 .. capacity /\ frames \in Seq(Views))'
  BY <1>1 DEF TypeInv, Views, Time
<1>q. QED
  BY <1>1, <1>2, <1>3 DEF TypeInv, Run

(* When nothing moved, the views are where their samples are.              *)
LEMMA WhereTheyWere ==
  ASSUME TypeInv, FramesInv,
         \A k \in 1 .. capacity : tensor[k] = IF k <= written THEN k ELSE 0
  PROVE  /\ \A i \in DOMAIN frames : frames[i].at + frames[i].length <= capacity
         /\ \A i \in DOMAIN frames : \A n \in 1 .. frames[i].length :
              tensor[frames[i].at + n] = (frames[i].frame - 1) * Length + n
         /\ \A p \in 1 .. written :
              \E i \in DOMAIN frames : p > frames[i].at /\ p <= frames[i].at + frames[i].length
<1>1. capacity \in Nat /\ written \in Nat /\ written <= capacity
  BY Sizes
<1>2. ASSUME NEW i \in DOMAIN frames
      PROVE  /\ frames[i].at + frames[i].length <= capacity
             /\ \A n \in 1 .. frames[i].length :
                  tensor[frames[i].at + n] = (frames[i].frame - 1) * Length + n
  <2>1. /\ frames[i].at \in Nat /\ frames[i].length \in Nat /\ frames[i].frame = i
        /\ frames[i].at + frames[i].length = LaidOut(i) /\ LaidOut(i) <= written
        /\ frames[i].length > 0 => frames[i].at = (i - 1) * Length
    BY ViewFacts DEF Views
  <2>2. frames[i].at + frames[i].length <= written
    BY <2>1
  <2>3. ASSUME NEW n \in 1 .. frames[i].length
        PROVE  tensor[frames[i].at + n] = (frames[i].frame - 1) * Length + n
    <3>1. frames[i].at + n \in 1 .. capacity /\ frames[i].at + n <= written
      BY <1>1, <2>1, <2>2
    <3>2. frames[i].at = (i - 1) * Length
      BY <2>1
    <3>3. tensor[frames[i].at + n] = frames[i].at + n
      BY <3>1
    <3>q. QED
      BY <2>1, <3>2, <3>3
  <2>q. QED
    BY <1>1, <2>1, <2>2, <2>3
<1>q. QED
  BY <1>2, InView

LEMMA LeftAloneStep ==
  ASSUME IInv, LeftAlone PROVE IInv'
<1>1. TypeInv /\ FramesInv /\ pc' = "done" /\ request.output = NoTime
      /\ \A k \in 1 .. capacity : tensor[k] = IF k <= written THEN k ELSE 0
  BY DEF IInv, LeftAlone, MoveInv
<1>2. UNCHANGED <<request, tensor, written, frames, runs, boundary, run>>
      /\ result'.samples = written
  BY DEF LeftAlone
<1>3. TypeInv' /\ capacity' = capacity
  BY <1>1, <1>2, SameTypes DEF TypeInv, Run
<1>4. ViewsFollow'
  BY <1>1, <1>2, <1>3, WhereTheyWere DEF ViewsFollow
<1>5. MoveInv' /\ StartIsTrue'
  BY <1>1, <1>2 DEF MoveInv, StartIsTrue
<1>q. QED
  BY <1>1, <1>3, <1>4, <1>5 DEF IInv

LEMMA UnmovedStep ==
  ASSUME IInv, Unmoved PROVE IInv'
<1>1. /\ TypeInv /\ FramesInv /\ RunsInv /\ pc' = "done" /\ request.output # NoTime
      /\ \A k \in 1 .. capacity : tensor[k] = IF k <= written THEN k ELSE 0
  BY DEF IInv, Unmoved, Judged, MoveInv
<1>2. UNCHANGED <<request, tensor, written, frames, runs, boundary, run>>
      /\ result' = [samples |-> written, start |-> request.output]
  BY DEF Unmoved
<1>3. TypeInv' /\ capacity' = capacity
  BY <1>1, <1>2, SameTypes DEF TypeInv, Run
<1>4. ViewsFollow'
  BY <1>1, <1>2, <1>3, WhereTheyWere DEF ViewsFollow
<1>5. StartIsTrue'
  <2>1. SUFFICES ASSUME NEW p \in 1 .. capacity, tensor[p] = 1
                 PROVE  2 * Abs(request.output + (p - 1) * Unit - request.output) <= Unit
    BY <1>1, <1>2, Sizes DEF StartIsTrue
  <2>2. p = 1
    BY <1>1, <2>1
  <2>3. request.output \in Int /\ Unit \in Nat
    BY <1>1, Constants DEF TypeInv, Timed
  <2>q. QED
    BY ONLY <2>2, <2>3 DEF Abs
<1>6. MoveInv'
  BY <1>1, <1>2 DEF MoveInv
<1>q. QED
  BY <1>1, <1>3, <1>4, <1>5, <1>6 DEF IInv

LEMMA BeginStep ==
  ASSUME IInv, Begin PROVE IInv'
<1>1. /\ TypeInv /\ FramesInv /\ pc' = "gaps" /\ request.output # NoTime
      /\ \A k \in 1 .. capacity : tensor[k] = IF k <= written THEN k ELSE 0
  BY DEF IInv, Begin, MoveInv
<1>2. UNCHANGED <<request, tensor, written, frames, run>>
      /\ runs' = <<[start |-> 0, offset |-> Lead]>> /\ boundary' = 2
  BY DEF Begin
<1>3. Lead \in Nat
  BY <1>1, LeadFacts DEF TypeInv
<1>4. TypeInv' /\ capacity' = capacity
  <2>1. <<[start |-> 0, offset |-> Lead]>> \in Seq(Run)
    BY <1>3 DEF Run
  <2>2. runs' \in Seq(Run) /\ boundary' \in Nat /\ run' \in Nat
    BY <1>1, <1>2, <2>1 DEF TypeInv
  <2>q. QED
    BY <1>1, <1>2, <2>2, SameTypes DEF Run
<1>5. FramesInv'
  BY <1>1, <1>2, <1>4, SameFrames
<1>6. /\ Len(runs') = 1 /\ DOMAIN runs' = {1} /\ runs'[1].start = 0 /\ runs'[1].offset = Lead
      /\ runs' # <<>> /\ Last(runs') = runs'[1]
  BY <1>2 DEF Last
<1>7. RunsInv'
  <2>1. Lead' = Lead
    BY <1>2, SameRequest
  <2>2. 0 = 0 * Length
    BY Constants
  <2>3. \A i \in DOMAIN runs' : \E m \in Nat : runs'[i].start = m * Length
    BY ONLY <1>6, <2>2
  <2>4. \A i, j \in DOMAIN runs' : ~ (i < j) /\ ~ (i > 1)
    BY ONLY <1>6
  <2>q. QED
    BY ONLY <1>6, <2>1, <2>3, <2>4 DEF RunsInv, AtFrame
<1>8. GapsInv'
  <2>1. NonEmpty' = NonEmpty
    BY <1>2 DEF NonEmpty
  <2>2. ASSUME NEW n \in 1 .. Len(NonEmpty), n >= 2 PROVE 0 < NonEmpty[n].at
    <3>1. /\ n \in DOMAIN frames /\ NonEmpty[n] = frames[n] /\ frames[n].length > 0
          /\ n \in Nat
      BY <1>1, NonEmptyFacts
    <3>2. frames[n].at = (n - 1) * Length
      BY <1>1, <3>1, ViewFacts
    <3>3. 0 < n - 1 /\ n - 1 \in Int /\ Length \in Nat \ {0} /\ 0 * Length = 0
      BY <2>2, <3>1, Constants
    <3>4. 0 * Length + Length <= (n - 1) * Length /\ (n - 1) * Length \in Int
      BY ONLY <3>3, Multiples
    <3>q. QED
      BY <3>1, <3>2, <3>3, <3>4
  <2>3. ~ (\E n \in 1 .. Len(NonEmpty) : n >= 2 /\ n < 2)
    BY <1>1, NonEmptyFacts
  <2>q. QED
    BY <1>1, <1>2, <1>6, <2>1, <2>2, <2>3 DEF GapsInv
<1>9. MoveInv' /\ ViewsFollow' /\ StartIsTrue'
  BY <1>1, <1>2, <1>4 DEF MoveInv, ViewsFollow, StartIsTrue
<1>q. QED
  BY <1>1, <1>2, <1>4, <1>5, <1>7, <1>8, <1>9 DEF IInv

(* The runs that were found are ones that can be spread.                   *)
LEMMA RunsSorted ==
  ASSUME TypeInv, RunsInv PROVE Sorted
<1>1. /\ Len(runs) \in Nat /\ DOMAIN runs = 1 .. Len(runs) /\ written \in 0 .. capacity
      /\ \A i \in DOMAIN runs : runs[i].start \in Nat /\ runs[i].offset \in Nat
      /\ 1 \in DOMAIN runs /\ written \in Nat
  BY RunsTyped, SomeRuns, Sizes DEF TypeInv
<1>2. runs # <<>> /\ runs[1].start = 0 /\ runs[1].offset >= 0
  BY <1>1 DEF RunsInv
<1>3. ASSUME NEW i \in 1 .. Len(runs) - 1
      PROVE  /\ runs[i].start < runs[i + 1].start /\ runs[i + 1].start <= written
             /\ runs[i].offset <= runs[i + 1].offset
  <2>1. i \in DOMAIN runs /\ i + 1 \in DOMAIN runs /\ i < i + 1 /\ i + 1 > 1
    BY <1>1
  <2>2. runs[i].start < runs[i + 1].start /\ runs[i].offset <= runs[i + 1].offset
    BY <2>1 DEF RunsInv
  <2>3. runs[i + 1].start < written
    BY <2>1 DEF RunsInv
  <2>4. runs[i + 1].start \in Nat
    BY <1>1, <2>1
  <2>q. QED
    BY ONLY <1>1, <2>2, <2>3, <2>4
<1>q. QED
  BY <1>1, <1>2, <1>3 DEF Sorted

LEMMA SpreadRunsStep ==
  ASSUME IInv, SpreadRuns PROVE IInv'
<1>1. /\ TypeInv /\ FramesInv /\ RunsInv /\ request.output # NoTime
      /\ \A k \in 1 .. capacity : tensor[k] = IF k <= written THEN k ELSE 0
  BY DEF IInv, SpreadRuns, Judged, MoveInv
<1>2. UNCHANGED <<request, tensor, written, frames, runs, boundary, result>>
      /\ pc' = "move" /\ run' = Len(runs)
  BY <1>1, RunsSorted DEF SpreadRuns
<1>3. Len(runs) \in 1 .. Len(runs) /\ Len(runs) \in DOMAIN runs /\ Len(runs) \in Nat
      /\ runs[Len(runs)].offset \in Nat
  BY <1>1, RunsTyped, SomeRuns
<1>4. TypeInv' /\ capacity' = capacity
  BY <1>1, <1>2, <1>3, SameTypes DEF TypeInv, Run
<1>5. FramesInv' /\ RunsInv' /\ \A p : Final(p)' = Final(p)
  BY <1>1, <1>2, <1>4, SameFrames, SameRuns
<1>6. Between(RunEnd, RunEnd + runs[run].offset)'
  <2>1. RunEnd' = written /\ runs'[run'].offset = runs[Len(runs)].offset
    BY <1>2 DEF RunEnd
  <2>2. capacity \in Nat /\ written \in Nat /\ written <= capacity
    BY <1>1, Sizes
  <2>3. \A k \in 1 .. written : tensor[k] = k
    BY <1>1, <2>2
  <2>4. ASSUME NEW p \in 1 .. capacity, p > written + runs[Len(runs)].offset
        PROVE  tensor[p] = Final(p)
    <3>1. Final(p) = 0
      BY <1>1, <2>2, <2>4, NothingPlaced
    <3>2. p > written /\ p \in Nat
      BY <1>3, <2>2, <2>4
    <3>3. ~ (p <= written)
      BY <2>2, <3>2
    <3>q. QED
      BY <1>1, <3>1, <3>3
  <2>q. QED
    BY <1>2, <1>4, <1>5, <2>1, <2>3, <2>4 DEF Between
<1>7. MoveInv'
  BY <1>2, <1>3, <1>6 DEF MoveInv
<1>q. QED
  BY <1>1, <1>2, <1>4, <1>5, <1>7 DEF IInv, ViewsFollow, StartIsTrue

LEMMA MoveStep ==
  ASSUME IInv, Move PROVE IInv'
<1>1. /\ TypeInv /\ FramesInv /\ RunsInv /\ request.output # NoTime
      /\ run \in 1 .. Len(runs) /\ Between(RunEnd, RunEnd + runs[run].offset)
  BY DEF IInv, Move, MoveInv
<1>2. UNCHANGED <<request, written, frames, runs, boundary, run, result>>
      /\ pc' = "zero" /\ tensor' = Moved
  BY DEF Move
<1> DEFINE start  == runs[run].start
           offset == runs[run].offset
           length == MinOf(RunEnd - start, capacity - To)
           end    == RunEnd
<1>3. /\ run \in DOMAIN runs /\ start \in Nat /\ offset \in Nat
      /\ capacity \in Nat /\ DOMAIN tensor = 1 .. capacity
      /\ written \in Nat /\ written <= capacity
  BY <1>1, RunsTyped, Sizes
<1>4. RunEnd = Stop(run) /\ To = start + offset
  BY DEF RunEnd, Stop, To
<1>5. end \in Nat /\ start <= end /\ end <= written
      /\ \A k \in start + 1 .. end : k \in 1 .. written /\ Placed(k) = k + offset
  BY <1>1, <1>3, <1>4, InRun
<1>6. /\ \A k \in 1 .. end : tensor[k] = k
      /\ \A p \in 1 .. capacity : p > end + offset => tensor[p] = Final(p)
  BY <1>1 DEF Between
<1>7. tensor' = [k \in 1 .. capacity |->
                   IF k > start + offset /\ k <= start + offset + length
                   THEN tensor[k - (start + offset) + start] ELSE tensor[k]]
  BY <1>2, <1>3, <1>4 DEF Moved, Destination
<1>8. length = MinOf(end - start, capacity - (start + offset))
  BY <1>4
<1> HIDE DEF start, offset, length, end
<1>9. /\ length \in Int /\ length <= end - start /\ length <= capacity - (start + offset)
      /\ length = end - start \/ length = capacity - (start + offset)
  BY <1>3, <1>5, <1>8 DEF MinOf
<1>10. ASSUME NEW p \in 1 .. capacity, p > start + offset, p <= start + offset + length
       PROVE  tensor'[p] \in Nat /\ tensor'[p] = Final(p)
  <2> DEFINE j == p - (start + offset) + start
  <2>1. j \in start + 1 .. end /\ j + offset = p /\ j \in 1 .. end
    BY <1>3, <1>5, <1>9, <1>10
  <2>2. tensor'[p] = tensor[j]
    BY <1>7, <1>10
  <2> HIDE DEF j
  <2>3. tensor[j] = j /\ j \in Nat
    BY <1>5, <1>6, <2>1
  <2>4. j \in 1 .. written /\ Placed(j) = p
    BY <1>5, <2>1
  <2>5. Final(p) = j
    BY <1>1, <2>4, FinalOfPlaced
  <2>q. QED
    BY <2>2, <2>3, <2>5
<1>11. ASSUME NEW p \in 1 .. capacity, ~ (p > start + offset /\ p <= start + offset + length)
       PROVE  tensor'[p] = tensor[p]
  BY <1>7, <1>11
<1>12. tensor' \in Seq(Nat) /\ capacity' = capacity
  <2>1. ASSUME NEW p \in 1 .. capacity PROVE tensor'[p] \in Nat
    <3>1. tensor[p] \in Nat
      BY <1>1, <1>3, ElementOfSeq DEF TypeInv, capacity
    <3>q. QED
      BY <1>10, <1>11, <3>1
  <2>2. DOMAIN tensor' = 1 .. capacity /\ tensor' = [p \in 1 .. capacity |-> tensor'[p]]
    BY <1>7
  <2>3. tensor' \in [1 .. capacity -> Nat]
    BY ONLY <2>1, <2>2
  <2>4. tensor' \in Seq(Nat)
    BY ONLY <1>3, <2>3, SeqDef
  <2>5. Len(tensor') = capacity
    BY ONLY <1>3, <2>2, <2>4, LenProperties
  <2>q. QED
    BY <2>4, <2>5 DEF capacity
<1>13. TypeInv'
  <2>1. Timed'
    BY <1>1, <1>2, SameRequest DEF TypeInv
  <2>q. QED
    BY <1>1, <1>2, <1>12, <2>1 DEF TypeInv, Views, Time
<1>14. FramesInv' /\ RunsInv' /\ \A p : Final(p)' = Final(p)
  BY <1>1, <1>2, <1>12, SameFrames, SameRuns
<1>15. Between(runs[run].start, To)'
  <2>1. runs'[run'].start = start /\ To' = start + offset
    BY <1>2 DEF start, offset, To
  <2>2. ASSUME NEW k \in 1 .. start PROVE tensor'[k] = k
    <3>1. k \in 1 .. capacity /\ ~ (k > start + offset) /\ k \in 1 .. end
      BY <1>3, <1>5
    <3>q. QED
      BY <1>6, <1>11, <3>1
  <2>3. ASSUME NEW p \in 1 .. capacity, p > start + offset PROVE tensor'[p] = Final(p)
    <3>1. CASE p <= start + offset + length
      BY <1>10, <2>3, <3>1
    <3>2. CASE ~ (p <= start + offset + length)
      <4>1. p > end + offset
        BY <1>3, <1>5, <1>9, <3>2
      <4>q. QED
        BY <1>6, <1>11, <3>2, <4>1
    <3>q. QED
      BY <3>1, <3>2
  <2>q. QED
    BY <1>12, <1>14, <2>1, <2>2, <2>3 DEF Between
<1>16. MoveInv'
  BY <1>1, <1>2, <1>15 DEF MoveInv
<1>q. QED
  BY <1>1, <1>2, <1>13, <1>14, <1>16 DEF IInv, ViewsFollow, StartIsTrue

LEMMA ZeroStep ==
  ASSUME IInv, Zero PROVE IInv'
<1>1. /\ TypeInv /\ FramesInv /\ RunsInv /\ request.output # NoTime
      /\ run \in 1 .. Len(runs) /\ Between(runs[run].start, To)
  BY DEF IInv, Zero, MoveInv
<1>2. /\ UNCHANGED <<request, written, frames, runs, boundary, result>>
      /\ tensor' = [k \in DOMAIN tensor |-> IF k > From /\ k <= To THEN 0 ELSE tensor[k]]
      /\ run' = run - 1 /\ pc' = IF run = 1 THEN "views" ELSE "move"
  BY DEF Zero
<1>3. /\ run \in DOMAIN runs /\ runs[run].start \in Nat /\ runs[run].offset \in Nat
      /\ Len(runs) \in Nat /\ run \in Nat
      /\ capacity \in Nat /\ DOMAIN tensor = 1 .. capacity
      /\ written \in Nat /\ written <= capacity
  BY <1>1, RunsTyped, Sizes
<1>4. To = runs[run].start + runs[run].offset /\ To \in Nat
  BY <1>3 DEF To
<1>5. /\ \A k \in 1 .. runs[run].start : tensor[k] = k
      /\ \A p \in 1 .. capacity : p > To => tensor[p] = Final(p)
  BY <1>1 DEF Between
<1>6. run = 1 => From = 0 /\ runs[run].start = 0
  BY <1>1 DEF From, RunsInv
<1>7. run # 1 => /\ run - 1 \in DOMAIN runs /\ run - 1 \in 1 .. Len(runs) /\ run - 1 # Len(runs)
                 /\ runs[run - 1].offset \in Nat
                 /\ From = runs[run].start + runs[run - 1].offset
  <2>1. run # 1 => run - 1 \in 1 .. Len(runs) /\ run - 1 # Len(runs)
    BY <1>1, <1>3
  <2>q. QED
    BY <1>1, <2>1, RunsTyped DEF From
<1>8. From \in Nat
  BY <1>3, <1>6, <1>7
<1>9. ASSUME NEW p \in 1 .. capacity, p > From PROVE tensor'[p] = Final(p)
  <2>1. CASE p <= To
    <3>1. tensor'[p] = 0
      BY <1>2, <1>3, <1>9, <2>1
    <3>2. Final(p) = 0
      <4>1. p \in Nat /\ p > 0
        OBVIOUS
      <4>2. run = 1 => p <= runs[1].offset
        BY <1>3, <1>4, <1>6, <2>1
      <4>3. run # 1 => run > 1 /\ p > runs[run].start + runs[run - 1].offset
                       /\ p <= runs[run].start + runs[run].offset
        BY <1>1, <1>4, <1>7, <1>9, <2>1
      <4>q. QED
        BY <1>1, <1>3, <4>1, <4>2, <4>3, NothingPlaced
    <3>q. QED
      BY <3>1, <3>2
  <2>2. CASE p > To
    <3>1. ~ (p <= To)
      BY <1>4, <2>2
    <3>q. QED
      BY <1>2, <1>3, <1>5, <2>2, <3>1
  <2>q. QED
    BY <1>4, <2>1, <2>2
<1>10. tensor' \in Seq(Nat) /\ capacity' = capacity
  <2>1. ASSUME NEW p \in 1 .. capacity PROVE tensor'[p] \in Nat
    <3>1. tensor[p] \in Nat
      BY <1>1, <1>3, ElementOfSeq DEF TypeInv, capacity
    <3>q. QED
      BY <1>2, <1>3, <3>1
  <2>2. DOMAIN tensor' = 1 .. capacity /\ tensor' = [p \in 1 .. capacity |-> tensor'[p]]
    BY <1>2, <1>3
  <2>3. tensor' \in [1 .. capacity -> Nat]
    BY ONLY <2>1, <2>2
  <2>4. tensor' \in Seq(Nat)
    BY ONLY <1>3, <2>3, SeqDef
  <2>5. Len(tensor') = capacity
    BY ONLY <1>3, <2>2, <2>4, LenProperties
  <2>q. QED
    BY <2>4, <2>5 DEF capacity
<1>11. TypeInv'
  <2>1. Timed'
    BY <1>1, <1>2, SameRequest DEF TypeInv
  <2>2. run' \in Nat
    BY <1>1, <1>2, <1>3
  <2>q. QED
    BY <1>1, <1>2, <1>10, <2>1, <2>2 DEF TypeInv, Views, Time
<1>12. FramesInv' /\ RunsInv' /\ \A p : Final(p)' = Final(p)
  BY <1>1, <1>2, <1>10, SameFrames, SameRuns
<1>13. MoveInv'
  <2>1. CASE run = 1
    <3>1. \A p \in 1 .. capacity : tensor'[p] = Final(p)
      BY <1>6, <1>9, <2>1
    <3>2. Between(0, 0)'
      BY <1>10, <1>12, <3>1 DEF Between
    <3>q. QED
      BY <1>2, <2>1, <3>2 DEF MoveInv
  <2>2. CASE run # 1
    <3>1. RunEnd' = runs[run].start /\ runs'[run'].offset = runs[run - 1].offset
      BY <1>2, <1>3, <1>7, <2>2 DEF RunEnd
    <3>2. ASSUME NEW k \in 1 .. runs[run].start PROVE tensor'[k] = k
      <4>1. ~ (k > From)
        BY <1>3, <1>7, <2>2
      <4>2. k \in 1 .. capacity
        <5>1. runs[run].start <= written
          <6>1. run > 1
            BY <1>1, <2>2
          <6>q. QED
            BY <1>1, <1>3, <6>1 DEF RunsInv
        <5>q. QED
          BY <1>3, <5>1
      <4>q. QED
        BY <1>2, <1>3, <1>5, <4>1, <4>2
    <3>3. Between(RunEnd, RunEnd + runs[run].offset)'
      BY <1>7, <1>9, <1>10, <1>12, <2>2, <3>1, <3>2 DEF Between
    <3>q. QED
      BY <1>2, <1>7, <2>2, <3>3 DEF MoveInv
  <2>q. QED
    BY <2>1, <2>2
<1>q. QED
  BY <1>1, <1>2, <1>11, <1>12, <1>13 DEF IInv, ViewsFollow, StartIsTrue

(* Every view that is kept follows its samples.                            *)
LEMMA KeptView ==
  ASSUME TypeInv, FramesInv, RunsInv, NEW i \in DOMAIN frames,
         \A p \in 1 .. capacity : tensor[p] = Final(p),
         NEW moved, moved = MovedView(frames[i]), frames[i].length = 0 \/ moved.length > 0
  PROVE  /\ moved \in Views /\ moved.frame = i
         /\ moved.at + moved.length <= capacity
         /\ \A n \in 1 .. moved.length : tensor[moved.at + n] = (i - 1) * Length + n
<1>1. /\ frames[i] \in Views /\ frames[i].frame = i
      /\ frames[i].at \in Nat /\ frames[i].length \in Nat
      /\ frames[i].at + frames[i].length <= written
      /\ capacity \in Nat /\ written \in Nat /\ written <= capacity
  <2>1. /\ frames[i] \in Views /\ frames[i].frame = i
        /\ frames[i].at + frames[i].length = LaidOut(i) /\ LaidOut(i) <= written
    BY ViewFacts
  <2>2. frames[i].at \in Nat /\ frames[i].length \in Nat
    BY <2>1 DEF Views
  <2>q. QED
    BY <2>1, <2>2, Sizes
<1>2. CASE frames[i].length = 0
  <2>1. moved = frames[i]
    BY <1>2 DEF MovedView
  <2>q. QED
    BY <1>1, <1>2, <2>1
<1>3. CASE frames[i].length # 0
  <2> DEFINE offset == runs[RunOf(frames[i].at)].offset
             to     == frames[i].at + offset
             length == MinOf(frames[i].length, capacity - to)
  <2>1. moved = [frames[i] EXCEPT !.at = to, !.length = length]
    BY <1>3 DEF MovedView
  <2>2. offset \in Nat
    <3>1. 1 \in 1 .. frames[i].length
      BY <1>1, <1>3
    <3>2. RunOf(frames[i].at) \in DOMAIN runs
      BY <3>1, SampleInView
    <3>q. QED
      BY <3>2, RunsTyped
  <2>3. /\ moved.at = to /\ moved.length = length /\ moved.frame = i
        /\ moved.pts = frames[i].pts
    BY <1>1, <2>1 DEF Views
  <2>4. ASSUME NEW n \in 1 .. frames[i].length
        PROVE  /\ frames[i].at + n \in 1 .. written
               /\ frames[i].at + n = (i - 1) * Length + n
               /\ Placed(frames[i].at + n) = to + n
    BY <2>4, SampleInView
  <2> HIDE DEF offset
  <2>5. /\ to \in Nat /\ length \in Nat /\ length <= frames[i].length /\ to + length <= capacity
    <3>1. length > 0
      BY <1>3, <2>3
    <3>2. to \in Nat /\ length = MinOf(frames[i].length, capacity - to)
      BY <1>1, <2>2
    <3> HIDE DEF to, length
    <3>q. QED
      BY ONLY <1>1, <3>1, <3>2 DEF MinOf
  <2> HIDE DEF to, length
  <2>6. moved \in Views
    BY <1>1, <2>1, <2>5 DEF Views
  <2>7. ASSUME NEW n \in 1 .. length PROVE tensor[to + n] = (i - 1) * Length + n
    <3>1. n \in 1 .. frames[i].length /\ to + n \in 1 .. capacity
      BY <1>1, <2>5
    <3>2. /\ frames[i].at + n \in 1 .. written
          /\ frames[i].at + n = (i - 1) * Length + n
          /\ Placed(frames[i].at + n) = to + n
      BY <2>4, <3>1
    <3>3. Final(to + n) = frames[i].at + n
      BY <3>2, FinalOfPlaced
    <3>q. QED
      BY <3>1, <3>2, <3>3
  <2>q. QED
    BY <2>3, <2>5, <2>6, <2>7
<1>q. QED
  BY <1>2, <1>3

(* A sample that is still there is in a view that was kept.                *)
LEMMA SampleKept ==
  ASSUME TypeInv, FramesInv, RunsInv, NEW p \in 1 .. capacity, Final(p) # 0
  PROVE  \E i \in DOMAIN frames :
           /\ MovedView(frames[i]).length > 0
           /\ p > MovedView(frames[i]).at
           /\ p <= MovedView(frames[i]).at + MovedView(frames[i]).length
<1> DEFINE k == Final(p)
<1>1. k \in 1 .. written /\ Placed(k) = p
  BY FinalFacts
<1> HIDE DEF k
<1>2. PICK i \in DOMAIN frames : k > frames[i].at /\ k <= frames[i].at + frames[i].length
  BY <1>1, InView
<1>3. /\ frames[i] \in Views /\ frames[i].at \in Nat /\ frames[i].length \in Nat
      /\ capacity \in Nat /\ k \in Nat
  BY <1>1, ViewFacts, Sizes DEF Views
<1> DEFINE n      == k - frames[i].at
           offset == runs[RunOf(frames[i].at)].offset
           to     == frames[i].at + offset
           length == MinOf(frames[i].length, capacity - to)
<1>4. n \in 1 .. frames[i].length /\ frames[i].at + n = k /\ frames[i].length # 0
  BY <1>2, <1>3
<1>5. Placed(k) = to + n /\ offset \in Nat
  <2>1. /\ Placed(frames[i].at + n) = to + n
        /\ RunOf(frames[i].at) \in DOMAIN runs
    BY <1>4, SampleInView
  <2>q. QED
    BY <1>4, <2>1, RunsTyped
<1>6. MovedView(frames[i]) = [frames[i] EXCEPT !.at = to, !.length = length]
  BY <1>4 DEF MovedView
<1>7. MovedView(frames[i]).at = to /\ MovedView(frames[i]).length = length
  BY <1>3, <1>6 DEF Views
<1>8. to \in Nat /\ p = to + n /\ p <= capacity /\ p \in Nat
  BY <1>1, <1>3, <1>5
<1>9. length = MinOf(frames[i].length, capacity - to)
  OBVIOUS
<1> HIDE DEF n, to, length
<1>10. length > 0 /\ p > to /\ p <= to + length
  BY ONLY <1>3, <1>4, <1>8, <1>9 DEF MinOf
<1>q. QED
  BY <1>7, <1>10

LEMMA MoveViewsStep ==
  ASSUME IInv, MoveViews PROVE IInv'
<1>1. /\ TypeInv /\ FramesInv /\ RunsInv /\ request.output # NoTime
      /\ \A p \in 1 .. capacity : tensor[p] = Final(p)
  <2>1. Between(0, 0) /\ TypeInv
    BY DEF IInv, MoveViews, MoveInv
  <2>2. \A p \in 1 .. capacity : p > 0
    BY <2>1, Sizes
  <2>q. QED
    BY <2>1, <2>2 DEF IInv, MoveViews, Between
<1> DEFINE moved == [i \in DOMAIN frames |-> MovedView(frames[i])]
           kept  == {i \in DOMAIN frames : frames[i].length = 0 \/ moved[i].length > 0}
<1>2. /\ UNCHANGED <<request, tensor, written, runs, boundary, run>>
      /\ pc' = "done" /\ frames' = Picked(moved, kept)
      /\ result' = [samples |-> Samples, start |-> StartTime]
  BY Zenon DEF MoveViews
<1>3. capacity \in Nat /\ Len(frames) \in Nat /\ DOMAIN frames = 1 .. Len(frames)
      /\ DOMAIN tensor = 1 .. capacity /\ capacity' = capacity
  BY <1>1, <1>2, ViewFacts, Sizes DEF capacity
<1>4. kept \in SUBSET (1 .. Len(frames))
  BY <1>3
<1>5. ASSUME NEW i \in kept
      PROVE  /\ moved[i] \in Views /\ moved[i].frame = i
             /\ moved[i].at + moved[i].length <= capacity
             /\ \A n \in 1 .. moved[i].length : tensor[moved[i].at + n] = (i - 1) * Length + n
  <2>1. i \in DOMAIN frames /\ moved[i] = MovedView(frames[i])
        /\ (frames[i].length = 0 \/ moved[i].length > 0)
    OBVIOUS
  <2>q. QED
    BY <1>1, <2>1, KeptView
<1>6. ASSUME NEW p \in 1 .. capacity, tensor[p] # 0
      PROVE  \E i \in kept : p > moved[i].at /\ p <= moved[i].at + moved[i].length
  <2>1. Final(p) # 0
    BY <1>1, <1>6
  <2>2. PICK i \in DOMAIN frames :
          /\ MovedView(frames[i]).length > 0
          /\ p > MovedView(frames[i]).at
          /\ p <= MovedView(frames[i]).at + MovedView(frames[i]).length
    BY <1>1, <2>1, SampleKept
  <2>3. moved[i] = MovedView(frames[i]) /\ i \in kept
    BY <2>2
  <2>q. QED
    BY <2>2, <2>3
<1> DEFINE c == Cardinality(kept)
<1> HIDE DEF moved, kept
<1>7. /\ c \in Nat /\ Len(frames') = c /\ DOMAIN frames' = 1 .. c
      /\ \A m \in 1 .. c : Nth(kept, m) \in kept /\ frames'[m] = moved[Nth(kept, m)]
      /\ \A i \in kept : \E m \in 1 .. c : Nth(kept, m) = i
  <2> DEFINE picked == Picked(moved, kept)
  <2>1. /\ c \in Nat /\ Len(picked) = c /\ DOMAIN picked = 1 .. c
        /\ \A m \in 1 .. c : Nth(kept, m) \in kept /\ picked[m] = moved[Nth(kept, m)]
    BY ONLY <1>3, <1>4, PickedFacts
  <2>2. \A i \in kept : \E m \in 1 .. c : Nth(kept, m) = i
    BY ONLY <1>3, <1>4, NthFacts
  <2>3. frames' = picked
    BY <1>2
  <2> HIDE DEF picked, c
  <2>q. QED
    BY ONLY <2>1, <2>2, <2>3
<1>8. frames' \in Seq(Views)
  <2>1. frames' = [m \in 1 .. c |-> frames'[m]]
    BY <1>2, <1>7 DEF Picked
  <2>2. frames' \in [1 .. c -> Views]
    BY ONLY <1>5, <1>7, <2>1
  <2>q. QED
    BY ONLY <1>7, <2>2, SeqDef
<1>9. TypeInv'
  <2>1. Timed'
    BY <1>1, <1>2, SameRequest DEF TypeInv
  <2>q. QED
    BY <1>1, <1>2, <1>3, <1>8, <2>1 DEF TypeInv, Views, Time
<1>10. ViewsFollow'
  <2>1. \A m \in DOMAIN frames' : frames'[m].at + frames'[m].length <= capacity
    BY <1>5, <1>7
  <2>2. ASSUME NEW m \in DOMAIN frames', NEW n \in 1 .. frames'[m].length
        PROVE  tensor[frames'[m].at + n] = (frames'[m].frame - 1) * Length + n
    <3>1. m \in 1 .. c /\ Nth(kept, m) \in kept /\ frames'[m] = moved[Nth(kept, m)]
      BY <1>7
    <3>q. QED
      BY <1>5, <2>2, <3>1
  <2>3. ASSUME NEW p \in 1 .. Samples, tensor[p] # 0
        PROVE  \E m \in DOMAIN frames' :
                 p > frames'[m].at /\ p <= frames'[m].at + frames'[m].length
    <3>1. p \in 1 .. capacity
      <4>1. Samples \in Int /\ Samples <= capacity
        <5>1. Len(runs) \in DOMAIN runs
          BY <1>1, SomeRuns
        <5>2. Last(runs).offset \in Nat /\ written \in Nat
          BY <1>1, <5>1, RunsTyped, Sizes DEF Last
        <5>q. QED
          BY <1>3, <5>2 DEF Samples, MinOf
      <4>q. QED
        BY <1>3, <4>1
    <3>2. PICK i \in kept : p > moved[i].at /\ p <= moved[i].at + moved[i].length
      BY <1>6, <2>3, <3>1
    <3>3. PICK m \in 1 .. c : Nth(kept, m) = i
      BY <1>7
    <3>q. QED
      BY <1>7, <3>2, <3>3
  <2>q. QED
    BY <1>2, <1>3, <2>1, <2>2, <2>3 DEF ViewsFollow
<1>11. StartIsTrue'
  <2>1. ASSUME NEW p \in 1 .. capacity, tensor[p] = 1
        PROVE  2 * Abs(StartTime + (p - 1) * Unit - request.output) <= Unit
    <3>1. Final(p) = 1
      BY <1>1, <2>1
    <3>2. Placed(1) = p
      BY <3>1, FinalFacts
    <3>3. p = 1 + Lead
      BY <1>1, <3>2, FirstPlaced
    <3>4. /\ StartTime \in Int /\ Lead \in Nat /\ Lead * Unit \in Nat
          /\ 2 * (Lead * Unit) <= 2 * (request.output - StartTime) + Unit
          /\ 2 * (request.output - StartTime) - Unit <= 2 * (Lead * Unit)
      BY <1>1, LeadFacts DEF TypeInv
    <3>5. p - 1 = Lead
      BY <3>3, <3>4
    <3>6. request.output \in Int /\ Unit \in Nat
      BY <1>1, Constants DEF TypeInv, Timed
    <3> DEFINE lead == Lead * Unit
    <3>7. lead \in Nat /\ 2 * lead <= 2 * (request.output - StartTime) + Unit
          /\ 2 * (request.output - StartTime) - Unit <= 2 * lead
          /\ (p - 1) * Unit = lead
      BY <3>4, <3>5
    <3> HIDE DEF lead
    <3>q. QED
      BY ONLY <3>4, <3>6, <3>7 DEF Abs
  <2>q. QED
    BY <1>2, <1>3, <2>1 DEF StartIsTrue
<1>12. MoveInv'
  BY <1>2 DEF MoveInv
<1>q. QED
  BY <1>1, <1>2, <1>9, <1>10, <1>11, <1>12 DEF IInv

-------------------------------------------------------------------------------
(* Gaps.                                                                   *)

(* A gap is between two known timestamps: it has a length, and a time at   *)
(* which the sound resumes.                                                *)
LEMMA GapTyped ==
  ASSUME TypeInv, FramesInv, NEW n \in 1 .. Len(NonEmpty), IsGap(NonEmpty, n)
  PROVE  /\ n - 1 \in 1 .. Len(NonEmpty)
         /\ EndOf(NonEmpty, n - 1) \in Int /\ StartOf(NonEmpty, n) \in Int
         /\ GapAt(NonEmpty, n).gap = StartOf(NonEmpty, n) - EndOf(NonEmpty, n - 1)
         /\ GapAt(NonEmpty, n).gap \in Nat /\ GapAt(NonEmpty, n).gap > Threshold
         /\ GapAt(NonEmpty, n).samples = Rounded(GapAt(NonEmpty, n).gap)
         /\ GapAt(NonEmpty, n).samples \in Int
         /\ GapAt(NonEmpty, n).resume \in Int
         /\ GapAt(NonEmpty, n).at = NonEmpty[n].at
<1> DEFINE views == NonEmpty
<1>1. /\ DOMAIN views = 1 .. Len(views) /\ Len(views) \in Nat
      /\ \A i \in 1 .. Len(views) : views[i].pts \in Time
  <2>1. /\ DOMAIN views = 1 .. Len(views) /\ Len(views) \in 0 .. Len(frames)
        /\ \A i \in 1 .. Len(views) : i \in DOMAIN frames /\ views[i] = frames[i]
    BY NonEmptyFacts
  <2>2. Len(frames) \in Nat /\ \A i \in DOMAIN frames : frames[i] \in Views
    BY ViewFacts
  <2>q. QED
    BY ONLY <2>1, <2>2 DEF Views
<1> HIDE DEF views
<1>2. Duration \in Int /\ Threshold \in Nat
  BY Constants DEF Duration
<1>3. ASSUME NEW i, Known(views, i) PROVE i \in 1 .. Len(views) /\ views[i].pts \in Int
  BY <1>1, <1>3 DEF Known, Time
<1>4. Known(views, n - 1) /\ Known(views, n) /\ GapAt(views, n).gap > Threshold
  BY DEF IsGap, views
<1>5. EndOf(views, n - 1) \in Int
  <2>1. views[n - 1].pts + Duration \in Int
    BY <1>2, <1>3, <1>4
  <2>2. Known(views, n - 1 - 1) => views[n - 1 - 1].pts + 2 * Duration \in Int
    BY <1>2, <1>3
  <2>q. QED
    BY <2>1, <2>2 DEF EndOf, MaxOf
<1>6. FromAfter(views, n) = NoTime \/ FromAfter(views, n) \in Int
  <2>1. Known(views, n + 1) => views[n + 1].pts - Duration \in Int
    BY <1>2, <1>3
  <2>q. QED
    BY <2>1 DEF FromAfter
<1>7. StartOf(views, n) \in Int
  <2>1. views[n].pts \in Int
    BY <1>3, <1>4
  <2>q. QED
    BY <1>6, <2>1 DEF StartOf, MinOf
<1>8. /\ GapAt(views, n).gap = StartOf(views, n) - EndOf(views, n - 1)
      /\ GapAt(views, n).samples = Rounded(GapAt(views, n).gap)
      /\ GapAt(views, n).at = views[n].at
      /\ \/ GapAt(views, n).resume = StartOf(views, n)
         \/ GapAt(views, n).resume = views[n].pts
  BY DEF GapAt
<1>9. GapAt(views, n).gap \in Nat
  <2>1. GapAt(views, n).gap \in Int
    BY <1>5, <1>7, <1>8
  <2>q. QED
    BY ONLY <1>2, <1>4, <2>1
<1>10. GapAt(views, n).samples \in Int
  <2>1. GapAt(views, n).gap \in Int
    BY <1>9
  <2>q. QED
    BY <1>8, <2>1, RoundedNear
<1>11. GapAt(views, n).resume \in Int
  BY <1>3, <1>4, <1>7, <1>8
<1>q. QED
  BY <1>3, <1>4, <1>5, <1>7, <1>8, <1>9, <1>10, <1>11 DEF views

LEMMA SilenceTyped ==
  ASSUME TypeInv, FramesInv, request.output # NoTime,
         NEW n \in 1 .. Len(NonEmpty), NEW offset \in Nat
  PROVE  Silence(n, offset) \in Int
<1>1. CASE FillsGaps /\ IsGap(NonEmpty, n)
  <2> DEFINE gap == GapAt(NonEmpty, n)
  <2>1. gap.samples \in Int /\ gap.resume \in Int /\ gap.at = NonEmpty[n].at
    BY <1>1, GapTyped
  <2>2. gap.at \in Nat
    <3>1. n \in DOMAIN frames /\ NonEmpty[n] = frames[n]
      BY NonEmptyFacts
    <3>q. QED
      BY <2>1, <3>1, ViewFacts DEF Views
  <2>3. StartTime \in Int
    BY LeadFacts DEF TypeInv
  <2> HIDE DEF gap
  <2>4. gap.resume - StartTime \in Int
    BY <2>1, <2>3
  <2>5. Rounded(gap.resume - StartTime) \in Int
    BY <2>4, RoundedNear
  <2>6. Fill(gap, offset) \in Int
    BY <2>1, <2>2, <2>5 DEF Fill
  <2>q. QED
    BY <1>1, <2>6 DEF Silence, gap
<1>2. CASE ~ (FillsGaps /\ IsGap(NonEmpty, n))
  BY <1>2 DEF Silence
<1>q. QED
  BY <1>1, <1>2

(* What is filled brings the sound back to its timestamp, unless that      *)
(* differs from the gap by more than the threshold.                        *)
LEMMA Filled ==
  ASSUME NEW gap \in Nat, gap > Threshold, NEW resume \in Int, NEW from \in Int,
         NEW place \in Nat, NEW fill, NEW to,
         fill = (LET toTimestamp == Rounded(resume - from) - place
                 IN IF Abs(toTimestamp - Rounded(gap)) <= Ceiling(Threshold)
                    THEN toTimestamp ELSE Rounded(gap)),
         to = from + (place + IF fill > 0 THEN fill ELSE 0) * Unit
  PROVE  LET taken == Abs(resume - from - place * Unit - gap)
             less  == IF resume < from THEN Unit ELSE 0
         IN /\ taken + less <= Threshold => 2 * Abs(to - resume) <= Unit
            /\ taken > Threshold + 2 * Unit =>
                 2 * Abs(gap - (to - from - place * Unit)) <= Unit
<1>1. Unit \in Nat \ {0} /\ Threshold \in Nat /\ 2 * Unit <= Threshold
  BY Constants
<1> DEFINE r == Rounded(resume - from)
           s == Rounded(gap)
           c == Ceiling(Threshold)
           t == r - place
           ru == r * Unit
           su == s * Unit
           cu == c * Unit
           pu == place * Unit
           d  == t - s
           du == d * Unit
<1>2. /\ r \in Int /\ ru \in Int
      /\ 2 * ru <= 2 * (resume - from) + Unit /\ 2 * (resume - from) - Unit <= 2 * ru
      /\ resume - from >= 0 => 2 * (resume - from) + Unit < 2 * ru + 2 * Unit
  <2>1. resume - from \in Int
    OBVIOUS
  <2>q. QED
    BY <2>1, RoundedNear
<1>3. /\ s \in Int /\ su \in Int
      /\ 2 * su <= 2 * gap + Unit /\ 2 * gap + Unit < 2 * su + 2 * Unit
  <2>1. gap \in Int /\ gap >= 0
    OBVIOUS
  <2>q. QED
    BY <2>1, RoundedNear
<1>4. c \in Int /\ cu \in Int /\ Threshold <= cu /\ cu < Threshold + Unit
  BY <1>1, CeilingAbove
<1> HIDE DEF r, s, c
<1>5. t \in Int /\ d \in Int /\ pu \in Int /\ du = ru - pu - su /\ t * Unit = ru - pu
  <2>1. t \in Int /\ d \in Int
    BY <1>2, <1>3
  <2>2. t * Unit = ru - pu /\ pu \in Int
    BY <1>1, <1>2, Multiples
  <2>3. du = t * Unit - su
    BY <1>1, <1>3, <2>1, Multiples
  <2>q. QED
    BY ONLY <2>1, <2>2, <2>3
<1>6. /\ t * Unit \in Int /\ du \in Int
      /\ d > c => cu + Unit <= du
      /\ d <= c => du <= cu
      /\ d < -c => du + Unit <= -cu
      /\ d >= -c => -cu <= du
      /\ t >= 0 <=> t * Unit >= 0
      /\ t < 0 => t * Unit + Unit <= 0
      /\ s > 0 <=> su > 0
  <2>1. -c \in Int /\ (-c) * Unit = -cu /\ 0 * Unit = 0
    BY <1>1, <1>4
  <2>2. /\ du \in Int /\ t * Unit \in Int
        /\ c < d <=> cu + Unit <= du
        /\ d <= c <=> du <= cu
    BY <1>1, <1>4, <1>5, Multiples
  <2>3. /\ d < -c <=> du + Unit <= (-c) * Unit
        /\ -c <= d <=> (-c) * Unit <= du
    BY <1>1, <1>4, <1>5, <2>1, Multiples
  <2>4. /\ t >= 0 <=> t * Unit >= 0
        /\ t < 0 <=> t * Unit + Unit <= 0 * Unit
    BY <1>1, <1>5, Multiples
  <2>5. /\ 0 < s <=> 0 * Unit + Unit <= su
        /\ s <= 0 <=> su <= 0 * Unit
    BY <1>1, <1>3, Multiples
  <2> DEFINE tu == t * Unit
             cm == (-c) * Unit
  <2> HIDE DEF d, du, cu, su, tu, cm
  <2>6. d \in Int /\ c \in Int /\ cu \in Int /\ su \in Int /\ s \in Int
    BY <1>3, <1>4, <1>5
  <2>7. cm = -cu /\ (d < -c <=> du + Unit <= cm) /\ (-c <= d <=> cm <= du)
    BY <2>1, <2>3 DEF cm
  <2>8. (d < -c => du + Unit <= -cu) /\ (d >= -c => -cu <= du)
    BY ONLY <2>6, <2>7
  <2>9. t < 0 => t * Unit + Unit <= 0
    BY <2>1, <2>4
  <2>10. s > 0 <=> su > 0
    BY <1>1, <2>1, <2>5, <2>6
  <2>q. QED
    BY <2>2, <2>4, <2>6, <2>8, <2>9, <2>10
<1>7. fill = IF Abs(d) <= c THEN t ELSE s
  BY DEF r, s, c
<1>8. s > 0
  <2>1. su > 0
    BY ONLY <1>1, <1>3, gap \in Nat, gap > Threshold
  <2>q. QED
    BY <1>6, <2>1
<1> DEFINE exact == resume - from - pu
           taken == Abs(exact - gap)
           less  == IF resume < from THEN Unit ELSE 0
           tu    == t * Unit
<1>9. tu \in Int /\ tu = ru - pu /\ exact \in Int
  BY <1>5, <1>6
<1> HIDE DEF ru, su, cu, pu, d, du, tu
<1>10. ASSUME taken + less <= Threshold PROVE 2 * Abs(to - resume) <= Unit
  <2>1. Abs(d) <= c
    <3>1. du <= cu
      <4>1. CASE resume < from
        BY ONLY <1>1, <1>2, <1>3, <1>4, <1>5, <1>10, <4>1,
                gap \in Nat, resume \in Int, from \in Int DEF Abs
      <4>2. CASE ~ (resume < from)
        <5>1. ~ (cu + Unit <= du)
          BY ONLY <1>1, <1>2, <1>3, <1>4, <1>5, <1>10, <4>2,
                  gap \in Nat, resume \in Int, from \in Int DEF Abs
        <5>2. d <= c
          BY ONLY <1>4, <1>5, <1>6, <5>1
        <5>q. QED
          BY ONLY <1>6, <5>2
      <4>q. QED
        BY <4>1, <4>2
    <3>2. -cu <= du
      <4>1. CASE resume < from
        BY ONLY <1>1, <1>2, <1>3, <1>4, <1>5, <1>10, <4>1,
                gap \in Nat, resume \in Int, from \in Int DEF Abs
      <4>2. CASE ~ (resume < from)
        <5>1. ~ (du + Unit <= -cu)
          BY ONLY <1>1, <1>2, <1>3, <1>4, <1>5, <1>10, <4>2,
                  gap \in Nat, resume \in Int, from \in Int DEF Abs
        <5>2. d >= -c
          BY ONLY <1>4, <1>5, <1>6, <5>1
        <5>q. QED
          BY ONLY <1>6, <5>2
      <4>q. QED
        BY <4>1, <4>2
    <3>3. d <= c /\ d >= -c
      BY ONLY <1>1, <1>4, <1>5, <1>6, <3>1, <3>2
    <3>q. QED
      BY ONLY <1>4, <1>5, <3>3 DEF Abs
  <2>2. fill = t
    BY <1>7, <2>1
  <2>3. t >= 0
    <3>1. ~ (tu + Unit <= 0)
      BY ONLY <1>1, <1>2, <1>5, <1>9, <1>10, gap \in Nat, gap > Threshold,
              resume \in Int, from \in Int DEF Abs
    <3>q. QED
      BY <1>5, <1>6, <3>1 DEF tu
  <2>4. place + (IF fill > 0 THEN fill ELSE 0) = r
    <3>1. (IF t > 0 THEN t ELSE 0) = t
      BY <1>5, <2>3
    <3>2. place + t = r
      BY <1>2
    <3>q. QED
      BY <2>2, <3>1, <3>2
  <2>5. to = from + ru
    BY <2>4 DEF ru
  <2>q. QED
    BY ONLY <1>1, <1>2, <2>5, resume \in Int, from \in Int DEF Abs
<1>11. ASSUME taken > Threshold + 2 * Unit
       PROVE  2 * Abs(gap - (to - from - pu)) <= Unit
  <2>1. ~ (Abs(d) <= c)
    <3>1. SUFFICES ASSUME Abs(d) <= c PROVE FALSE
      OBVIOUS
    <3>2. d <= c /\ d >= -c
      BY ONLY <1>4, <1>5, <3>1 DEF Abs
    <3>3. du <= cu /\ -cu <= du
      BY <1>6, <3>2
    <3>q. QED
      BY ONLY <1>1, <1>2, <1>3, <1>4, <1>5, <1>9, <1>11, <3>3,
              gap \in Nat, resume \in Int, from \in Int DEF Abs
  <2>2. fill = s
    BY <1>7, <2>1
  <2>3. to = from + (place + s) * Unit
    BY <1>8, <2>2
  <2>4. (place + s) * Unit = pu + su
    BY <1>1, <1>3, Multiples DEF pu, su
  <2>5. to = from + (pu + su)
    BY <2>3, <2>4
  <2>q. QED
    BY ONLY <1>1, <1>3, <1>5, <2>5, gap \in Nat, from \in Int DEF Abs
<1>q. QED
  BY <1>10, <1>11 DEF pu

(* The run chosen for a sample is the one it lies in.                      *)
LEMMA Chosen ==
  ASSUME NEW r \in Seq(Run), r # <<>>, r[1].start = 0, NEW k \in Nat \ {0},
         NEW i \in DOMAIN r, LastBefore(r, k, i)
  PROVE  (CHOOSE j \in DOMAIN r : r[j].start < k /\ \A h \in DOMAIN r : r[h].start < k => h <= j)
         = i
<1>1. \A j \in DOMAIN r : LastBefore(r, k, j) => j = i
  BY LastBeforeExists
<1>2. (CHOOSE j \in DOMAIN r : LastBefore(r, k, j)) = i
  BY <1>1
<1>q. QED
  BY <1>2 DEF LastBefore

(* A boundary is judged where a frame starts that the last run reaches.    *)
LEMMA AtBoundary ==
  ASSUME TypeInv, FramesInv, RunsInv, GapsInv, boundary <= Len(NonEmpty)
  PROVE  /\ boundary \in 2 .. Len(NonEmpty)
         /\ NonEmpty[boundary].at \in Nat \ {0} /\ AtFrame(NonEmpty[boundary].at)
         /\ NonEmpty[boundary].at < written
         /\ Last(runs).start < NonEmpty[boundary].at
         /\ \A n \in 1 .. Len(NonEmpty) :
              /\ NonEmpty[n].at \in Nat /\ (n >= 2 => NonEmpty[n].at # 0)
              /\ n > boundary => NonEmpty[boundary].at < NonEmpty[n].at
              /\ n < boundary => NonEmpty[n].at < NonEmpty[boundary].at
<1>1. boundary \in 2 .. Len(NonEmpty)
  <2>1. boundary \in Nat /\ boundary >= 2 /\ Len(NonEmpty) \in 0 .. Len(frames)
        /\ Len(frames) \in Nat
    BY NonEmptyFacts, ViewFacts DEF TypeInv, GapsInv
  <2>q. QED
    BY <2>1
<1>2. ASSUME NEW n \in 1 .. Len(NonEmpty)
      PROVE  /\ n \in Nat \ {0} /\ n \in DOMAIN frames /\ NonEmpty[n] = frames[n]
             /\ NonEmpty[n].at \in Nat /\ NonEmpty[n].at = (n - 1) * Length
             /\ NonEmpty[n].at < written
  <2>1. n \in DOMAIN frames /\ NonEmpty[n] = frames[n] /\ frames[n].length > 0
        /\ n \in Nat \ {0}
    BY NonEmptyFacts
  <2>2. /\ frames[n].at \in Nat /\ frames[n].length \in Nat
        /\ frames[n].at + frames[n].length = LaidOut(n) /\ LaidOut(n) <= written
        /\ frames[n].at = (n - 1) * Length
    BY <2>1, ViewFacts DEF Views
  <2>3. written \in Nat
    BY Sizes
  <2>4. frames[n].at < written
    <3> DEFINE at == frames[n].at
               length == frames[n].length
    <3>1. at \in Nat /\ length \in Nat /\ length > 0 /\ at + length <= written
      BY <2>1, <2>2
    <3> HIDE DEF at, length
    <3>2. at < written
      BY ONLY <2>3, <3>1
    <3>q. QED
      BY <3>2 DEF at
  <2>q. QED
    BY <2>1, <2>2, <2>4
<1>3. ASSUME NEW m \in 1 .. Len(NonEmpty), NEW n \in 1 .. Len(NonEmpty), m < n
      PROVE  NonEmpty[m].at < NonEmpty[n].at
  <2>1. m - 1 \in Int /\ n - 1 \in Int /\ m - 1 < n - 1 /\ Length \in Nat \ {0}
    BY <1>2, <1>3, Constants
  <2>2. (m - 1) * Length + Length <= (n - 1) * Length
    BY ONLY <2>1, Multiples
  <2>3. NonEmpty[m].at \in Nat /\ NonEmpty[n].at \in Nat
        /\ NonEmpty[m].at = (m - 1) * Length /\ NonEmpty[n].at = (n - 1) * Length
    BY <1>2
  <2>4. NonEmpty[m].at + Length <= NonEmpty[n].at
    BY <2>2, <2>3
  <2>q. QED
    BY ONLY <2>1, <2>3, <2>4
<1>4. ASSUME NEW n \in 1 .. Len(NonEmpty), n >= 2 PROVE NonEmpty[n].at # 0
  <2>1. n \in Int
    BY <1>2
  <2>2. 1 \in 1 .. Len(NonEmpty) /\ 1 < n
    BY <1>1, <1>4, <2>1
  <2>3. NonEmpty[1].at < NonEmpty[n].at /\ NonEmpty[1].at \in Nat /\ NonEmpty[n].at \in Nat
    BY <1>2, <1>3, <2>2
  <2>q. QED
    BY ONLY <2>3
<1>5. boundary \in 1 .. Len(NonEmpty) /\ boundary >= 2 /\ boundary \in Nat
  BY <1>1
<1>6. Last(runs).start < NonEmpty[boundary].at
  BY <1>5 DEF GapsInv
<1>7. AtFrame(NonEmpty[boundary].at)
  <2>1. NonEmpty[boundary].at = (boundary - 1) * Length /\ boundary - 1 \in Nat
    BY <1>2, <1>5
  <2>q. QED
    BY <2>1 DEF AtFrame
<1>8. \A n \in 1 .. Len(NonEmpty) : n > boundary <=> boundary < n
  BY <1>2, <1>5
<1>q. QED
  BY <1>1, <1>2, <1>3, <1>4, <1>5, <1>6, <1>7, <1>8

(* Up to the boundary, and in the sample after it, the last run is the     *)
(* last that was found.                                                    *)
LEMMA LastRunAt ==
  ASSUME TypeInv, RunsInv, NEW k \in Nat \ {0}, Last(runs).start < k
  PROVE  RunBefore(k) = Len(runs) /\ Offset(k) = Last(runs).offset
<1>1. Len(runs) \in DOMAIN runs /\ DOMAIN runs = 1 .. Len(runs) /\ Len(runs) \in Nat
      /\ Last(runs) = runs[Len(runs)]
  BY SomeRuns, RunsTyped DEF Last
<1>2. LastBefore(runs, k, Len(runs))
  BY <1>1 DEF LastBefore
<1>3. RunBefore(k) = Len(runs)
  BY <1>1, <1>2, RunBeforeFacts
<1>q. QED
  BY <1>1, <1>3 DEF Offset

LEMMA SameSilence ==
  ASSUME UNCHANGED <<request, frames>>
  PROVE  NonEmpty' = NonEmpty /\ \A n, o : Silence(n, o)' = Silence(n, o)
<1>1. NonEmpty' = NonEmpty
  BY DEF NonEmpty
<1>2. StartTime' = StartTime
  BY SameRequest
<1>3. FillsGaps <=> FillsGaps'
  BY <1>1 DEF FillsGaps
<1>4. ASSUME NEW n, NEW o PROVE Silence(n, o)' = Silence(n, o)
  BY <1>1, <1>2, <1>3 DEF Silence, Fill
<1>q. QED
  BY <1>1, <1>4

LEMMA GoesOnStep ==
  ASSUME IInv, GoesOn PROVE IInv'
<1>1. /\ TypeInv /\ FramesInv /\ RunsInv /\ GapsInv /\ request.output # NoTime /\ pc = "gaps"
      /\ \A k \in 1 .. capacity : tensor[k] = IF k <= written THEN k ELSE 0
      /\ boundary <= Len(NonEmpty) /\ Silence(boundary, Last(runs).offset) <= 0
  BY DEF IInv, GoesOn, Judge, MoveInv
<1>2. UNCHANGED <<request, tensor, written, frames, runs, run, pc, result>>
      /\ boundary' = boundary + 1
  BY DEF GoesOn, Judge
<1>3. /\ boundary \in 2 .. Len(NonEmpty) /\ Len(NonEmpty) \in Nat
      /\ NonEmpty[boundary].at \in Nat \ {0}
      /\ Last(runs).start < NonEmpty[boundary].at
      /\ \A n \in 1 .. Len(NonEmpty) :
           NonEmpty[n].at \in Nat /\ (n > boundary => NonEmpty[boundary].at < NonEmpty[n].at)
  <2>1. Len(NonEmpty) \in 0 .. Len(frames) /\ Len(frames) \in Nat
    BY <1>1, NonEmptyFacts, ViewFacts
  <2>2. Len(NonEmpty) \in Nat
    BY <2>1
  <2>q. QED
    BY <1>1, <2>2, AtBoundary
<1>4. Last(runs).start \in Nat /\ Last(runs).offset \in Nat
  BY <1>1, SomeRuns, RunsTyped DEF Last
<1>5. TypeInv' /\ capacity' = capacity
  <2>1. boundary' \in Nat
    BY <1>2, <1>3
  <2>q. QED
    BY <1>1, <1>2, <2>1, SameTypes DEF TypeInv, Run
<1>6. FramesInv' /\ RunsInv'
  BY <1>1, <1>2, <1>5, SameFrames, SameRuns
<1>7. Resumes(boundary)
  <2>1. Offset(NonEmpty[boundary].at) = Last(runs).offset
    BY <1>1, <1>3, LastRunAt
  <2>2. NonEmpty[boundary].at + 1 \in Nat \ {0}
        /\ Last(runs).start < NonEmpty[boundary].at + 1
    BY <1>3, <1>4
  <2>3. Offset(NonEmpty[boundary].at + 1) = Last(runs).offset
    BY <1>1, <2>2, LastRunAt
  <2>4. Silence(boundary, Last(runs).offset) \in Int
    <3>1. boundary \in 1 .. Len(NonEmpty)
      BY <1>3
    <3>q. QED
      BY <1>1, <1>4, <3>1, SilenceTyped
  <2>5. ~ (Silence(boundary, Last(runs).offset) > 0)
    BY <1>1, <2>4
  <2>q. QED
    BY <2>1, <2>3, <2>5 DEF Resumes
<1>8. GapsInv'
  <2>1. NonEmpty' = NonEmpty /\ \A n, o : Silence(n, o)' = Silence(n, o)
        /\ \A k : Offset(k)' = Offset(k)
    BY <1>2, SameSilence, SameRuns DEF Offset
  <2>2. \A n : Resumes(n) <=> Resumes(n)'
    BY <2>1 DEF Resumes
  <2>3. boundary' >= 2
    BY <1>2, <1>3
  <2>4. ASSUME NEW n \in 1 .. Len(NonEmpty)
        PROVE  /\ n >= boundary' => Last(runs).start < NonEmpty[n].at
               /\ n >= 2 /\ n < boundary' => Resumes(n)
    <3>1. n \in Nat /\ boundary \in Nat /\ boundary' = boundary + 1
      BY <1>2, <1>3
    <3>2. (n >= boundary' => n >= boundary) /\ (n < boundary' => n < boundary \/ n = boundary)
      BY <3>1
    <3>q. QED
      BY <1>1, <1>7, <3>2 DEF GapsInv
  <2>q. QED
    BY <1>2, <2>1, <2>2, <2>3, <2>4 DEF GapsInv
<1>9. MoveInv'
  BY <1>1, <1>2, <1>5 DEF MoveInv
<1>q. QED
  BY <1>1, <1>2, <1>5, <1>6, <1>8, <1>9 DEF IInv, ViewsFollow, StartIsTrue

LEMMA FillGapStep ==
  ASSUME IInv, FillGap PROVE IInv'
<1> DEFINE at     == NonEmpty[boundary].at
           offset == Last(runs).offset
           fill   == Silence(boundary, offset)
           new    == [start |-> at, offset |-> offset + fill]
           count  == Len(runs)
<1>1. /\ TypeInv /\ FramesInv /\ RunsInv /\ GapsInv /\ request.output # NoTime /\ pc = "gaps"
      /\ \A k \in 1 .. capacity : tensor[k] = IF k <= written THEN k ELSE 0
      /\ boundary <= Len(NonEmpty) /\ fill > 0
  BY DEF IInv, FillGap, Judge, MoveInv
<1>2. UNCHANGED <<request, tensor, written, frames, run, pc, result>>
      /\ boundary' = boundary + 1 /\ runs' = Append(runs, new)
  BY DEF FillGap, Judge
<1>3. /\ boundary \in 2 .. Len(NonEmpty) /\ Len(NonEmpty) \in Nat
      /\ at \in Nat \ {0} /\ AtFrame(at) /\ at < written
      /\ Last(runs).start < at
      /\ \A n \in 1 .. Len(NonEmpty) :
           /\ NonEmpty[n].at \in Nat /\ (n >= 2 => NonEmpty[n].at # 0)
           /\ n > boundary => at < NonEmpty[n].at
           /\ n < boundary => NonEmpty[n].at < at
  <2>1. Len(NonEmpty) \in 0 .. Len(frames) /\ Len(frames) \in Nat
    BY <1>1, NonEmptyFacts, ViewFacts
  <2>2. Len(NonEmpty) \in Nat
    BY <2>1
  <2>q. QED
    BY <1>1, <2>2, AtBoundary
<1>4. /\ runs \in Seq(Run) /\ count \in Nat \ {0} /\ DOMAIN runs = 1 .. count
      /\ Last(runs) = runs[count] /\ count \in DOMAIN runs
      /\ \A i \in DOMAIN runs : runs[i].start \in Nat /\ runs[i].offset \in Nat
      /\ offset \in Nat
  BY <1>1, SomeRuns, RunsTyped DEF Last
<1>5. fill \in Int
  <2>1. boundary \in 1 .. Len(NonEmpty)
    BY <1>3
  <2>q. QED
    BY <1>1, <1>4, <2>1, SilenceTyped
<1> HIDE DEF at, fill, count
<1>6. new \in Run /\ new.start = at /\ new.offset = offset + fill /\ offset < new.offset
  <2>1. offset + fill \in Nat /\ offset < offset + fill
    BY <1>1, <1>4, <1>5
  <2>q. QED
    BY <1>3, <2>1 DEF Run
<1> HIDE DEF new
<1>7. /\ runs' \in Seq(Run) /\ Len(runs') = count + 1 /\ DOMAIN runs' = 1 .. count + 1
      /\ \A i \in 1 .. count : runs'[i] = runs[i]
      /\ runs'[count + 1] = new /\ Last(runs') = new /\ runs' # <<>>
  <2> DEFINE longer == Append(runs, new)
  <2>1. /\ longer \in Seq(Run) /\ Len(longer) = count + 1
        /\ \A i \in 1 .. count : longer[i] = runs[i]
        /\ longer[count + 1] = new
    BY ONLY <1>4, <1>6, AppendProperties DEF count
  <2> HIDE DEF longer
  <2>2. DOMAIN longer = 1 .. count + 1 /\ longer # <<>> /\ Last(longer) = new
    BY ONLY <1>4, <2>1, LenProperties, EmptySeq DEF Last
  <2>3. runs' = longer
    BY <1>2 DEF longer
  <2>q. QED
    BY ONLY <2>1, <2>2, <2>3
<1>8. TypeInv' /\ capacity' = capacity
  <2>1. boundary' \in Nat
    BY <1>2, <1>3
  <2>q. QED
    BY <1>1, <1>2, <1>7, <2>1, SameTypes DEF TypeInv
<1>9. FramesInv'
  BY <1>1, <1>2, <1>8, SameFrames
<1>10. ASSUME NEW i \in 1 .. count PROVE runs[i].start < at /\ runs[i].offset <= offset
  <2>1. i = count \/ i < count
    BY <1>4
  <2>2. i < count => runs[i].start < runs[count].start /\ runs[i].offset <= runs[count].offset
    BY <1>1, <1>4 DEF RunsInv
  <2>3. runs[count].start \in Nat /\ runs[i].start \in Nat /\ runs[count].start < at
        /\ runs[count].offset = offset
    BY <1>3, <1>4
  <2>q. QED
    BY ONLY <1>3, <1>4, <2>1, <2>2, <2>3
<1>11. RunsInv'
  <2>1. runs'[1].start = 0 /\ runs'[1].offset = Lead /\ Lead' = Lead
    <3>1. 1 \in 1 .. count
      BY <1>4
    <3>q. QED
      BY <1>1, <1>2, <1>7, <3>1, SameRequest DEF RunsInv
  <2>2. ASSUME NEW i \in 1 .. count + 1, NEW j \in 1 .. count + 1, i < j
        PROVE  runs'[i].start < runs'[j].start /\ runs'[i].offset <= runs'[j].offset
    <3>1. i \in 1 .. count
      BY <1>4, <2>2
    <3>2. CASE j = count + 1
      <4>1. runs[i].offset \in Nat
        BY <1>4, <3>1
      <4>2. runs'[i] = runs[i] /\ runs'[j] = new
        BY <1>7, <3>1, <3>2
      <4>3. offset + fill \in Int /\ new.offset \in Int
        BY <1>4, <1>5, <1>6
      <4>q. QED
        BY <1>4, <1>6, <1>10, <3>1, <4>1, <4>2, <4>3
    <3>3. CASE j # count + 1
      <4>1. j \in 1 .. count
        BY <1>4, <3>3
      <4>q. QED
        BY <1>1, <1>4, <1>7, <2>2, <3>1, <4>1 DEF RunsInv
    <3>q. QED
      BY <3>2, <3>3
  <2>3. ASSUME NEW i \in 1 .. count + 1
        PROVE  /\ \E m \in Nat : runs'[i].start = m * Length
               /\ i > 1 => runs'[i].start < written
    <3>1. CASE i = count + 1
      BY <1>3, <1>6, <1>7, <3>1 DEF AtFrame
    <3>2. CASE i # count + 1
      <4>1. i \in 1 .. count
        BY <1>4, <3>2
      <4>q. QED
        BY <1>1, <1>4, <1>7, <4>1 DEF RunsInv, AtFrame
    <3>q. QED
      BY <3>1, <3>2
  <2>q. QED
    BY <1>2, <1>7, <2>1, <2>2, <2>3 DEF RunsInv, AtFrame
<1>12. ASSUME NEW k \in 1 .. at PROVE Offset(k)' = Offset(k)
  <2> DEFINE i == RunBefore(k)
  <2>1. k \in Nat \ {0} /\ k <= at
    BY <1>3
  <2>2. i \in DOMAIN runs /\ LastBefore(runs, k, i)
    BY <1>1, <2>1, RunBeforeFacts
  <2> HIDE DEF i
  <2>3. i \in 1 .. count /\ i \in DOMAIN runs' /\ runs'[i] = runs[i]
    BY <1>4, <1>7, <2>2
  <2>4. ASSUME NEW j \in DOMAIN runs', runs'[j].start < k PROVE j <= i
    <3>1. j # count + 1
      <4>1. j = count + 1 => runs'[j].start = at
        BY <1>6, <1>7
      <4>2. ~ (at < k)
        BY <1>3, <2>1
      <4>q. QED
        BY <2>4, <4>1, <4>2
    <3>2. j \in 1 .. count
      BY <1>4, <1>7, <3>1
    <3>3. j \in DOMAIN runs /\ runs'[j] = runs[j]
      BY <1>4, <1>7, <3>2
    <3>q. QED
      BY <2>2, <2>4, <3>3 DEF LastBefore
  <2>5. LastBefore(runs', k, i)
    BY <2>2, <2>3, <2>4 DEF LastBefore
  <2>6. runs'[1].start = 0
    BY <1>11 DEF RunsInv
  <2>7. RunBefore(k)' = i
    BY <1>7, <2>1, <2>3, <2>5, <2>6, Chosen DEF RunBefore
  <2>q. QED
    BY <2>3, <2>7 DEF Offset, i
<1>13. ASSUME NEW k, k = at + 1 PROVE Offset(k)' = offset + fill
  <2>1. k \in Nat \ {0} /\ at < k
    BY <1>3, <1>13
  <2>2. count + 1 \in DOMAIN runs' /\ \A j \in DOMAIN runs' : j <= count + 1
    BY <1>4, <1>7
  <2>3. LastBefore(runs', k, count + 1)
    BY <1>6, <1>7, <2>1, <2>2 DEF LastBefore
  <2>4. runs'[1].start = 0
    BY <1>11 DEF RunsInv
  <2>5. RunBefore(k)' = count + 1
    BY <1>7, <2>1, <2>2, <2>3, <2>4, Chosen DEF RunBefore
  <2>6. runs'[count + 1].offset = offset + fill
    BY <1>6, <1>7
  <2>q. QED
    BY <2>5, <2>6 DEF Offset
<1>14. GapsInv'
  <2>1. NonEmpty' = NonEmpty /\ \A n, o : Silence(n, o)' = Silence(n, o)
    BY <1>2, SameSilence
  <2>2. boundary' = boundary + 1 /\ boundary \in Nat /\ boundary' >= 2
    BY <1>2, <1>3
  <2>3. ASSUME NEW n \in 1 .. Len(NonEmpty), n >= 2, n < boundary PROVE Resumes(n)'
    <3>1. SUFFICES ASSUME NEW k \in Nat, NEW before \in Nat,
                          k = NonEmpty[n].at, before = Offset(k)'
                   PROVE  Offset(k + 1)' = LET silence == Silence(n, before)
                                           IN IF silence > 0 THEN before + silence ELSE before
      BY <2>1 DEF Resumes
    <3>2. k \in 1 .. at /\ k + 1 \in 1 .. at
      BY <1>3, <2>3, <3>1
    <3>3. Offset(k)' = Offset(k) /\ Offset(k + 1)' = Offset(k + 1)
      BY <1>12, <3>2
    <3>4. Resumes(n)
      BY <1>1, <2>3 DEF GapsInv
    <3>q. QED
      BY <3>1, <3>3, <3>4 DEF Resumes
  <2>4. ASSUME NEW n, n = boundary PROVE Resumes(n)'
    <3>1. SUFFICES ASSUME NEW k \in Nat, NEW before \in Nat,
                          k = NonEmpty[n].at, before = Offset(k)'
                   PROVE  Offset(k + 1)' = LET silence == Silence(n, before)
                                           IN IF silence > 0 THEN before + silence ELSE before
      BY <2>1 DEF Resumes
    <3>2. k = at /\ k \in 1 .. at /\ k \in Nat \ {0}
      BY <1>3, <2>4, <3>1 DEF at
    <3>3. Offset(k) = offset
      BY <1>1, <1>3, <3>2, LastRunAt
    <3>4. before = offset
      BY <1>12, <3>1, <3>2, <3>3
    <3>5. Silence(n, before) = fill
      BY <2>4, <3>4 DEF fill
    <3>6. Offset(k + 1)' = offset + fill
      <4>1. ASSUME NEW l, l = k + 1 PROVE Offset(l)' = offset + fill
        BY <1>13, <3>2, <4>1
      <4>q. QED
        BY <4>1
    <3>q. QED
      BY <1>1, <3>4, <3>5, <3>6 DEF fill
  <2>5. ASSUME NEW n \in 1 .. Len(NonEmpty), n >= boundary'
        PROVE  Last(runs').start < NonEmpty[n].at
    <3>1. n > boundary
      BY <2>2, <2>5
    <3>q. QED
      BY <1>3, <1>6, <1>7, <3>1
  <2>6. ASSUME NEW n \in 1 .. Len(NonEmpty), n >= 2, n < boundary' PROVE Resumes(n)'
    <3>1. n < boundary \/ n = boundary
      BY <2>2, <2>6
    <3>q. QED
      BY <2>3, <2>4, <2>6, <3>1
  <2>q. QED
    BY <2>1, <2>2, <2>5, <2>6 DEF GapsInv
<1>15. MoveInv'
  BY <1>1, <1>2, <1>8 DEF MoveInv
<1>q. QED
  BY <1>1, <1>2, <1>8, <1>9, <1>11, <1>14, <1>15 DEF IInv, ViewsFollow, StartIsTrue

-------------------------------------------------------------------------------
(* The theorems.                                                           *)

LEMMA Stutters ==
  ASSUME IInv, UNCHANGED vars PROVE IInv'
<1>1. UNCHANGED <<request, tensor, written, frames, runs, boundary, run, pc, result>>
  BY DEF vars
<1>2. capacity' = capacity
  BY <1>1 DEF capacity
<1>3. TypeInv => TypeInv'
  BY <1>1, <1>2, SameRequest DEF TypeInv, Views, Time
<1>4. FramesInv => FramesInv'
  BY <1>1, <1>2, SameFrames
<1>5. (RunsInv => RunsInv') /\ \A p : Final(p)' = Final(p)
  BY <1>1, SameRuns
<1>6. GapsInv => GapsInv'
  <2>1. NonEmpty' = NonEmpty /\ \A n, o : Silence(n, o)' = Silence(n, o)
        /\ \A k : Offset(k)' = Offset(k)
    BY <1>1, SameSilence, SameRuns DEF Offset
  <2>2. \A n : Resumes(n) <=> Resumes(n)'
    BY <2>1 DEF Resumes
  <2>q. QED
    BY <1>1, <2>1, <2>2 DEF GapsInv
<1>7. MoveInv => MoveInv'
  <2>1. RunEnd' = RunEnd /\ To' = To
    BY <1>1 DEF RunEnd, To
  <2>q. QED
    BY <1>1, <1>2, <1>5, <2>1 DEF MoveInv, Between
<1>8. (ViewsFollow => ViewsFollow') /\ (StartIsTrue => StartIsTrue')
  BY <1>1, <1>2 DEF ViewsFollow, StartIsTrue
<1>q. QED
  BY <1>1, <1>3, <1>4, <1>5, <1>6, <1>7, <1>8 DEF IInv

(* Every step of align_audio preserves the invariant: the runs laid out so *)
(* far, the boundaries already judged, and the samples moved and still to  *)
(* be moved.                                                               *)
THEOREM InvariantHolds ==
  Spec => []IInv
<1>1. Init => IInv
  BY Initially
<1>2. IInv /\ [Next]_vars => IInv'
  BY LeftAloneStep, BeginStep, GoesOnStep, FillGapStep, UnmovedStep, SpreadRunsStep,
     MoveStep, ZeroStep, MoveViewsStep, Stutters DEF Next, Done
<1>q. QED
  BY <1>1, <1>2, PTL DEF Spec

LEMMA SpreadInEnd ==
  ASSUME IInv PROVE Spread
<1>1. pc # "refused" /\ tensor \in Seq(Nat)
  BY DEF IInv, TypeInv
<1>2. ASSUME pc = "views"
      PROVE  tensor = [p \in 1 .. capacity |-> Final(p)]
  <2>1. capacity \in Nat /\ DOMAIN tensor = 1 .. capacity
    BY Sizes DEF IInv
  <2>2. \A p \in 1 .. capacity : tensor[p] = Final(p)
    <3>1. Between(0, 0)
      BY <1>2 DEF IInv, MoveInv
    <3>2. \A p \in 1 .. capacity : p > 0
      BY <2>1
    <3>q. QED
      BY <3>1, <3>2 DEF Between
  <2>3. tensor = [p \in 1 .. capacity |-> tensor[p]]
    BY <1>1, <2>1
  <2>q. QED
    BY <2>2, <2>3
<1>q. QED
  BY <1>1, <1>2 DEF Spread, Final

(* Moving the runs inside one tensor gives what placing every sample where *)
(* its run moves it would, and spread_samples is never given runs that it  *)
(* refuses, whatever the timestamps, the window and the capacity.          *)
THEOREM SpreadAlways ==
  Spec => []Spread
<1>1. IInv => Spread
  BY SpreadInEnd
<1>q. QED
  BY <1>1, InvariantHolds, PTL

(* The views that are returned hold the samples of their own frames, from  *)
(* the first on, inside the tensor, and leave out no sample that is left.  *)
THEOREM ViewsFollowAlways ==
  Spec => []ViewsFollow
<1>1. IInv => ViewsFollow
  BY DEF IInv
<1>q. QED
  BY <1>1, InvariantHolds, PTL

(* When the boundaries are judged, the sound resumes after every gap as    *)
(* its timestamp says.                                                     *)
LEMMA JudgedOnTime ==
  ASSUME IInv PROVE ResumesOnTime
<1> SUFFICES ASSUME Judged, NEW i \in 2 .. Len(NonEmpty), request.fill, IsGap(NonEmpty, i)
             PROVE  LET gap     == GapAt(NonEmpty, i)
                        At(k)   == StartTime + (Placed(k) - 1) * Unit
                        resumes == At(NonEmpty[i].at + 1)
                        drift   == EndOf(NonEmpty, i - 1) - (At(NonEmpty[i].at) + Unit)
                        taken   == Abs(drift + gap.resume - StartOf(NonEmpty, i))
                        less    == IF gap.resume < StartTime THEN Unit ELSE 0
                    IN /\ taken + less <= Threshold => 2 * Abs(resumes - gap.resume) <= Unit
                       /\ taken > Threshold + 2 * Unit =>
                            2 * Abs(StartOf(NonEmpty, i) - resumes - drift) <= Unit
  BY Zenon DEF ResumesOnTime
<1>1. /\ TypeInv /\ FramesInv /\ RunsInv /\ GapsInv /\ request.output # NoTime
      /\ boundary > Len(NonEmpty)
  BY DEF IInv, Judged
<1>2. /\ Len(NonEmpty) \in Nat /\ i \in 1 .. Len(NonEmpty) /\ i \in Nat /\ i >= 2
      /\ i \in DOMAIN frames /\ NonEmpty[i] = frames[i]
  <2>1. Len(NonEmpty) \in 0 .. Len(frames) /\ Len(frames) \in Nat
    BY <1>1, NonEmptyFacts, ViewFacts
  <2>2. i \in 1 .. Len(NonEmpty) /\ i \in Nat /\ i >= 2 /\ Len(NonEmpty) \in Nat
    BY <2>1
  <2>q. QED
    BY <1>1, <2>2, NonEmptyFacts
<1> DEFINE at    == NonEmpty[i].at
           start == StartOf(NonEmpty, i)
           end   == EndOf(NonEmpty, i - 1)
           g     == GapAt(NonEmpty, i)
<1>3. /\ start \in Int /\ end \in Int /\ g.gap = start - end
      /\ g.gap \in Nat /\ g.gap > Threshold
      /\ g.samples = Rounded(g.gap) /\ g.resume \in Int /\ g.at = at
  BY <1>1, <1>2, GapTyped
<1>4. at \in Nat \ {0}
  <2>1. /\ frames[i] \in Views /\ frames[i].length > 0
        /\ frames[i].length > 0 => frames[i].at = (i - 1) * Length
    BY <1>1, <1>2, ViewFacts, NonEmptyFacts
  <2>2. i - 1 \in Nat \ {0} /\ Length \in Nat \ {0}
    BY <1>2, Constants
  <2>3. 0 < i - 1 <=> 0 * Length + Length <= (i - 1) * Length
    BY <2>2, Multiples
  <2>4. frames[i].at \in Nat /\ Length <= frames[i].at
    BY <2>1, <2>2, <2>3 DEF Views
  <2>q. QED
    BY <1>2, <2>2, <2>4
<1>5. FillsGaps
  <2>1. ASSUME NEW n \in 1 .. Len(NonEmpty) - 1
        PROVE  NonEmpty[n + 1].at = NonEmpty[n].at + NonEmpty[n].length
    <3>1. n \in 1 .. Len(NonEmpty) /\ n + 1 \in 1 .. Len(NonEmpty) /\ n + 1 - 1 = n
      BY <1>2
    <3>2. /\ n \in DOMAIN frames /\ NonEmpty[n] = frames[n]
          /\ n + 1 \in DOMAIN frames /\ NonEmpty[n + 1] = frames[n + 1]
      BY <1>1, <3>1, NonEmptyFacts
    <3>3. frames[n + 1].at = LaidOut(n + 1 - 1)
          /\ frames[n].at + frames[n].length = LaidOut(n)
      BY <1>1, <3>2, ViewFacts
    <3>q. QED
      BY <3>1, <3>2, <3>3
  <2>q. QED
    BY <2>1 DEF FillsGaps, Contiguous
<1> DEFINE before == Offset(at)
           fill   == Silence(i, before)
<1>6. before \in Nat
  <2>1. RunBefore(at) \in DOMAIN runs
    BY <1>1, <1>4, RunBeforeFacts
  <2>q. QED
    BY <1>1, <2>1, RunsTyped DEF Offset
<1>7. Offset(at + 1) = before + IF fill > 0 THEN fill ELSE 0
  <2>1. Resumes(i)
    <3>1. i < boundary
      <4>1. boundary \in Nat
        BY <1>1 DEF TypeInv
      <4>q. QED
        BY <1>1, <1>2, <4>1
    <3>q. QED
      BY <1>1, <1>2, <3>1 DEF GapsInv
  <2>2. Offset(at + 1) = IF fill > 0 THEN before + fill ELSE before
    BY <1>4, <1>6, <2>1 DEF Resumes
  <2>q. QED
    BY <1>6, <2>2
<1>8. fill = Fill(g, before)
  BY <1>5 DEF Silence
<1>9. fill = (LET toTimestamp == Rounded(g.resume - StartTime) - (at + before)
              IN IF Abs(toTimestamp - Rounded(g.gap)) <= Ceiling(Threshold)
                 THEN toTimestamp ELSE Rounded(g.gap))
  BY <1>3, <1>8 DEF Fill
<1>10. StartTime \in Int
  BY <1>1, LeadFacts DEF TypeInv
<1>11. Placed(at) = at + before /\ Placed(at + 1) = at + 1 + Offset(at + 1)
  BY DEF Placed, Offset
<1>12. fill \in Int
  BY <1>1, <1>2, <1>6, SilenceTyped
<1> DEFINE place == at + before
           more  == IF fill > 0 THEN fill ELSE 0
           to    == StartTime + (place + more) * Unit
<1> HIDE DEF at, start, end, g, before, fill
<1>13. place \in Nat /\ more \in Nat /\ Unit \in Nat \ {0} /\ Threshold \in Nat
  BY <1>4, <1>6, <1>12, Constants
<1>14. LET taken == Abs(g.resume - StartTime - place * Unit - g.gap)
           less  == IF g.resume < StartTime THEN Unit ELSE 0
       IN /\ taken + less <= Threshold => 2 * Abs(to - g.resume) <= Unit
          /\ taken > Threshold + 2 * Unit =>
               2 * Abs(g.gap - (to - StartTime - place * Unit)) <= Unit
  <2>1. fill = (LET toTimestamp == Rounded(g.resume - StartTime) - place
                IN IF Abs(toTimestamp - Rounded(g.gap)) <= Ceiling(Threshold)
                   THEN toTimestamp ELSE Rounded(g.gap))
    BY <1>9
  <2>2. to = StartTime + (place + IF fill > 0 THEN fill ELSE 0) * Unit
    OBVIOUS
  <2> DEFINE gap    == g.gap
             resume == g.resume
  <2>3. place \in Nat /\ gap \in Nat /\ gap > Threshold /\ resume \in Int
    BY <1>3, <1>13
  <2>4. fill = (LET toTimestamp == Rounded(resume - StartTime) - place
                IN IF Abs(toTimestamp - Rounded(gap)) <= Ceiling(Threshold)
                   THEN toTimestamp ELSE Rounded(gap))
    BY <2>1
  <2> HIDE DEF place, to, gap, resume
  <2>5. LET taken == Abs(resume - StartTime - place * Unit - gap)
            less  == IF resume < StartTime THEN Unit ELSE 0
        IN /\ taken + less <= Threshold => 2 * Abs(to - resume) <= Unit
           /\ taken > Threshold + 2 * Unit =>
                2 * Abs(gap - (to - StartTime - place * Unit)) <= Unit
    BY ONLY <1>10, <2>2, <2>3, <2>4, Filled
  <2>q. QED
    BY <2>5 DEF gap, resume
<1>15. StartTime + (Placed(at + 1) - 1) * Unit = to
  <2>1. Placed(at + 1) - 1 = place + more
    BY <1>4, <1>6, <1>7, <1>11, <1>13
  <2>q. QED
    BY <2>1
<1>16. (Placed(at) - 1) * Unit + Unit = place * Unit /\ place * Unit \in Int
       /\ (Placed(at) - 1) * Unit \in Int
  <2>1. Placed(at) = place
    BY <1>11
  <2> HIDE DEF place
  <2>2. place \in Int
    BY <1>13
  <2>q. QED
    BY <1>13, <2>1, <2>2, Multiples
<1>17. to \in Int
  BY <1>10, <1>13
<1> DEFINE p == place * Unit
           drift == end - (StartTime + (Placed(at) - 1) * Unit + Unit)
<1>18. drift = end - StartTime - p
  <2> DEFINE q == (Placed(at) - 1) * Unit
  <2>1. q + Unit = p /\ q \in Int /\ p \in Int /\ Unit \in Int
    BY <1>13, <1>16
  <2>2. drift = end - (StartTime + q + Unit)
    OBVIOUS
  <2> HIDE DEF p, q, drift
  <2>q. QED
    BY ONLY <1>3, <1>10, <2>1, <2>2
<1>19. p \in Int
  BY <1>16
<1> HIDE DEF to, place, p, drift
<1>20. drift + g.resume - start = g.resume - StartTime - p - g.gap
  BY <1>3, <1>10, <1>18, <1>19
<1>21. start - to - drift = g.gap - (to - StartTime - p)
  BY <1>3, <1>10, <1>17, <1>18, <1>19
<1>22. /\ Abs(drift + g.resume - start) + (IF g.resume < StartTime THEN Unit ELSE 0) <= Threshold =>
            2 * Abs(to - g.resume) <= Unit
       /\ Abs(drift + g.resume - start) > Threshold + 2 * Unit =>
            2 * Abs(start - to - drift) <= Unit
  BY <1>14, <1>20, <1>21 DEF p
<1>q. QED
  BY <1>15, <1>22 DEF drift, at, start, end, g

(* The first sample is heard at the start time that is returned, and after *)
(* every gap that is filled the sound resumes when its timestamp says, for *)
(* all timestamps, whatever drift the gaps before it have left.            *)
THEOREM SoundOnTimeAlways ==
  Spec => []SoundOnTime
<1>1. IInv => SoundOnTime
  BY JudgedOnTime DEF IInv, SoundOnTime
<1>q. QED
  BY <1>1, InvariantHolds, PTL
===============================================================================
