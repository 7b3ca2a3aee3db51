-------------------------- MODULE DecodePipelineProofs --------------------------
(***************************************************************************)
(* What decode_media guarantees for every file, request, header and        *)
(* limit: no buffer before every plan, and when it succeeds every frame of *)
(* the window in the rows, the sound's views over all of its samples, and  *)
(* the start of each sound stream at its first sample.                     *)
(*                                                                         *)
(* The invariant follows a stream's frames on their way: still to be sent, *)
(* held by the decoder, in the graph, written.  On that way they never     *)
(* overtake each other, and in the window none gets lost but those that    *)
(* a full tensor refuses, which come after all that is in it.              *)
(***************************************************************************)
EXTENDS DecodePipeline, FiniteSetTheorems, SequenceTheorems, WellFoundedInduction, TLAPS

-------------------------------------------------------------------------------
(* The invariant.                                                          *)

View == [frame : Frames, at : Nat, length : Nat]
Injective(s) == \A i, j \in DOMAIN s : s[i] = s[j] => i = j

TypeInv ==
  /\ asked \in Requests /\ packets \in Files /\ header \in Headers(packets) /\ direct \in Directs
  /\ order \in Seq(Streams) /\ Injective(order)
  /\ plan \in [Streams -> Int \union {NoTime}] /\ capacity \in [Streams -> Int \union {NoTime}]
  /\ next \in Nat \ {0}
  /\ finished \in [Streams -> BOOLEAN] /\ draining \in [Streams -> BOOLEAN]
  /\ held \in [Streams -> SUBSET Frames]
  /\ graph \in [Streams -> Seq(Frames)] /\ rows \in [Streams -> Seq(Frames)]
  /\ decoded \in [Streams -> Seq(View)]
  /\ start \in [Streams -> [decoded : Time, output : Time, wrote : BOOLEAN]]
  /\ pc \in {"select", "plan", "allocate", "seek", "demux", "send", "receive", "drain", "flush",
             "hand_out", "done", "failed", "refused", "planned"}
  /\ mode \in {"packet", "refused", "flush", "graph"}
  /\ frames \in Seq(View) /\ kept \in Nat /\ all = <<>>

(* Where the program is.                                                   *)
Early      == pc \in {"select", "plan", "allocate", "seek"}
Collecting == pc \in {"receive", "drain"}
Demuxing   == pc \in {"demux", "send"} \/ (Collecting /\ mode \in {"packet", "refused"})
Flushing   == pc \in {"flush", "hand_out", "done"} \/ (Collecting /\ mode \in {"flush", "graph"})
Busy       == Demuxing \/ Flushing
AtPacket   == pc = "send" \/ (Collecting /\ mode \in {"packet", "refused"})
AtStream   == pc \in {"plan", "allocate", "seek", "demux", "send", "receive", "drain", "flush"}

(* Every plan is made before a buffer, and every buffer before the loop.   *)
PlanOk(s) == plan[s] \in Nat /\ plan[s] * Bytes[s] <= Limit
PlanInv ==
  /\ pc = "select" => order = <<>>
  /\ AtStream => current \in Chosen
  /\ pc \in {"select", "plan", "refused"} => \A s \in Streams : capacity[s] = NoTime
  /\ pc = "plan" => \A i, j \in DOMAIN order : order[i] = current /\ j < i => PlanOk(order[j])
  /\ pc \notin {"select", "plan", "refused"} => \A s \in Chosen : PlanOk(s)
  /\ pc = "allocate" =>
       \A i, j \in DOMAIN order : order[i] = current /\ j < i => capacity[order[j]] = plan[order[j]]
  /\ pc = "seek" \/ Busy => \A s \in Chosen : capacity[s] = plan[s]
  /\ pc = "seek" => Known(window.start)

(* Nothing is decoded before, nor of other streams.                        *)
Idle(s) ==
  /\ ~ finished[s] /\ ~ draining[s] /\ held[s] = {}
  /\ graph[s] = <<>> /\ rows[s] = <<>> /\ decoded[s] = <<>>
  /\ start[s].decoded = NoTime /\ ~ start[s].wrote
EarlyInv ==
  /\ Early => next = 1
  /\ \A s \in Streams : Early \/ s \notin Chosen => Idle(s)

(* While packets are read a decoder has no frame to give, but for the one  *)
(* that is asked for it; one that refuses a packet does because the tensor *)
(* is full.  Streams are flushed in order, when no packet matters any more.*)
PhaseInv ==
  /\ Demuxing => \A s \in Chosen :
       /\ ~ draining[s]
       /\ (s = current /\ Collecting) \/ Full(s) \/ ~ HasOutput(s)
  /\ AtPacket => next \in Frames /\ Of(next) = current
  /\ Collecting /\ mode = "refused" => pc = "receive" /\ Full(current) /\ frames = <<>>
  /\ Flushing => next > Len(packets) \/ AllFinished
  /\ pc = "flush" \/ (Collecting /\ mode \in {"flush", "graph"}) =>
       \A i, j \in DOMAIN order : order[i] = current /\ j < i => draining[order[j]]
  /\ Collecting /\ mode \in {"flush", "graph"} => draining[current]
  /\ pc \in {"hand_out", "done"} => \A s \in Chosen : draining[s]
  /\ Collecting /\ mode = "graph" => pc = "drain" /\ (held[current] = {} \/ Full(current))
  /\ pc = "drain" => kept <= Len(frames)

-------------------------------------------------------------------------------
(* A stream's frames: to be sent to the decoder, or in it; in its graph;   *)
(* collected by the call at work; written, or that found the tensor full.  *)
Sent      == Collecting /\ mode = "packet"
Ahead(s)  == {f \in Frames : Of(f) = s /\ ~ draining[s] /\ (f > next \/ (f = next /\ ~ Sent))}
Coming(s) == held[s] \union Ahead(s)
InGraph(s) == {graph[s][k] : k \in DOMAIN graph[s]}
Fresh(s)  == IF Collecting /\ s = current THEN frames ELSE <<>>
Behind(s) ==
  {rows[s][k] : k \in DOMAIN rows[s]} \union {Fresh(s)[i].frame : i \in DOMAIN Fresh(s)}

(* None overtakes another.                                                 *)
HeldInv(s) ==
  /\ \A f \in held[s] : Of(f) = s
  /\ \A f \in held[s], p \in Ahead(s) : f < p
OrderInv(s) ==
  /\ \A x \in Behind(s) \union InGraph(s) : Of(x) = s
  /\ \A x \in Behind(s) \union InGraph(s), y \in Coming(s) : Pts(x) < Pts(y)
  /\ \A x \in Behind(s), y \in InGraph(s) : Pts(x) < Pts(y)
  /\ \A i, j \in DOMAIN graph[s] : i < j => Pts(graph[s][i]) < Pts(graph[s][j])
  /\ s \in direct => graph[s] = <<>>

(* None of the window is lost but what its stream was cut short before,    *)
(* and none of it is left behind by a stream that has been flushed but     *)
(* what is too late for the tensor.                                        *)
CompleteInv(s) ==
  \A f \in Frames : Of(f) = s /\ InWindow(f) =>
    Delivered(s, f) \/ CutShort(f) \/ f \in Coming(s) \union InGraph(s)
Flushed(s) == draining[s] /\ ~ (Collecting /\ s = current)
FlushedInv(s) == Flushed(s) => Full(s) \/ (held[s] = {} /\ graph[s] = <<>>)
FinishedInv(s) ==
  finished[s] => window.end # NoTime /\ \A f \in Ahead(s) : Pts(f) > window.end \/ CutShort(f)

(* The rows are whole frames, but for a last one cut.                      *)
RowsInv(s) ==
  /\ Len(rows[s]) <= capacity[s]
  /\ \A k \in DOMAIN rows[s] : ~ BeforeStart(rows[s][k])
  /\ InBlocks(s)
  /\ Len(rows[s]) % Size(s) = 0 \/ Full(s)

(* Sound: the views, those returned (decoded) and those collected (Fresh), *)
(* tile the samples, but for samples past the end of the window between.   *)
ViewOk(s, view) ==
  /\ view.at + view.length <= Len(rows[s])
  /\ \A k \in view.at + 1 .. view.at + view.length : rows[s][k] = view.frame
EndOf(views) == IF views = <<>> THEN 0 ELSE views[Len(views)].at + views[Len(views)].length
FreshFrom(s) == IF Fresh(s) = <<>> THEN Len(rows[s]) ELSE Fresh(s)[1].at

DecodedInv(s) ==
  /\ \A i \in DOMAIN decoded[s] :
       /\ ViewOk(s, decoded[s][i])
       /\ decoded[s][i].at =
            IF i = 1 THEN 0 ELSE decoded[s][i - 1].at + decoded[s][i - 1].length
  /\ \A k \in 1 .. EndOf(decoded[s]) : \E i \in DOMAIN decoded[s] : decoded[s][i].frame = rows[s][k]
FreshInv(s) ==
  /\ \A i \in DOMAIN Fresh(s) : /\ ViewOk(s, Fresh(s)[i]) /\ ~ BeforeStart(Fresh(s)[i].frame)
                                /\ \A k \in 1 .. Fresh(s)[i].at : Pts(rows[s][k]) < Pts(Fresh(s)[i].frame)
  /\ \A i \in DOMAIN Fresh(s) \ {1} : Fresh(s)[i].at = Fresh(s)[i - 1].at + Fresh(s)[i - 1].length
  /\ \A i, j \in DOMAIN Fresh(s) : i < j =>
       /\ Fresh(s)[i].at + Fresh(s)[i].length <= Fresh(s)[j].at
       /\ Pts(Fresh(s)[i].frame) < Pts(Fresh(s)[j].frame)
  /\ Fresh(s) # <<>> => EndOf(Fresh(s)) = Len(rows[s])
  /\ \A k \in FreshFrom(s) + 1 .. Len(rows[s]) : \E i \in DOMAIN Fresh(s) :
       Fresh(s)[i].at < k /\ k <= Fresh(s)[i].at + Fresh(s)[i].length
GapInv(s) ==
  /\ EndOf(decoded[s]) <= FreshFrom(s)
  /\ \A k \in EndOf(decoded[s]) + 1 .. FreshFrom(s) : ~ InWindow(rows[s][k])

(* Sound: where it starts.                                                 *)
WroteInv(s) ==
  /\ start[s].wrote => rows[s] # <<>> /\ start[s].output = Pts(rows[s][1])
  /\ ~ start[s].wrote =>
       IF Fresh(s) = <<>> THEN rows[s] = <<>>
       ELSE rows[s] # <<>> /\ Fresh(s)[1].frame = rows[s][1]
BeginInv(s) ==
  /\ start[s].decoded = NoTime => rows[s] = <<>> /\ graph[s] = <<>>
  /\ start[s].decoded # NoTime =>
       \A x \in Behind(s) \union InGraph(s) \union Coming(s) : start[s].decoded <= Pts(x)
  /\ graph[s] # <<>> => capacity[s] > 0

SoundInv(s) ==
  DecodedInv(s) /\ FreshInv(s) /\ GapInv(s) /\ WroteInv(s) /\ BeginInv(s)
StreamInv(s) ==
  /\ HeldInv(s) /\ OrderInv(s) /\ CompleteInv(s) /\ FlushedInv(s) /\ FinishedInv(s)
  /\ RowsInv(s)

LoopInv ==
  /\ PhaseInv
  /\ \A s \in Chosen : StreamInv(s) /\ (s \in Audio => SoundInv(s))

IInv == TypeInv /\ PlanInv /\ EarlyInv /\ (Busy => LoopInv)

-------------------------------------------------------------------------------
(* Numbers and sequences.                                                  *)

LEMMA LeastExists ==
  ASSUME NEW S \in SUBSET Nat, S # {}
  PROVE  \E x \in S : \A y \in S : x <= y
<1> DEFINE R == {ss \in Nat \X Nat : ss[1] < ss[2]}
<1>1. IsWellFoundedOn(R, Nat)
  BY NatLessThanWellFounded, Zenon DEF OpToRel
<1>2. PICK x \in S : \A y \in S : ~ (<<y, x>> \in R)
  BY <1>1, WFMin
<1>3. ASSUME NEW y \in S PROVE x <= y
  <2>1. <<y, x>> \notin R  BY <1>2
  <2>2. <<y, x>>[1] = y /\ <<y, x>>[2] = x /\ <<y, x>> \in Nat \X Nat
    OBVIOUS
  <2>3. ~ (y < x)  BY <2>1, <2>2, Zenon
  <2>. QED  BY <2>3
<1>. QED  BY <1>3

(* A finite set of numbers has a least one: the one with none below it.    *)
LEMMA MinFacts ==
  ASSUME NEW S \in SUBSET Int, IsFiniteSet(S), S # {}
  PROVE  Min(S) \in S /\ \A y \in S : Min(S) <= y
<1> DEFINE Below(x) == {y \in S : y < x}
           Ranks == {Cardinality(Below(x)) : x \in S}
<1>1. \A x \in S : IsFiniteSet(Below(x)) /\ Cardinality(Below(x)) \in Nat
  BY FS_Subset, FS_CardinalityType
<1>2. Ranks \in SUBSET Nat /\ Ranks # {}
  BY <1>1
<1>3. PICK r \in Ranks : \A q \in Ranks : r <= q
  BY <1>2, LeastExists
<1>4. PICK x \in S : r = Cardinality(Below(x))
  BY <1>3
<1>5. ASSUME NEW y \in S, y < x PROVE FALSE
  <2>0. \A h \in S : h < y => h < x
    BY <1>5
  <2>1. Below(y) \in SUBSET Below(x) /\ y \in Below(x) /\ y \notin Below(y)
    <3>1. Below(y) \subseteq Below(x)
      BY <2>0
    <3>2. y \in Below(x) /\ y \notin Below(y)
      BY <1>5
    <3>q. QED
      BY <3>1, <3>2, Zenon
  <2>2. Cardinality(Below(y)) <= Cardinality(Below(x))
        /\ Cardinality(Below(y)) # Cardinality(Below(x))
    BY <1>1, <2>1, FS_Subset
  <2>3. Cardinality(Below(y)) \in Ranks
    OBVIOUS
  <2>4. Cardinality(Below(x)) <= Cardinality(Below(y))
    BY <1>3, <1>4, <2>3
  <2>5. Cardinality(Below(x)) \in Nat /\ Cardinality(Below(y)) \in Nat
    BY <1>1
  <2>q. QED
    BY <2>2, <2>4, <2>5
<1>6. \A y \in S : x <= y
  BY <1>5
<1>q. QED
  BY <1>6, Zenon DEF Min

(* Picking elements of a sequence keeps their order and leaves none out.   *)
LEMMA NthFacts ==
  ASSUME NEW k \in Nat, NEW I \in SUBSET (1 .. k)
  PROVE  /\ Cardinality(I) \in Nat
         /\ \A n \in 1 .. Cardinality(I) : Nth(I, n) \in I
         /\ \A n, m \in 1 .. Cardinality(I) : n < m => Nth(I, n) < Nth(I, m)
         /\ \A i \in I : \E n \in 1 .. Cardinality(I) : Nth(I, n) = i
<1> DEFINE c == Cardinality(I)
           Below(i) == {j \in I : j <= i}
           rank == [i \in I |-> Cardinality(Below(i))]
<1>1. IsFiniteSet(I) /\ c \in Nat
  <2>1. IsFiniteSet(1 .. k)
    BY FS_Interval
  <2>q. QED
    BY <2>1, FS_Subset, FS_CardinalityType
<1>2. ASSUME NEW i \in I
      PROVE  /\ IsFiniteSet(Below(i)) /\ Cardinality(Below(i)) \in 1 .. c
  <2>1. IsFiniteSet(Below(i)) /\ Cardinality(Below(i)) <= c
    BY <1>1, FS_Subset
  <2>2. Cardinality(Below(i)) \in Nat
    BY <2>1, FS_CardinalityType
  <2>3. i \in Below(i)
    OBVIOUS
  <2>4. Cardinality(Below(i)) # 0
    BY <2>1, <2>3, FS_EmptySet
  <2>q. QED
    BY <1>1, <2>1, <2>2, <2>4
<1>3. ASSUME NEW i \in I, NEW j \in I, i < j PROVE rank[i] < rank[j]
  <2>1. IsFiniteSet(Below(j)) /\ Below(i) \in SUBSET Below(j)
    <3>1. \A h \in I : h <= i => h <= j
      BY <1>3
    <3>q. QED
      BY <1>2, <3>1
  <2>2. j \in Below(j) /\ j \notin Below(i)
    BY <1>3
  <2>3. Cardinality(Below(i)) <= Cardinality(Below(j))
        /\ Cardinality(Below(i)) # Cardinality(Below(j))
    BY <2>1, <2>2, FS_Subset
  <2>4. Cardinality(Below(i)) \in Nat /\ Cardinality(Below(j)) \in Nat
    BY <1>2
  <2>q. QED
    BY <2>3, <2>4
<1>4. rank \in Injection(I, 1 .. c)
  <2>1. rank \in [I -> 1 .. c]
    BY <1>2
  <2>2. ASSUME NEW i \in I, NEW j \in I, rank[i] = rank[j] PROVE i = j
    <3>1. rank[i] \in 1 .. c /\ rank[j] \in 1 .. c
      BY <2>1
    <3>2. ~ (i < j) /\ ~ (j < i)
      BY <1>1, <1>3, <2>2, <3>1
    <3>q. QED
      BY <3>2
  <2>q. QED
    BY <2>1, <2>2 DEF Injection, IsInjective
<1>5. rank \in Surjection(I, 1 .. c)
  <2>1. IsFiniteSet(1 .. c) /\ Cardinality(1 .. c) = c
    BY <1>1, FS_Interval
  <2>q. QED
    BY <1>1, <1>4, <2>1, FS_Injection
<1>6. ASSUME NEW n \in 1 .. c PROVE Nth(I, n) \in I /\ rank[Nth(I, n)] = n
  <2>1. \E i \in I : rank[i] = n
    BY <1>5 DEF Surjection
  <2>2. \E i \in I : Cardinality(Below(i)) = n
    BY <2>1
  <2>3. Nth(I, n) \in I /\ Cardinality(Below(Nth(I, n))) = n
    BY <2>2, Zenon DEF Nth
  <2>q. QED
    BY <2>3
<1>7. ASSUME NEW n \in 1 .. c, NEW m \in 1 .. c, n < m PROVE Nth(I, n) < Nth(I, m)
  <2>1. /\ Nth(I, n) \in I /\ rank[Nth(I, n)] = n
        /\ Nth(I, m) \in I /\ rank[Nth(I, m)] = m
    BY <1>6
  <2>2. Nth(I, m) < Nth(I, n) => rank[Nth(I, m)] < rank[Nth(I, n)]
    BY <1>3, <2>1
  <2>3. Nth(I, n) \in Int /\ Nth(I, m) \in Int /\ n \in Int /\ m \in Int
    <3>1. I \subseteq Int
      OBVIOUS
    <3>2. n \in Int /\ m \in Int
      <4> HIDE DEF c
      <4>q. QED
        OBVIOUS
    <3>3. Nth(I, n) \in I /\ Nth(I, m) \in I
      BY <2>1
    <3>q. QED
      BY ONLY <3>1, <3>2, <3>3, Zenon
  <2> HIDE DEF rank
  <2>q. QED
    BY ONLY <1>7, <2>1, <2>2, <2>3
<1>8. ASSUME NEW i \in I PROVE \E n \in 1 .. c : Nth(I, n) = i
  <2>1. rank[i] \in 1 .. c
    BY <1>2
  <2>2. Nth(I, rank[i]) \in I /\ rank[Nth(I, rank[i])] = rank[i]
    BY <1>6, <2>1
  <2>3. Nth(I, rank[i]) = i
    BY <1>4, <2>2 DEF Injection, IsInjective
  <2>q. QED
    BY <2>1, <2>3
<1>q. QED
  BY <1>1, <1>6, <1>7, <1>8

LEMMA PickedFacts ==
  ASSUME NEW s, NEW k \in Nat, NEW I \in SUBSET (1 .. k)
  PROVE  /\ Cardinality(I) \in Nat
         /\ Len(Picked(s, I)) = Cardinality(I) /\ DOMAIN Picked(s, I) = 1 .. Cardinality(I)
         /\ \A n \in 1 .. Cardinality(I) : Nth(I, n) \in I /\ Picked(s, I)[n] = s[Nth(I, n)]
<1>1. Cardinality(I) \in Nat /\ \A n \in 1 .. Cardinality(I) : Nth(I, n) \in I
  BY NthFacts
<1> DEFINE c == Cardinality(I)
           f == [n \in 1 .. c |-> s[Nth(I, n)]]
           S == {s[i] : i \in I}
<1>2. f \in [1 .. c -> S]
  BY <1>1
<1>3. f \in Seq(S)
  BY <1>1, <1>2, SeqDef
<1>4. Len(f) \in Nat /\ 1 .. Len(f) = 1 .. c
  BY <1>3, LenProperties
<1>5. Len(f) = c
  BY <1>1, <1>4
<1>q. QED
  BY <1>1, <1>5 DEF Picked

(* Those before some place are a prefix.                                   *)
LEMMA PickedPrefix ==
  ASSUME NEW s, NEW m \in Nat
  PROVE  /\ Len(Picked(s, 1 .. m)) = m /\ DOMAIN Picked(s, 1 .. m) = 1 .. m
         /\ \A n \in 1 .. m : Picked(s, 1 .. m)[n] = s[n]
<1>1. Cardinality(1 .. m) = m
  BY FS_Interval
<1>2. ASSUME NEW n \in 1 .. m PROVE Nth(1 .. m, n) = n
  <2>1. Nth(1 .. m, n) = CHOOSE i \in 1 .. m : Cardinality({j \in 1 .. m : j <= i}) = n
    BY DEF Nth
  <2>2. ASSUME NEW i \in 1 .. m PROVE Cardinality({j \in 1 .. m : j <= i}) = i
    <3>1. {j \in 1 .. m : j <= i} = 1 .. i
      OBVIOUS
    <3>2. 1 \in Int /\ i \in Int /\ ~ (1 > i) /\ i - 1 + 1 = i
      OBVIOUS
    <3>3. Cardinality(1 .. i) = i
      BY <3>2, FS_Interval
    <3>q. QED
      BY <3>1, <3>3
  <2>q. QED
    BY <2>1, <2>2
<1>3. 1 .. m \in SUBSET (1 .. m)
  OBVIOUS
<1>4. /\ Len(Picked(s, 1 .. m)) = m /\ DOMAIN Picked(s, 1 .. m) = 1 .. m
      /\ \A n \in 1 .. m : Picked(s, 1 .. m)[n] = s[Nth(1 .. m, n)]
  <2>1. LET c == Cardinality(1 .. m)
        IN /\ Len(Picked(s, 1 .. m)) = c /\ DOMAIN Picked(s, 1 .. m) = 1 .. c
           /\ \A n \in 1 .. c : Picked(s, 1 .. m)[n] = s[Nth(1 .. m, n)]
    BY <1>3, PickedFacts
  <2>q. QED
    BY ONLY <1>1, <2>1, Zenon
<1>q. QED
  BY <1>2, <1>4

(* The block of a place among blocks of one size.                          *)
LEMMA BlockFacts ==
  ASSUME NEW size \in Nat \ {0}, NEW n \in Nat, n % size = 0, NEW j \in Nat
  PROVE  /\ j < n => j \div size < n \div size
         /\ n <= j /\ j < n + size => j \div size = n \div size
         /\ (n + size) % size = 0
<1> DEFINE q == n \div size
           p == j \div size
<1>1. n = q * size /\ q \in Nat
  OBVIOUS
<1>2. p \in Nat /\ size * p <= j /\ j < size * p + size
  OBVIOUS
<1> DEFINE k == (n + size) \div size
           r == (n + size) % size
<1>3. k \in Nat /\ r \in 0 .. size - 1 /\ n + size = size * k + r
  OBVIOUS
<1> HIDE DEF q, p, k, r
<1>4. ASSUME NEW a \in Nat, NEW b \in Nat, a < b PROVE size * a + size <= size * b
  <2>1. b - a - 1 \in Nat /\ b = (a + 1) + (b - a - 1)
    BY <1>4
  <2>2. size * b = size * (a + 1) + size * (b - a - 1) /\ size * (b - a - 1) \in Nat
    BY <2>1
  <2>3. size * (a + 1) = size * a + size /\ size * a \in Nat
    OBVIOUS
  <2>q. QED
    BY <2>2, <2>3
<1>5. n = size * q /\ size * p \in Nat /\ size * q \in Nat
  BY <1>1, <1>2
<1>6. j < n => p < q
  <2>1. ~ (p < q) => p = q \/ q < p
    BY <1>1, <1>2
  <2>q. QED
    BY <1>1, <1>2, <1>4, <1>5, <2>1
<1>7. n <= j /\ j < n + size => p = q
  <2>1. p = q \/ p < q \/ q < p
    BY <1>1, <1>2
  <2>q. QED
    BY <1>1, <1>2, <1>4, <1>5, <2>1
<1>8. r = 0
  <2>1. q + 1 \in Nat /\ size * (q + 1) = n + size
    BY <1>1
  <2>2. k < q + 1 => size * k + size <= size * (q + 1)
    BY <1>3, <1>4, <2>1
  <2>3. q + 1 < k => size * (q + 1) + size <= size * k
    BY <1>3, <1>4, <2>1
  <2>4. size * k \in Nat
    BY <1>3
  <2>5. ~ (k < q + 1) /\ ~ (q + 1 < k)
    BY <1>3, <2>1, <2>2, <2>3, <2>4
  <2>6. k = q + 1
    BY <1>1, <1>3, <2>5
  <2>q. QED
    BY <1>3, <2>1, <2>4, <2>6
<1>q. QED
  BY <1>6, <1>7, <1>8 DEF p, q, r

-------------------------------------------------------------------------------
(* The file, the request and the streams.                                  *)

LEMMA FileFacts ==
  ASSUME TypeInv
  PROVE  /\ Len(packets) \in Nat /\ Frames = 1 .. Len(packets)
         /\ \A f \in Frames : Pts(f) \in Int /\ Dts(f) \in Time
         /\ \A f, g \in Frames : Of(f) = Of(g) =>
              /\ f <= g /\ Known(Dts(f)) => Dts(f) <= Pts(g)
              /\ Pts(f) = Pts(g) => f = g
<1>1. FileAssumption(packets)
  BY PipelineAssumption DEF TypeInv
<1>2. packets \in Seq(ToSet(packets))
  BY <1>1 DEF FileAssumption
<1>3. Len(packets) \in Nat /\ Frames = 1 .. Len(packets)
  BY <1>2, LenProperties DEF Frames
<1>4. \A f \in Frames : Pts(f) \in Int /\ Dts(f) \in Time
  BY <1>1 DEF FileAssumption, Frames, Pts, Dts
<1>5. \A f, g \in Frames : f <= g /\ Of(f) = Of(g) =>
        /\ Known(Dts(f)) => Dts(f) <= Pts(g)
        /\ Pts(f) = Pts(g) => f = g
  BY <1>1 DEF FileAssumption, Frames, Pts, Dts, Of, Known
<1>6. \A f, g \in Frames : f <= g \/ g <= f
  BY <1>3
<1>q. QED
  BY <1>3, <1>4, <1>5, <1>6

(* Of the frames decoded before one, at most Reorder are shown later.      *)
LEMMA ReorderBound ==
  ASSUME TypeInv, NEW p \in Frames, NEW S \in SUBSET Frames,
         \A f \in S : f < p /\ Of(f) = Of(p) /\ Pts(f) > Pts(p)
  PROVE  IsFiniteSet(S) /\ Cardinality(S) \in Nat /\ Cardinality(S) <= Reorder
<1> DEFINE T == {j \in 1 .. p - 1 : packets[j].stream = packets[p].stream
                                       /\ packets[j].pts > packets[p].pts}
<1>1. Cardinality(T) <= Reorder
  BY PipelineAssumption DEF TypeInv, FileAssumption, Frames
<1>2. p \in Int /\ \A f \in S : f \in 1 .. p - 1
  BY FileFacts
<1>3. S \subseteq T
  BY <1>2 DEF Of, Pts
<1>4. IsFiniteSet(1 .. p - 1)
  BY <1>2, FS_Interval
<1>5. IsFiniteSet(T)
  BY <1>4, FS_Subset
<1>6. IsFiniteSet(S) /\ Cardinality(S) <= Cardinality(T)
  BY <1>3, <1>5, FS_Subset
<1>7. Cardinality(S) \in Nat /\ Cardinality(T) \in Nat
  BY <1>5, <1>6, FS_CardinalityType
<1>q. QED
  BY <1>1, <1>6, <1>7, PipelineAssumption

LEMMA RequestFacts ==
  ASSUME TypeInv
  PROVE  /\ RequestAssumption(asked, header)
         /\ NoTime \notin Int
         /\ window.start \in Int \union {NoTime} /\ window.end \in Int \union {NoTime}
         /\ Samples \in Nat \ {0} /\ \A s : Size(s) \in Nat \ {0}
<1>1. RequestAssumption(asked, header)
  BY PipelineAssumption DEF TypeInv
<1>q. QED
  BY <1>1, PipelineAssumption DEF RequestAssumption, Time, window, Size

(* What an action leaves as it was given.                                  *)
LEMMA SameGiven ==
  ASSUME UNCHANGED given
  PROVE  /\ packets' = packets /\ asked' = asked /\ header' = header /\ direct' = direct
         /\ Frames' = Frames /\ View' = View /\ window' = window
<1>1. packets' = packets /\ asked' = asked /\ header' = header /\ direct' = direct
  BY DEF given
<1>2. Frames' = Frames
  BY <1>1 DEF Frames
<1>3. window' = window
  BY <1>1 DEF window
<1>4. View' = View
  BY <1>2, Zenon DEF View
<1>q. QED
  BY <1>1, <1>2, <1>3, <1>4

LEMMA SameFrames ==
  ASSUME UNCHANGED given
  PROVE  /\ \A f : Of(f)' = Of(f) /\ Pts(f)' = Pts(f) /\ Dts(f)' = Dts(f)
         /\ \A f : BeforeStart(f)' <=> BeforeStart(f)
         /\ \A f : InWindow(f)' <=> InWindow(f)
         /\ \A f : CutShort(f)' <=> CutShort(f)
<1>1. packets' = packets /\ window' = window
  BY DEF given, window
<1>5. \A f : Of(f)' = Of(f) /\ Pts(f)' = Pts(f) /\ Dts(f)' = Dts(f)
  BY <1>1 DEF Of, Pts, Dts
<1>6. \A f : BeforeStart(f)' <=> BeforeStart(f)
  BY <1>1, <1>5 DEF BeforeStart
<1>7. \A f : InWindow(f)' <=> InWindow(f)
  BY <1>1, <1>5, <1>6 DEF InWindow
<1>8. \A f : CutShort(f)' <=> CutShort(f)
  BY <1>1, <1>5 DEF CutShort, Frames
<1>q. QED
  BY <1>5, <1>6, <1>7, <1>8

-------------------------------------------------------------------------------
(* A stream's frames on their way.                                         *)

LEMMA StreamTyped ==
  ASSUME TypeInv, NEW s \in Streams
  PROVE  /\ held[s] \subseteq Frames /\ Ahead(s) \subseteq Frames /\ Coming(s) \subseteq Frames
         /\ graph[s] \in Seq(Frames) /\ InGraph(s) \subseteq Frames
         /\ rows[s] \in Seq(Frames) /\ decoded[s] \in Seq(View)
         /\ Fresh(s) \in Seq(View) /\ Behind(s) \subseteq Frames
         /\ start[s] \in [decoded : Time, output : Time, wrote : BOOLEAN]
<1>1. /\ held[s] \subseteq Frames /\ graph[s] \in Seq(Frames) /\ rows[s] \in Seq(Frames)
      /\ decoded[s] \in Seq(View) /\ start[s] \in [decoded : Time, output : Time, wrote : BOOLEAN]
  BY DEF TypeInv
<1>2. Ahead(s) \subseteq Frames
  BY DEF Ahead
<1>3. Fresh(s) \in Seq(View)
  BY DEF TypeInv, Fresh
<1>4. InGraph(s) \subseteq Frames /\ {rows[s][k] : k \in DOMAIN rows[s]} \subseteq Frames
  BY <1>1, ElementOfSeq, LenProperties DEF InGraph
<1>5. {Fresh(s)[i].frame : i \in DOMAIN Fresh(s)} \subseteq Frames
  <2>1. \A i \in DOMAIN Fresh(s) : Fresh(s)[i] \in View
    BY <1>3, ElementOfSeq, LenProperties
  <2>q. QED
    BY <2>1 DEF View
<1>q. QED
  BY <1>1, <1>2, <1>3, <1>4, <1>5 DEF Coming, Behind

(* What comes when the tensor is full comes too late for it.               *)
LEMMA FullDelivers ==
  ASSUME NEW s, OrderInv(s), Full(s), NEW f \in Coming(s) \union InGraph(s)
  PROVE  Delivered(s, f)
BY DEF OrderInv, Delivered, Behind

(* The order stays when frames leave their places, or go on to the         *)
(* decoder.                                                                *)
LEMMA OrderKept ==
  ASSUME UNCHANGED given, NEW s, OrderInv(s),
         Behind(s)' \subseteq Behind(s), Coming(s)' \subseteq Coming(s),
         graph'[s] = graph[s]
  PROVE  OrderInv(s)'
<1>1. direct' = direct /\ InGraph(s)' = InGraph(s)
  BY SameGiven DEF InGraph
<1>q. QED
  BY <1>1, SameFrames DEF OrderInv

(* The rows stay, and what is lost is not in the window or too late.       *)
LEMMA RowsKept ==
  ASSUME UNCHANGED given, NEW s, RowsInv(s), rows'[s] = rows[s], capacity'[s] = capacity[s]
  PROVE  /\ RowsInv(s)' /\ (Full(s)' <=> Full(s))
         /\ \A f : Delivered(s, f)' <=> Delivered(s, f)
<1>1. Full(s)' <=> Full(s)
  BY DEF Full
<1>2. \A f : Delivered(s, f)' <=> Delivered(s, f)
  BY <1>1, SameFrames DEF Delivered
<1>3. InBlocks(s)' <=> InBlocks(s)
  BY SameFrames DEF InBlocks, Size
<1>4. RowsInv(s)'
  BY <1>1, <1>3, SameFrames DEF RowsInv, Size
<1>q. QED
  BY <1>1, <1>2, <1>4

LEMMA CompleteKept ==
  ASSUME UNCHANGED given, NEW s, CompleteInv(s),
         \A f \in Frames : Delivered(s, f) => Delivered(s, f)',
         \A f \in Coming(s) \union InGraph(s) :
           f \in Coming(s)' \union InGraph(s)' \/ ~ InWindow(f) \/ CutShort(f)
             \/ Delivered(s, f)'
  PROVE  CompleteInv(s)'
BY SameGiven, SameFrames DEF CompleteInv

(* A frame leaves the graph: the first of those in it.                     *)
LEMMA GraphDrained ==
  ASSUME TypeInv, UNCHANGED given, NEW s \in Streams, OrderInv(s), graph[s] # <<>>,
         graph'[s] = Tail(graph[s])
  PROVE  /\ Head(graph[s]) \in InGraph(s)
         /\ InGraph(s) = {Head(graph[s])} \union InGraph(s)'
         /\ \A y \in InGraph(s)' : Pts(Head(graph[s])) < Pts(y)
         /\ \A i, j \in DOMAIN graph'[s] : i < j => Pts(graph'[s][i]) < Pts(graph'[s][j])
         /\ s \notin direct
<1> DEFINE g == graph[s]
           n == Len(g)
<1>1. /\ g \in Seq(Frames) /\ n \in Nat \ {0} /\ DOMAIN g = 1 .. n /\ Head(g) = g[1]
      /\ DOMAIN Tail(g) = 1 .. n - 1 /\ \A i \in 1 .. n - 1 : Tail(g)[i] = g[i + 1]
  BY StreamTyped, HeadTailProperties, EmptySeq, LenProperties
<1>2. /\ InGraph(s) = {g[k] : k \in 1 .. n}
      /\ InGraph(s)' = {g[k + 1] : k \in 1 .. n - 1}
  BY <1>1 DEF InGraph
<1>3. \A i, j \in 1 .. n : i < j => Pts(g[i]) < Pts(g[j])
  BY <1>1 DEF OrderInv
<1>4. s \notin direct
  BY DEF OrderInv
<1> HIDE DEF g, n
<1>5. 1 \in 1 .. n /\ \A k \in 1 .. n - 1 : k + 1 \in 1 .. n /\ 1 < k + 1
  BY <1>1
<1>6. \A k \in 1 .. n : k = 1 \/ k - 1 \in 1 .. n - 1
  BY <1>1
<1>7. InGraph(s) = {Head(g)} \union InGraph(s)'
  <2>1. ASSUME NEW x \in InGraph(s) PROVE x \in {Head(g)} \union InGraph(s)'
    <3>1. PICK k \in 1 .. n : x = g[k]
      BY <1>2
    <3>2. CASE k = 1
      BY <1>1, <3>1, <3>2
    <3>3. CASE k - 1 \in 1 .. n - 1
      <4>1. g[(k - 1) + 1] \in InGraph(s)' /\ (k - 1) + 1 = k
        BY <1>2, <3>3
      <4>q. QED
        BY <3>1, <4>1
    <3>q. QED
      BY <1>6, <3>2, <3>3
  <2>2. ASSUME NEW x \in {Head(g)} \union InGraph(s)' PROVE x \in InGraph(s)
    BY <1>1, <1>2, <1>5
  <2>q. QED
    BY <2>1, <2>2
<1>8. \A y \in InGraph(s)' : Pts(Head(g)) < Pts(y)
  BY <1>1, <1>2, <1>3, <1>5
<1>9. \A i, j \in DOMAIN graph'[s] : i < j => Pts(graph'[s][i]) < Pts(graph'[s][j])
  <2>1. DOMAIN graph'[s] = 1 .. n - 1 /\ \A i \in 1 .. n - 1 : graph'[s][i] = g[i + 1]
    BY <1>1 DEF g
  <2>2. ASSUME NEW i \in 1 .. n - 1, NEW j \in 1 .. n - 1, i < j PROVE Pts(g[i + 1]) < Pts(g[j + 1])
    <3>1. i + 1 \in 1 .. n /\ j + 1 \in 1 .. n /\ i + 1 < j + 1
      BY <1>1, <2>2
    <3>q. QED
      BY <1>3, <3>1
  <2>q. QED
    BY <2>1, <2>2
<1>q. QED
  BY <1>4, <1>7, <1>8, <1>9 DEF g

(* A frame enters the graph, behind those in it.                           *)
LEMMA GraphFed ==
  ASSUME TypeInv, UNCHANGED given, NEW s \in Streams, OrderInv(s), NEW f \in Frames,
         \A x \in InGraph(s) : Pts(x) < Pts(f),
         graph'[s] = Append(graph[s], f)
  PROVE  /\ InGraph(s)' = InGraph(s) \union {f}
         /\ \A i, j \in DOMAIN graph'[s] : i < j => Pts(graph'[s][i]) < Pts(graph'[s][j])
<1> DEFINE g == graph[s]
           n == Len(g)
<1>1. /\ g \in Seq(Frames) /\ n \in Nat /\ DOMAIN g = 1 .. n
      /\ DOMAIN graph'[s] = 1 .. n + 1
      /\ \A i \in 1 .. n : graph'[s][i] = g[i]
      /\ graph'[s][n + 1] = f
  BY StreamTyped, AppendProperties, LenProperties
<1>2. \A i, j \in 1 .. n : i < j => Pts(g[i]) < Pts(g[j])
  BY <1>1 DEF OrderInv
<1>3. InGraph(s) = {g[k] : k \in 1 .. n} /\ InGraph(s)' = {graph'[s][k] : k \in 1 .. n + 1}
  BY <1>1 DEF InGraph
<1> HIDE DEF g, n
<1>4. \A k \in 1 .. n + 1 : k \in 1 .. n \/ k = n + 1
  BY <1>1
<1>5. n + 1 \in 1 .. n + 1 /\ \A k \in 1 .. n : k \in 1 .. n + 1
  BY <1>1
<1>6. InGraph(s)' = InGraph(s) \union {f}
  BY <1>1, <1>3, <1>4, <1>5
<1>7. ASSUME NEW i \in 1 .. n + 1, NEW j \in 1 .. n + 1, i < j
      PROVE  Pts(graph'[s][i]) < Pts(graph'[s][j])
  <2>1. i \in 1 .. n
    BY <1>1, <1>7
  <2>2. CASE j \in 1 .. n
    BY <1>1, <1>2, <1>7, <2>1, <2>2
  <2>3. CASE j = n + 1
    BY <1>1, <1>3, <2>1, <2>3
  <2>q. QED
    BY <1>4, <2>2, <2>3
<1>q. QED
  BY <1>1, <1>6, <1>7

(* A frame is written behind the others, as far as there is room.          *)
Appended(s, f) == rows'[s] = rows[s] \o [i \in 1 .. Step(s) |-> f]

LEMMA RowsAppended ==
  ASSUME TypeInv, NEW s \in Streams, capacity[s] \in Nat, RowsInv(s), NEW f \in Frames,
         Appended(s, f)
  PROVE  /\ Len(rows[s]) \in Nat /\ Len(rows[s]) <= capacity[s] /\ Step(s) \in Nat
         /\ Step(s) = MinOf(Size(s), capacity[s] - Len(rows[s]))
         /\ Len(rows'[s]) = Len(rows[s]) + Step(s)
         /\ DOMAIN rows[s] = 1 .. Len(rows[s])
         /\ DOMAIN rows'[s] = 1 .. Len(rows[s]) + Step(s)
         /\ \A k \in 1 .. Len(rows[s]) : rows'[s][k] = rows[s][k]
         /\ \A k \in Len(rows[s]) + 1 .. Len(rows[s]) + Step(s) : rows'[s][k] = f
<1>1. rows[s] \in Seq(Frames) /\ Len(rows[s]) \in Nat /\ DOMAIN rows[s] = 1 .. Len(rows[s])
  BY StreamTyped, LenProperties
<1>2. Len(rows[s]) <= capacity[s] /\ Size(s) \in Nat \ {0}
  BY RequestFacts DEF RowsInv
<1>3. Step(s) \in Nat
  BY <1>1, <1>2 DEF Step, MinOf
<1> DEFINE n == Len(rows[s])
           m == Step(s)
           new == [i \in 1 .. m |-> f]
<1>4. Step(s) = MinOf(Size(s), capacity[s] - Len(rows[s]))
  BY DEF Step
<1>5. new \in Seq(Frames) /\ Len(new) = m
  <2>1. new \in [1 .. m -> Frames]
    OBVIOUS
  <2>2. new \in Seq(Frames)
    BY <1>3, <2>1, SeqDef
  <2>3. Len(new) \in Nat /\ 1 .. Len(new) = 1 .. m
    BY <2>1, <2>2, LenProperties
  <2>q. QED
    BY <1>3, <2>2, <2>3
<1>6. /\ rows'[s] \in Seq(Frames) /\ Len(rows'[s]) = n + m
      /\ \A k \in 1 .. n + m : rows'[s][k] = IF k <= n THEN rows[s][k] ELSE new[k - n]
  <2>1. rows'[s] = rows[s] \o new
    BY DEF Appended
  <2> HIDE DEF new
  <2>2. /\ rows[s] \o new \in Seq(Frames) /\ Len(rows[s] \o new) = Len(rows[s]) + Len(new)
        /\ \A k \in 1 .. Len(rows[s]) + Len(new) :
             (rows[s] \o new)[k] = IF k <= Len(rows[s]) THEN rows[s][k] ELSE new[k - Len(rows[s])]
    BY <1>1, <1>5, ConcatProperties
  <2>q. QED
    BY <1>5, <2>1, <2>2
<1>7. DOMAIN rows'[s] = 1 .. n + m
  BY <1>6, LenProperties
<1> HIDE DEF n, m
<1>8. \A k \in 1 .. n : k \in 1 .. n + m /\ k <= n
  BY <1>1, <1>3 DEF n, m
<1>9. \A k \in n + 1 .. n + m : k \in 1 .. n + m /\ ~ (k <= n) /\ k - n \in 1 .. m
  BY <1>1, <1>3 DEF n, m
<1>q. QED
  BY <1>1, <1>2, <1>3, <1>4, <1>6, <1>7, <1>8, <1>9 DEF n, m

LEMMA RowsWritten ==
  ASSUME TypeInv, UNCHANGED given, NEW s \in Streams, capacity[s] \in Nat, RowsInv(s),
         capacity'[s] = capacity[s],
         NEW f \in Frames, ~ BeforeStart(f), \A x \in Behind(s) : Pts(x) < Pts(f),
         Appended(s, f)
  PROVE  /\ RowsInv(s)'
         /\ Delivered(s, f)'
         /\ \A g : Delivered(s, g) => Delivered(s, g)'
<1> DEFINE n == Len(rows[s])
           m == Step(s)
           size == Size(s)
<1>1. /\ n \in Nat /\ n <= capacity[s] /\ m \in Nat /\ m = MinOf(size, capacity[s] - n)
      /\ Len(rows'[s]) = n + m
      /\ DOMAIN rows[s] = 1 .. n /\ DOMAIN rows'[s] = 1 .. n + m
      /\ \A k \in 1 .. n : rows'[s][k] = rows[s][k]
      /\ \A k \in n + 1 .. n + m : rows'[s][k] = f
  BY RowsAppended
<1>2. size \in Nat \ {0} /\ Size(s)' = size
  BY RequestFacts DEF Size
<1>3. /\ \A k \in 1 .. n : ~ BeforeStart(rows[s][k]) /\ Pts(rows[s][k]) < Pts(f)
      /\ \A k, l \in 1 .. n :
           Pts(rows[s][k]) < Pts(rows[s][l]) <=> (k - 1) \div size < (l - 1) \div size
      /\ n % size = 0 \/ n >= capacity[s]
  BY <1>1 DEF RowsInv, Behind, InBlocks, Full
<1>4. \A k \in 1 .. n : Pts(rows[s][k]) \in Int
  <2>1. \A k \in 1 .. n : rows[s][k] \in Frames
    BY <1>1, StreamTyped DEF Behind
  <2>q. QED
    BY <2>1, FileFacts
<1>5. Pts(f) \in Int
  BY FileFacts
<1>6. Full(s) <=> n >= capacity[s]
  BY DEF Full
<1>7. Full(s)' <=> n + m >= capacity[s]
  BY <1>1 DEF Full
<1> HIDE DEF n, m, size
<1>8. \A k \in 1 .. n + m : k \in 1 .. n \/ k \in n + 1 .. n + m
  BY <1>1
<1>9. \A k \in 1 .. n : k \in 1 .. n + m
  BY <1>1
<1>10. Full(s) => m = 0
  BY <1>1, <1>2, <1>6 DEF MinOf
<1>11. Full(s) => Full(s)'
  BY <1>1, <1>6, <1>7
<1>12. \A g : Delivered(s, g) => Delivered(s, g)'
  <2>1. SUFFICES ASSUME NEW g, Delivered(s, g) PROVE Delivered(s, g)'
    OBVIOUS
  <2>2. CASE \E k \in 1 .. n : rows[s][k] = g
    <3>1. \E k \in DOMAIN rows'[s] : rows'[s][k] = g
      BY <1>1, <1>9, <2>2
    <3>q. QED
      BY <3>1 DEF Delivered
  <2>3. CASE Full(s) /\ \A k \in 1 .. n : Pts(rows[s][k]) < Pts(g)
    <3>1. Full(s)' /\ n + m = n
      BY <1>1, <1>10, <1>11, <2>3
    <3>2. \A k \in DOMAIN rows'[s] : Pts(rows'[s][k]) < Pts(g)
      BY <1>1, <2>3, <3>1
    <3>q. QED
      BY <3>1, <3>2, SameFrames DEF Delivered
  <2>q. QED
    BY <1>1, <2>1, <2>2, <2>3 DEF Delivered
<1>13. Delivered(s, f)'
  <2>1. CASE m = 0
    <3>1. Full(s)' /\ n + m = n
      BY <1>1, <1>2, <1>7, <2>1 DEF MinOf
    <3>2. \A k \in DOMAIN rows'[s] : Pts(rows'[s][k]) < Pts(f)
      BY <1>1, <1>3, <3>1
    <3>q. QED
      BY <3>1, <3>2, SameFrames DEF Delivered
  <2>2. CASE m > 0
    <3>1. n + 1 \in 1 .. n + m /\ n + 1 \in n + 1 .. n + m
      BY <1>1, <2>2
    <3>2. \E k \in DOMAIN rows'[s] : rows'[s][k] = f
      BY <1>1, <3>1
    <3>q. QED
      BY <3>2 DEF Delivered
  <2>q. QED
    BY <1>1, <2>1, <2>2
<1>14. n + m <= capacity[s]
  BY <1>1, <1>2 DEF MinOf
<1>15. \A k \in 1 .. n + m : ~ BeforeStart(rows'[s][k])
  BY <1>1, <1>3, <1>8
<1>16. (n + m) % size = 0 \/ n + m >= capacity[s]
  <2>1. CASE n >= capacity[s]
    BY <1>1, <2>1
  <2>2. CASE n % size = 0 /\ m = size
    BY <1>1, <1>2, <2>2, BlockFacts
  <2>3. CASE m = capacity[s] - n
    BY <1>1, <2>3
  <2>q. QED
    BY <1>1, <1>2, <1>3, <2>1, <2>2, <2>3 DEF MinOf
<1>17. ASSUME NEW k \in 1 .. n + m, NEW l \in 1 .. n + m
       PROVE  Pts(rows'[s][k]) < Pts(rows'[s][l]) <=> (k - 1) \div size < (l - 1) \div size
  <2>1. CASE k \in 1 .. n /\ l \in 1 .. n
    BY <1>1, <1>3, <2>1
  <2>2. CASE k \in n + 1 .. n + m \/ l \in n + 1 .. n + m
    <3>0. m > 0
      BY <1>1, <2>2
    <3>1. m > 0 /\ m <= size /\ n % size = 0
      <4>1. m <= size /\ m <= capacity[s] - n
        BY <1>1, <1>2 DEF MinOf
      <4>2. ~ (n >= capacity[s])
        BY <1>1, <3>0, <4>1
      <4>q. QED
        BY <1>3, <3>0, <4>1, <4>2
    <3>2. ASSUME NEW i \in 1 .. n PROVE (i - 1) \div size < n \div size
      <4>1. i - 1 \in Nat /\ i - 1 < n
        BY <1>1
      <4>q. QED
        BY <1>1, <1>2, <3>1, <4>1, BlockFacts
    <3>3. ASSUME NEW i \in n + 1 .. n + m PROVE (i - 1) \div size = n \div size
      <4>1. i - 1 \in Nat /\ n <= i - 1 /\ i - 1 < n + size
        BY <1>1, <1>2, <3>1
      <4>q. QED
        BY <1>1, <1>2, <3>1, <4>1, BlockFacts
    <3>4. n \div size \in Int
      BY <1>1, <1>2
    <3>5. CASE k \in 1 .. n /\ l \in n + 1 .. n + m
      <4>1. Pts(rows'[s][k]) < Pts(rows'[s][l])
        BY <1>1, <1>3, <3>5
      <4>2. (k - 1) \div size < (l - 1) \div size
        BY <3>2, <3>3, <3>5
      <4>q. QED
        BY <4>1, <4>2
    <3>6. CASE k \in n + 1 .. n + m /\ l \in 1 .. n
      <4>1. ~ (Pts(rows'[s][k]) < Pts(rows'[s][l]))
        <5>1. rows'[s][k] = f /\ rows'[s][l] = rows[s][l]
          BY <1>1, <3>6
        <5>2. Pts(rows[s][l]) < Pts(f) /\ Pts(rows[s][l]) \in Int
          BY <1>3, <1>4, <3>6
        <5>q. QED
          BY <1>5, <5>1, <5>2
      <4>2. (l - 1) \div size < n \div size /\ (k - 1) \div size = n \div size
        BY <3>2, <3>3, <3>6
      <4>3. (l - 1) \div size \in Int
        BY <1>1, <1>2, <3>6
      <4>4. ~ ((k - 1) \div size < (l - 1) \div size)
        BY <3>4, <4>2, <4>3
      <4>q. QED
        BY <4>1, <4>4
    <3>7. CASE k \in n + 1 .. n + m /\ l \in n + 1 .. n + m
      <4>1. ~ (Pts(rows'[s][k]) < Pts(rows'[s][l]))
        BY <1>1, <1>5, <3>7
      <4>2. (k - 1) \div size = n \div size /\ (l - 1) \div size = n \div size
        BY <3>3, <3>7
      <4>q. QED
        BY <3>4, <4>1, <4>2
    <3>q. QED
      BY <1>8, <2>2, <3>5, <3>6, <3>7
  <2>q. QED
    BY <1>8, <2>1, <2>2
<1>18. InBlocks(s)'
  <2>1. SUFFICES ASSUME NEW k \in DOMAIN rows'[s], NEW l \in DOMAIN rows'[s]
                 PROVE  Pts(rows[s][k])' < Pts(rows[s][l])'
                          <=> (k - 1) \div Size(s)' < (l - 1) \div Size(s)'
    BY DEF InBlocks
  <2>2. k \in 1 .. n + m /\ l \in 1 .. n + m
    BY <1>1, <2>1
  <2>3. Pts(rows[s][k])' = Pts(rows'[s][k]) /\ Pts(rows[s][l])' = Pts(rows'[s][l])
    BY SameFrames
  <2>4. Pts(rows'[s][k]) < Pts(rows'[s][l]) <=> (k - 1) \div size < (l - 1) \div size
    BY <1>17, <2>2
  <2>q. QED
    BY <1>2, <2>3, <2>4
<1>19. RowsInv(s)'
  BY <1>1, <1>2, <1>7, <1>14, <1>15, <1>16, <1>18, SameFrames DEF RowsInv
<1>q. QED
  BY <1>12, <1>13, <1>19

(* So does its view, behind those collected.                               *)
NewView(s, f) == [frame |-> f, at |-> Len(rows[s]), length |-> Step(s)]

LEMMA ViewAppended ==
  ASSUME TypeInv, NEW s \in Streams, capacity[s] \in Nat, RowsInv(s), NEW f \in Frames,
         Appended(s, f), Fresh(s)' = Append(Fresh(s), NewView(s, f))
  PROVE  /\ NewView(s, f) \in View
         /\ Len(Fresh(s)) \in Nat
         /\ DOMAIN Fresh(s) = 1 .. Len(Fresh(s))
         /\ DOMAIN Fresh(s)' = 1 .. Len(Fresh(s)) + 1
         /\ Len(Fresh(s)') = Len(Fresh(s)) + 1
         /\ \A i \in 1 .. Len(Fresh(s)) : Fresh(s)'[i] = Fresh(s)[i] /\ Fresh(s)[i] \in View
         /\ Fresh(s)'[Len(Fresh(s)) + 1] = NewView(s, f)
         /\ Behind(s)' \subseteq Behind(s) \union {f}
<1> DEFINE new == NewView(s, f)
           l == Len(Fresh(s))
           n == Len(rows[s])
           m == Step(s)
<1>1. /\ n \in Nat /\ m \in Nat /\ DOMAIN rows[s] = 1 .. n /\ DOMAIN rows'[s] = 1 .. n + m
      /\ \A k \in 1 .. n : rows'[s][k] = rows[s][k]
      /\ \A k \in n + 1 .. n + m : rows'[s][k] = f
  BY RowsAppended
<1>2. new \in View
  BY <1>1 DEF NewView, View
<1>3. /\ Fresh(s) \in Seq(View) /\ l \in Nat /\ DOMAIN Fresh(s) = 1 .. l
      /\ \A i \in 1 .. l : Fresh(s)[i] \in View
  BY StreamTyped, LenProperties, ElementOfSeq
<1> HIDE DEF new
<1>4. /\ Append(Fresh(s), new) \in Seq(View) /\ Len(Append(Fresh(s), new)) = l + 1
      /\ \A i \in 1 .. l : Append(Fresh(s), new)[i] = Fresh(s)[i]
      /\ Append(Fresh(s), new)[l + 1] = new
  BY <1>2, <1>3, AppendProperties
<1>5. DOMAIN Append(Fresh(s), new) = 1 .. l + 1
  BY <1>4, LenProperties
<1>6. /\ DOMAIN Fresh(s)' = 1 .. l + 1 /\ Len(Fresh(s)') = l + 1
      /\ \A i \in 1 .. l : Fresh(s)'[i] = Fresh(s)[i]
      /\ Fresh(s)'[l + 1] = new
  BY <1>4, <1>5 DEF new
<1>7. new.frame = f
  BY DEF new, NewView
<1> HIDE DEF l, n, m
<1>8. ASSUME NEW x \in Behind(s)' PROVE x \in Behind(s) \union {f}
  <2>1. CASE \E k \in DOMAIN rows'[s] : x = rows'[s][k]
    <3>1. PICK k \in 1 .. n + m : x = rows'[s][k]
      BY <1>1, <2>1
    <3>2. k \in 1 .. n \/ k \in n + 1 .. n + m
      BY <1>1
    <3>q. QED
      BY <1>1, <3>1, <3>2 DEF Behind
  <2>2. CASE \E i \in DOMAIN Fresh(s)' : x = Fresh(s)'[i].frame
    <3>1. PICK i \in 1 .. l + 1 : x = Fresh(s)'[i].frame
      BY <1>6, <2>2
    <3>2. i \in 1 .. l \/ i = l + 1
      BY <1>3
    <3>3. CASE i \in 1 .. l
      BY <1>3, <1>6, <3>1, <3>3 DEF Behind
    <3>4. CASE i = l + 1
      BY <1>6, <1>7, <3>1, <3>4
    <3>q. QED
      BY <3>2, <3>3, <3>4
  <2>q. QED
    BY <2>1, <2>2 DEF Behind
<1>q. QED
  BY <1>2, <1>3, <1>6, <1>8 DEF l, new

(* What a frame written leaves: the order, the window's frames, the rows.  *)
LEMMA WriteStep ==
  ASSUME TypeInv, UNCHANGED given, NEW s \in Streams, capacity[s] \in Nat,
         capacity'[s] = capacity[s],
         OrderInv(s), CompleteInv(s), RowsInv(s),
         NEW f \in Frames, Of(f) = s, ~ BeforeStart(f), \A x \in Behind(s) : Pts(x) < Pts(f),
         Appended(s, f), Fresh(s)' = Append(Fresh(s), NewView(s, f)),
         Coming(s)' \subseteq Coming(s), InGraph(s)' \subseteq InGraph(s),
         Coming(s) \union InGraph(s) \subseteq Coming(s)' \union InGraph(s)' \union {f},
         \A y \in Coming(s)' \union InGraph(s)' : Pts(f) < Pts(y),
         \A i, j \in DOMAIN graph'[s] : i < j => Pts(graph'[s][i]) < Pts(graph'[s][j]),
         s \in direct => graph'[s] = <<>>
  PROVE  OrderInv(s)' /\ CompleteInv(s)' /\ RowsInv(s)'
<1>1. Behind(s)' \subseteq Behind(s) \union {f}
  BY ViewAppended
<1>2. RowsInv(s)' /\ Delivered(s, f)' /\ \A g : Delivered(s, g) => Delivered(s, g)'
  BY RowsWritten
<1>3. CompleteInv(s)'
  BY <1>2, CompleteKept
<1>4. OrderInv(s)'
  <2>1. \A x \in Behind(s)' \union InGraph(s)' : Of(x) = s
    BY <1>1 DEF OrderInv
  <2>2. \A x \in Behind(s)' \union InGraph(s)', y \in Coming(s)' : Pts(x) < Pts(y)
    BY <1>1 DEF OrderInv
  <2>3. \A x \in Behind(s)', y \in InGraph(s)' : Pts(x) < Pts(y)
    BY <1>1 DEF OrderInv
  <2>4. direct' = direct
    BY SameGiven
  <2>q. QED
    BY <2>1, <2>2, <2>3, <2>4, SameFrames DEF OrderInv
<1>q. QED
  BY <1>2, <1>3, <1>4

-------------------------------------------------------------------------------
(* Sound: the views.                                                       *)

(* The views returned stay right when the rows grow behind them.           *)
LEMMA ViewKept ==
  ASSUME NEW s, NEW view \in View, ViewOk(s, view),
         Len(rows[s]) \in Nat, Len(rows'[s]) \in Nat, Len(rows[s]) <= Len(rows'[s]),
         \A k \in 1 .. Len(rows[s]) : rows'[s][k] = rows[s][k]
  PROVE  /\ view.at \in Nat /\ view.length \in Nat /\ view.frame \in Frames
         /\ view.at + view.length <= Len(rows[s])
         /\ view.at + view.length <= Len(rows'[s])
         /\ \A k \in view.at + 1 .. view.at + view.length :
              /\ k \in 1 .. Len(rows[s])
              /\ rows[s][k] = view.frame /\ rows'[s][k] = view.frame
<1>1. view.at \in Nat /\ view.length \in Nat /\ view.frame \in Frames
  BY DEF View
<1>2. view.at + view.length <= Len(rows[s])
  BY DEF ViewOk
<1>3. \A k \in view.at + 1 .. view.at + view.length : k \in 1 .. Len(rows[s])
  BY <1>1, <1>2
<1>4. \A k \in view.at + 1 .. view.at + view.length : rows[s][k] = view.frame
  BY DEF ViewOk
<1>q. QED
  BY <1>1, <1>2, <1>3, <1>4

LEMMA DecodedKept ==
  ASSUME TypeInv, NEW s \in Streams, DecodedInv(s), decoded'[s] = decoded[s],
         Len(rows'[s]) \in Nat, Len(rows[s]) <= Len(rows'[s]),
         \A k \in 1 .. Len(rows[s]) : rows'[s][k] = rows[s][k]
  PROVE  /\ DecodedInv(s)'
         /\ EndOf(decoded[s]) \in Nat /\ EndOf(decoded[s]) <= Len(rows[s])
         /\ EndOf(decoded'[s]) = EndOf(decoded[s])
<1> DEFINE d == decoded[s]
           l == Len(d)
           n == Len(rows[s])
<1>1. /\ l \in Nat /\ DOMAIN d = 1 .. l /\ n \in Nat /\ (d = <<>> <=> l = 0)
      /\ \A i \in 1 .. l : d[i] \in View
  BY StreamTyped, LenProperties, ElementOfSeq, EmptySeq
<1>2. \A i \in 1 .. l :
        /\ ViewOk(s, d[i])
        /\ d[i].at = IF i = 1 THEN 0 ELSE d[i - 1].at + d[i - 1].length
  BY <1>1 DEF DecodedInv
<1>3. \A i \in 1 .. l :
        /\ d[i].at \in Nat /\ d[i].length \in Nat
        /\ d[i].at + d[i].length <= n /\ d[i].at + d[i].length <= Len(rows'[s])
        /\ \A k \in d[i].at + 1 .. d[i].at + d[i].length : rows'[s][k] = d[i].frame
  BY <1>1, <1>2, ViewKept
<1>4. EndOf(d) \in Nat /\ EndOf(d) <= n
  <2>1. CASE l = 0
    BY <1>1, <2>1 DEF EndOf
  <2>2. CASE l \in 1 .. l
    <3>1. EndOf(d) = d[l].at + d[l].length
      BY <1>1, <2>2 DEF EndOf
    <3>q. QED
      BY <1>3, <2>2, <3>1
  <2>q. QED
    BY <1>1, <2>1, <2>2
<1>5. \A i \in 1 .. l : ViewOk(s, d[i])'
  BY <1>3 DEF ViewOk
<1>6. \A k \in 1 .. EndOf(d) : rows'[s][k] = rows[s][k]
  BY <1>1, <1>4
<1>7. \A k \in 1 .. EndOf(d) : \E i \in 1 .. l : d[i].frame = rows'[s][k]
  BY <1>1, <1>6 DEF DecodedInv
<1>8. EndOf(decoded'[s]) = EndOf(d)
  BY DEF EndOf
<1>9. \A i \in 1 .. l : ViewOk(s, decoded[s][i])'
  BY <1>5 DEF ViewOk
<1> HIDE DEF d, l, n
<1>10. DecodedInv(s)'
  <2>1. d = decoded'[s] /\ d = decoded[s]
    BY DEF d
  <2>2. \A i \in DOMAIN d : d[i].at = IF i = 1 THEN 0 ELSE d[i - 1].at + d[i - 1].length
    BY <1>1, <1>2
  <2>3. \A i \in DOMAIN d : ViewOk(s, decoded[s][i])'
    BY <1>1, <1>9
  <2>4. \A k \in 1 .. EndOf(d) : \E i \in DOMAIN d : d[i].frame = rows'[s][k]
    BY <1>1, <1>7
  <2>q. QED
    BY <2>1, <2>2, <2>3, <2>4 DEF DecodedInv
<1>q. QED
  BY <1>4, <1>8, <1>10 DEF d, n

(* What FreshInv says, the places being numbers.                           *)
LEMMA FreshFacts ==
  ASSUME TypeInv, NEW s \in Streams, FreshInv(s)
  PROVE  LET w == Fresh(s)
             l == Len(w)
             n == Len(rows[s])
         IN /\ l \in Nat /\ n \in Nat /\ DOMAIN w = 1 .. l /\ (w = <<>> <=> l = 0)
            /\ \A i \in 1 .. l :
                 /\ w[i] \in View /\ w[i].at \in Nat /\ w[i].length \in Nat
                 /\ w[i].at + w[i].length <= n
                 /\ \A k \in w[i].at + 1 .. w[i].at + w[i].length : rows[s][k] = w[i].frame
                 /\ ~ BeforeStart(w[i].frame)
                 /\ \A k \in 1 .. w[i].at : Pts(rows[s][k]) < Pts(w[i].frame)
            /\ \A i \in 1 .. l \ {1} : w[i].at = w[i - 1].at + w[i - 1].length
            /\ \A i, j \in 1 .. l : i < j =>
                 w[i].at + w[i].length <= w[j].at /\ Pts(w[i].frame) < Pts(w[j].frame)
            /\ l > 0 => EndOf(w) = n /\ w[l].at + w[l].length = n
            /\ FreshFrom(s) = IF l = 0 THEN n ELSE w[1].at
            /\ FreshFrom(s) \in Nat /\ FreshFrom(s) <= n
            /\ \A k \in FreshFrom(s) + 1 .. n : \E i \in 1 .. l :
                 w[i].at < k /\ k <= w[i].at + w[i].length
<1> DEFINE w == Fresh(s)
           l == Len(w)
           n == Len(rows[s])
<1>1. /\ l \in Nat /\ n \in Nat /\ DOMAIN w = 1 .. l /\ (w = <<>> <=> l = 0)
      /\ \A i \in 1 .. l : w[i] \in View
  BY StreamTyped, LenProperties, ElementOfSeq, EmptySeq
<1>2. \A i \in 1 .. l : w[i].at \in Nat /\ w[i].length \in Nat
  BY <1>1 DEF View
<1>3. \A i \in 1 .. l :
        /\ w[i].at + w[i].length <= n
        /\ \A k \in w[i].at + 1 .. w[i].at + w[i].length : rows[s][k] = w[i].frame
        /\ ~ BeforeStart(w[i].frame)
        /\ \A k \in 1 .. w[i].at : Pts(rows[s][k]) < Pts(w[i].frame)
  BY <1>1 DEF FreshInv, ViewOk
<1>4. /\ \A i \in 1 .. l \ {1} : w[i].at = w[i - 1].at + w[i - 1].length
      /\ \A i, j \in 1 .. l : i < j =>
           w[i].at + w[i].length <= w[j].at /\ Pts(w[i].frame) < Pts(w[j].frame)
      /\ l > 0 => EndOf(w) = n
      /\ \A k \in FreshFrom(s) + 1 .. n : \E i \in 1 .. l :
           w[i].at < k /\ k <= w[i].at + w[i].length
  BY <1>1 DEF FreshInv
<1>5. FreshFrom(s) = IF l = 0 THEN n ELSE w[1].at
  BY <1>1 DEF FreshFrom
<1>6. l > 0 => w[l].at + w[l].length = n
  BY <1>1, <1>4 DEF EndOf
<1> HIDE DEF w, l, n
<1>7. FreshFrom(s) \in Nat /\ FreshFrom(s) <= n
  <2>1. CASE l = 0
    BY <1>1, <1>5, <2>1
  <2>2. CASE l > 0
    <3>1. 1 \in 1 .. l
      BY <1>1, <2>2
    <3>q. QED
      BY <1>1, <1>2, <1>3, <1>5, <2>2, <3>1
  <2>q. QED
    BY <1>1, <2>1, <2>2
<1>q. QED
  BY <1>1, <1>2, <1>3, <1>4, <1>5, <1>6, <1>7 DEF w, l, n

LEMMA FreshWritten ==
  ASSUME TypeInv, UNCHANGED given, NEW s \in Streams, capacity[s] \in Nat,
         RowsInv(s), FreshInv(s), NEW f \in Frames, ~ BeforeStart(f),
         \A x \in Behind(s) : Pts(x) < Pts(f),
         Appended(s, f), Fresh(s)' = Append(Fresh(s), NewView(s, f))
  PROVE  FreshInv(s)' /\ FreshFrom(s)' = FreshFrom(s)
<1> DEFINE w == Fresh(s)
           l == Len(w)
           n == Len(rows[s])
           m == Step(s)
           b == FreshFrom(s)
<1>1. /\ l \in Nat /\ n \in Nat /\ DOMAIN w = 1 .. l /\ (w = <<>> <=> l = 0)
      /\ \A i \in 1 .. l :
           /\ w[i].at \in Nat /\ w[i].length \in Nat
           /\ w[i].at + w[i].length <= n
           /\ \A k \in w[i].at + 1 .. w[i].at + w[i].length : rows[s][k] = w[i].frame
           /\ ~ BeforeStart(w[i].frame)
           /\ \A k \in 1 .. w[i].at : Pts(rows[s][k]) < Pts(w[i].frame)
      /\ \A i \in 1 .. l \ {1} : w[i].at = w[i - 1].at + w[i - 1].length
      /\ \A i, j \in 1 .. l : i < j =>
           w[i].at + w[i].length <= w[j].at /\ Pts(w[i].frame) < Pts(w[j].frame)
      /\ l > 0 => EndOf(w) = n /\ w[l].at + w[l].length = n
      /\ b = IF l = 0 THEN n ELSE w[1].at
      /\ b \in Nat /\ b <= n
      /\ \A k \in b + 1 .. n : \E i \in 1 .. l : w[i].at < k /\ k <= w[i].at + w[i].length
  BY FreshFacts, Zenon
<1>2. /\ m \in Nat /\ Len(rows'[s]) = n + m
      /\ DOMAIN rows[s] = 1 .. n /\ DOMAIN rows'[s] = 1 .. n + m
      /\ \A k \in 1 .. n : rows'[s][k] = rows[s][k]
      /\ \A k \in n + 1 .. n + m : rows'[s][k] = f
  BY RowsAppended
<1> DEFINE v == Fresh(s)'
           new == NewView(s, f)
<1>3. /\ DOMAIN v = 1 .. l + 1 /\ Len(v) = l + 1
      /\ \A i \in 1 .. l : v[i] = w[i]
      /\ v[l + 1] = new
  BY ViewAppended
<1>4. new.frame = f /\ new.at = n /\ new.length = m
  BY DEF NewView
<1>5. \A k \in 1 .. n : Pts(rows[s][k]) < Pts(f)
  BY <1>2 DEF Behind
<1>6. \A i \in 1 .. l : Pts(w[i].frame) < Pts(f)
  BY <1>1 DEF Behind
<1>7. FreshFrom(s)' = IF l + 1 = 0 THEN n + m ELSE v[1].at
  <2>1. v # <<>>
    BY <1>1, <1>3
  <2>q. QED
    BY <1>1, <2>1 DEF FreshFrom
<1>8. EndOf(Fresh(s))' = v[l + 1].at + v[l + 1].length
  <2>1. v # <<>>
    BY <1>1, <1>3
  <2>q. QED
    BY <1>3, <2>1 DEF EndOf
<1> HIDE DEF w, l, n, m, b, v, new
<1>9. \A i \in 1 .. l + 1 : i \in 1 .. l \/ i = l + 1
  BY <1>1
<1>10. \A i \in 1 .. l : i \in 1 .. l + 1 /\ i < l + 1
  BY <1>1
<1>11. l + 1 \in 1 .. l + 1
  BY <1>1
<1>12. FreshFrom(s)' = b
  <2>1. CASE l = 0
    BY <1>1, <1>3, <1>4, <1>7, <2>1
  <2>2. CASE l > 0
    <3>1. 1 \in 1 .. l
      BY <1>1, <2>2
    <3>q. QED
      BY <1>1, <1>3, <1>7, <2>2, <3>1
  <2>q. QED
    BY <1>1, <2>1, <2>2
<1>13. ASSUME NEW i \in 1 .. l + 1
       PROVE  /\ v[i].at + v[i].length <= n + m
              /\ \A k \in v[i].at + 1 .. v[i].at + v[i].length : rows'[s][k] = v[i].frame
              /\ ~ BeforeStart(v[i].frame)
              /\ \A k \in 1 .. v[i].at : Pts(rows'[s][k]) < Pts(v[i].frame)
  <2>1. CASE i \in 1 .. l
    <3>1. v[i] = w[i] /\ w[i].at \in Nat /\ w[i].length \in Nat /\ w[i].at + w[i].length <= n
      BY <1>1, <1>3, <2>1
    <3>2. \A k \in v[i].at + 1 .. v[i].at + v[i].length : k \in 1 .. n
      BY <1>1, <3>1
    <3>3. \A k \in 1 .. v[i].at : k \in 1 .. n
      BY <1>1, <3>1
    <3>4. v[i].at + v[i].length <= n + m
      <4>1. n \in Nat /\ m \in Nat
        BY <1>1, <1>2
      <4>q. QED
        BY ONLY <3>1, <4>1
    <3>5. \A k \in v[i].at + 1 .. v[i].at + v[i].length : rows'[s][k] = v[i].frame
      BY <1>1, <1>2, <2>1, <3>1, <3>2
    <3>6. \A k \in 1 .. v[i].at : Pts(rows'[s][k]) < Pts(v[i].frame)
      BY <1>1, <1>2, <2>1, <3>1, <3>3
    <3>q. QED
      BY <1>1, <2>1, <3>1, <3>4, <3>5, <3>6
  <2>2. CASE i = l + 1
    BY <1>1, <1>2, <1>3, <1>4, <1>5, <2>2
  <2>q. QED
    BY <1>9, <2>1, <2>2
<1>14. ASSUME NEW i \in 1 .. l + 1, NEW j \in 1 .. l + 1, i < j
       PROVE  v[i].at + v[i].length <= v[j].at /\ Pts(v[i].frame) < Pts(v[j].frame)
  <2>1. i \in 1 .. l
    BY <1>1, <1>14
  <2>2. CASE j \in 1 .. l
    BY <1>1, <1>3, <1>14, <2>1, <2>2
  <2>3. CASE j = l + 1
    BY <1>1, <1>3, <1>4, <1>6, <2>1, <2>3
  <2>q. QED
    BY <1>9, <2>2, <2>3
<1>15. ASSUME NEW i \in 1 .. l + 1, i # 1
       PROVE  v[i].at = v[i - 1].at + v[i - 1].length
  <2>1. i - 1 \in 1 .. l
    BY <1>1, <1>15
  <2>2. CASE i \in 1 .. l
    BY <1>1, <1>3, <1>15, <2>1, <2>2
  <2>3. CASE i = l + 1
    <3>1. i - 1 = l /\ l > 0 /\ l \in 1 .. l
      BY <1>1, <2>1, <2>3
    <3>q. QED
      BY <1>1, <1>3, <1>4, <2>3, <3>1
  <2>q. QED
    BY <1>9, <2>2, <2>3
<1>16. EndOf(Fresh(s))' = n + m
  BY <1>3, <1>4, <1>8
<1>17. ASSUME NEW k \in b + 1 .. n + m
       PROVE  \E i \in 1 .. l + 1 : v[i].at < k /\ k <= v[i].at + v[i].length
  <2>1. CASE k \in b + 1 .. n
    <3>1. PICK i \in 1 .. l : w[i].at < k /\ k <= w[i].at + w[i].length
      BY <1>1, <2>1
    <3>2. v[i] = w[i] /\ i \in 1 .. l + 1
      BY <1>3, <1>10
    <3>q. QED
      BY <3>1, <3>2
  <2>2. CASE n < k
    BY <1>1, <1>2, <1>3, <1>4, <1>11, <2>2
  <2>q. QED
    BY <1>1, <1>2, <2>1, <2>2
<1>18. FreshInv(s)'
  <2>1. /\ Fresh(s)' = v /\ rows'[s] = (rows[s])' /\ DOMAIN v = 1 .. l + 1
        /\ Len(rows'[s]) = n + m
    BY <1>2, <1>3 DEF v
  <2>2. \A i \in 1 .. l + 1 : /\ ViewOk(s, Fresh(s)[i])' /\ ~ BeforeStart(v[i].frame)
                             /\ \A k \in 1 .. v[i].at : Pts(rows'[s][k]) < Pts(v[i].frame)
    BY <1>13, <2>1 DEF ViewOk
  <2>q. QED
    BY <1>12, <1>14, <1>15, <1>16, <1>17, <2>1, <2>2, SameFrames DEF FreshInv
<1>q. QED
  BY <1>12, <1>18 DEF b

LEMMA GapKept ==
  ASSUME TypeInv, UNCHANGED given, NEW s \in Streams, FreshInv(s), GapInv(s),
         decoded'[s] = decoded[s], FreshFrom(s)' = FreshFrom(s),
         \A k \in 1 .. Len(rows[s]) : rows'[s][k] = rows[s][k],
         EndOf(decoded[s]) \in Nat
  PROVE  GapInv(s)'
<1>1. FreshFrom(s) \in Nat /\ FreshFrom(s) <= Len(rows[s]) /\ Len(rows[s]) \in Nat
  BY FreshFacts, Zenon
<1>2. EndOf(decoded[s])' = EndOf(decoded[s])
  BY DEF EndOf
<1>3. \A k \in EndOf(decoded[s]) + 1 .. FreshFrom(s) : rows'[s][k] = rows[s][k]
  BY <1>1
<1>q. QED
  BY <1>2, <1>3, SameFrames DEF GapInv

(* The views collected are in order: those of the window are the first.    *)
LEMMA FilteredPrefix ==
  ASSUME TypeInv, NEW s \in Streams, FreshInv(s)
  PROVE  \E m \in 0 .. Len(Fresh(s)) :
           /\ FilteredSeek(Fresh(s)) \in Seq(View)
           /\ Len(FilteredSeek(Fresh(s))) = m
           /\ \A i \in 1 .. m :
                FilteredSeek(Fresh(s))[i] = Fresh(s)[i] /\ InWindow(Fresh(s)[i].frame)
           /\ \A i \in m + 1 .. Len(Fresh(s)) : ~ InWindow(Fresh(s)[i].frame)
<1> DEFINE w == Fresh(s)
           l == Len(w)
           I == {i \in DOMAIN w : InWindow(w[i].frame)}
           Out == {i \in 1 .. l : ~ InWindow(w[i].frame)}
<1>1. /\ l \in Nat /\ DOMAIN w = 1 .. l
      /\ \A i \in 1 .. l : w[i] \in View /\ ~ BeforeStart(w[i].frame)
      /\ \A i, j \in 1 .. l : i < j => Pts(w[i].frame) < Pts(w[j].frame)
  BY FreshFacts, Zenon
<1>2. FilteredSeek(w) = Picked(w, I)
  BY DEF FilteredSeek
<1>3. \A i \in 1 .. l : Pts(w[i].frame) \in Int
  BY <1>1, FileFacts DEF View
<1>4. window.end \in Int \union {NoTime}
  BY RequestFacts
<1> HIDE DEF w, l
<1>5. ASSUME NEW i \in 1 .. l, NEW j \in 1 .. l, i < j, InWindow(w[j].frame)
      PROVE  InWindow(w[i].frame)
  BY <1>1, <1>3, <1>4, <1>5 DEF InWindow
<1>6. \E m \in 0 .. l : I = 1 .. m
  <2>1. CASE Out = {}
    <3>1. I = 1 .. l
      BY <1>1, <2>1
    <3>q. QED
      BY <1>1, <3>1
  <2>2. CASE Out # {}
    <3>1. Out \in SUBSET Nat
      BY <1>1
    <3>2. PICK o \in Out : \A j \in Out : o <= j
      BY <2>2, <3>1, LeastExists
    <3>3. o \in 1 .. l /\ ~ InWindow(w[o].frame)
      BY <3>2
    <3>4. ASSUME NEW i \in 1 .. l PROVE i \in I <=> i \in 1 .. o - 1
      <4>1. CASE i < o
        <5>1. i \notin Out
          BY <3>2, <3>3, <4>1
        <5>q. QED
          BY <1>1, <3>3, <4>1, <5>1
      <4>2. CASE o < i
        <5>1. ~ InWindow(w[i].frame)
          BY <1>5, <3>3, <4>2
        <5>q. QED
          BY <3>3, <4>2, <5>1
      <4>3. CASE i = o
        BY <3>3, <4>3
      <4>q. QED
        BY <3>3, <4>1, <4>2, <4>3
    <3>5. \A i \in 1 .. o - 1 : i \in 1 .. l
      BY <1>1, <3>3
    <3>6. I = 1 .. o - 1
      <4>1. I \subseteq 1 .. l
        BY <1>1
      <4>q. QED
        BY <3>4, <3>5, <4>1
    <3>q. QED
      BY <1>1, <3>3, <3>6
  <2>q. QED
    BY <2>1, <2>2
<1>7. PICK m \in 0 .. l : I = 1 .. m
  BY <1>6
<1>8. m \in Nat /\ m <= l
  BY <1>1, <1>7
<1>9. /\ Len(Picked(w, 1 .. m)) = m /\ DOMAIN Picked(w, 1 .. m) = 1 .. m
      /\ \A i \in 1 .. m : Picked(w, 1 .. m)[i] = w[i]
  BY <1>8, PickedPrefix
<1>10. \A i \in 1 .. m : i \in 1 .. l /\ InWindow(w[i].frame)
  BY <1>1, <1>7, <1>8
<1>11. \A i \in m + 1 .. l : ~ InWindow(w[i].frame)
  <2>1. \A i \in m + 1 .. l : i \in DOMAIN w /\ i \notin 1 .. m
    BY <1>1, <1>8
  <2>q. QED
    BY <1>7, <2>1
<1>12. Picked(w, 1 .. m) \in Seq(View)
  <2>1. Picked(w, 1 .. m) = [i \in 1 .. Cardinality(1 .. m) |-> w[Nth(1 .. m, i)]]
    BY DEF Picked
  <2>2. Picked(w, 1 .. m) \in [1 .. m -> View]
    BY <1>1, <1>9, <1>10, <2>1
  <2>q. QED
    BY <1>8, <2>2, SeqDef
<1>13. FilteredSeek(w) = Picked(w, 1 .. m)
  BY <1>2, <1>7
<1>q. QED
  BY <1>9, <1>10, <1>11, <1>12, <1>13 DEF w, l

(* The views of the window collected are returned: they go on where the    *)
(* last ones ended, and what is left between is past the window.           *)
LEMMA ViewsReturned ==
  ASSUME TypeInv, UNCHANGED given, NEW s \in Streams,
         DecodedInv(s), FreshInv(s), GapInv(s), RowsInv(s),
         rows'[s] = rows[s], Fresh(s)' = <<>>,
         decoded'[s] = decoded[s] \o FilteredSeek(Fresh(s))
  PROVE  DecodedInv(s)' /\ FreshInv(s)' /\ GapInv(s)'
<1> DEFINE w == Fresh(s)
           l == Len(w)
           n == Len(rows[s])
           b == FreshFrom(s)
           d == decoded[s]
           c == Len(d)
           e == EndOf(d)
           v == FilteredSeek(w)
           r == decoded'[s]
<1>1. /\ l \in Nat /\ n \in Nat /\ DOMAIN w = 1 .. l
      /\ \A i \in 1 .. l :
           /\ w[i].at \in Nat /\ w[i].length \in Nat /\ w[i].frame \in Frames
           /\ w[i].at + w[i].length <= n
           /\ \A k \in w[i].at + 1 .. w[i].at + w[i].length : rows[s][k] = w[i].frame
           /\ \A k \in 1 .. w[i].at : Pts(rows[s][k]) < Pts(w[i].frame)
      /\ \A i \in 1 .. l \ {1} : w[i].at = w[i - 1].at + w[i - 1].length
      /\ \A i, j \in 1 .. l : i < j => w[i].at + w[i].length <= w[j].at
      /\ l > 0 => w[l].at + w[l].length = n
      /\ b = IF l = 0 THEN n ELSE w[1].at
      /\ b \in Nat /\ b <= n
      /\ \A k \in b + 1 .. n : \E i \in 1 .. l : w[i].at < k /\ k <= w[i].at + w[i].length
  <2>1. \A i \in 1 .. l : w[i].frame \in Frames
    <3>1. \A i \in 1 .. l : w[i] \in View
      BY FreshFacts, Zenon
    <3>q. QED
      BY <3>1 DEF View
  <2>q. QED
    BY <2>1, FreshFacts, Zenon
<1>2. PICK m \in 0 .. l :
           /\ v \in Seq(View) /\ Len(v) = m
           /\ \A i \in 1 .. m : v[i] = w[i] /\ InWindow(w[i].frame)
           /\ \A i \in m + 1 .. l : ~ InWindow(w[i].frame)
  BY FilteredPrefix
<1>3. /\ d \in Seq(View) /\ c \in Nat /\ DOMAIN d = 1 .. c /\ (d = <<>> <=> c = 0)
      /\ rows[s] \in Seq(Frames) /\ DOMAIN rows[s] = 1 .. n
  BY StreamTyped, LenProperties, EmptySeq
<1>4. /\ \A i \in 1 .. c :
           /\ ViewOk(s, d[i])
           /\ d[i].at = IF i = 1 THEN 0 ELSE d[i - 1].at + d[i - 1].length
      /\ \A k \in 1 .. e : \E i \in 1 .. c : d[i].frame = rows[s][k]
  BY <1>3 DEF DecodedInv
<1>5. /\ e = IF c = 0 THEN 0 ELSE d[c].at + d[c].length
      /\ e \in Nat /\ e <= b
      /\ \A k \in e + 1 .. b : ~ InWindow(rows[s][k])
  <2>1. e = IF c = 0 THEN 0 ELSE d[c].at + d[c].length
    BY <1>3 DEF EndOf
  <2>2. e \in Nat
    <3>1. CASE c = 0
      BY <2>1, <3>1
    <3>2. CASE c \in 1 .. c
      <4>1. d[c] \in View
        BY <1>3, <3>2, ElementOfSeq
      <4>q. QED
        BY <1>3, <2>1, <3>2, <4>1 DEF View
    <3>q. QED
      BY <1>3, <3>1, <3>2
  <2>q. QED
    BY <2>1, <2>2 DEF GapInv
<1>6. /\ r \in Seq(View) /\ Len(r) = c + m
      /\ \A i \in 1 .. c + m : r[i] = IF i <= c THEN d[i] ELSE v[i - c]
  <2>1. r = d \o v
    OBVIOUS
  <2>3. d \in Seq(View) /\ v \in Seq(View) /\ Len(d) = c /\ Len(v) = m
    BY <1>2, <1>3
  <2> HIDE DEF d, v, r, c
  <2>2. /\ d \o v \in Seq(View) /\ Len(d \o v) = Len(d) + Len(v)
        /\ \A i \in 1 .. Len(d) + Len(v) :
             (d \o v)[i] = IF i <= Len(d) THEN d[i] ELSE v[i - Len(d)]
    BY <2>3, ConcatProperties
  <2>q. QED
    BY <2>1, <2>2, <2>3
<1>7. DOMAIN r = 1 .. c + m /\ (r = <<>> <=> c + m = 0)
  BY <1>6, LenProperties, EmptySeq
<1>8. FreshFrom(s)' = n
  BY DEF FreshFrom
<1>9. EndOf(decoded[s])' = IF c + m = 0 THEN 0 ELSE r[c + m].at + r[c + m].length
  BY <1>6, <1>7 DEF EndOf
<1>10. m \in Nat /\ m <= l
  BY <1>1, <1>2
<1>0. l \in Nat /\ n \in Nat /\ c \in Nat /\ m \in Nat
  BY <1>1, <1>3, <1>10
<1>11. \A k \in 1 .. n : ~ BeforeStart(rows[s][k]) /\ rows[s][k] \in Frames
  BY <1>3, StreamTyped, ElementOfSeq DEF RowsInv
<1> HIDE DEF w, l, n, b, d, c, e, v, r
<1>12. \A i \in 1 .. c : i \in 1 .. c + m /\ r[i] = d[i]
  BY <1>3, <1>6, <1>10
<1>13. \A i \in 1 .. m : c + i \in 1 .. c + m /\ r[c + i] = w[i]
  <2>1. ASSUME NEW i \in 1 .. m PROVE c + i \in 1 .. c + m /\ r[c + i] = w[i]
    <3>1. c + i \in 1 .. c + m /\ ~ (c + i <= c) /\ c + i - c = i
      BY <1>3, <1>10
    <3>2. r[c + i] = v[c + i - c]
      BY <1>0, <1>6, <3>1
    <3>q. QED
      BY <1>2, <3>1, <3>2
  <2>q. QED
    BY <2>1
<1>14. \A j \in 1 .. c + m : j \in 1 .. c \/ \E i \in 1 .. m : j = c + i
  <2>1. ASSUME NEW j \in 1 .. c + m, j \notin 1 .. c PROVE \E i \in 1 .. m : j = c + i
    <3>1. j - c \in 1 .. m /\ j = c + (j - c)
      BY <1>3, <1>10, <2>1
    <3>q. QED
      BY <3>1
  <2>q. QED
    BY <2>1
<1>24. \A i \in 1 .. m : i \in 1 .. l /\ 1 \in 1 .. l /\ b = w[1].at
  BY <1>1, <1>10
<1>25. \A i, j \in 1 .. l : i < j => w[i].at + w[i].length <= w[j].at
  BY <1>1
(* The first view collected starts where the last one returned ends.       *)
<1>15. m > 0 => b = e
  <2>1. SUFFICES ASSUME m > 0, e < b PROVE FALSE
    BY <1>1, <1>5
  <2>0. 1 \in 1 .. m
    BY <1>10, <2>1
  <2>2. 1 \in 1 .. l /\ b = w[1].at
    BY <1>24, <2>0
  <2>8. b \in 1 .. b
    BY <1>1, <1>5, <2>1
  <2>3. InWindow(w[1].frame) /\ Pts(rows[s][b]) < Pts(w[1].frame)
    BY <1>1, <1>2, <2>0, <2>2, <2>8
  <2>4. b \in 1 .. n /\ b \in e + 1 .. b
    BY <1>1, <1>5, <2>1
  <2>5. ~ InWindow(rows[s][b]) /\ ~ BeforeStart(rows[s][b]) /\ rows[s][b] \in Frames
    BY <1>5, <1>11, <2>4
  <2>6. Pts(rows[s][b]) \in Int /\ Pts(w[1].frame) \in Int
    BY <1>1, <2>2, <2>5, FileFacts
  <2>7. window.end \in Int \union {NoTime}
    BY RequestFacts
  <2>q. QED
    BY <2>3, <2>5, <2>6, <2>7 DEF InWindow
<1>16. EndOf(decoded[s])' = IF m = 0 THEN e ELSE w[m].at + w[m].length
  <2>1. CASE m = 0
    <3>1. c + m = c /\ (c # 0 => c \in 1 .. c)
      BY <1>3, <2>1
    <3>q. QED
      BY <1>5, <1>9, <1>12, <2>1, <3>1
  <2>2. CASE m \in 1 .. m
    BY <1>3, <1>9, <1>10, <1>13, <2>2
  <2>q. QED
    BY <1>10, <2>1, <2>2
<1>17. ASSUME NEW j \in 1 .. c + m
       PROVE  /\ ViewOk(s, r[j])
              /\ r[j].at = IF j = 1 THEN 0 ELSE r[j - 1].at + r[j - 1].length
  <2>1. CASE j \in 1 .. c
    <3>1. j # 1 => j - 1 \in 1 .. c
      BY <1>3, <2>1
    <3>q. QED
      BY <1>4, <1>12, <2>1, <3>1
  <2>2. CASE \E i \in 1 .. m : j = c + i
    <3>0. PICK i \in 1 .. m : j = c + i
      BY <2>2
    <3>1. i \in 1 .. m /\ i \in 1 .. l /\ r[j] = w[i] /\ j = c + i
      BY <1>13, <1>24, <3>0
    <3>2. ViewOk(s, w[i])
      BY <1>1, <3>1 DEF ViewOk, n
    <3>3. CASE i = 1
      <4>1. w[1].at = e /\ j = c + 1
        BY <1>0, <1>15, <1>24, <3>0, <3>3
      <4>2. CASE c = 0
        <5>1. j = 1 /\ w[i].at = 0
          BY <1>5, <3>3, <4>1, <4>2
        <5>q. QED
          BY <3>1, <3>2, <5>1
      <4>3. CASE c \in 1 .. c
        <5>1. j - 1 = c /\ j # 1 /\ r[c] = d[c] /\ c # 0
          BY <1>3, <1>12, <4>1, <4>3
        <5>q. QED
          BY <1>5, <3>1, <3>2, <3>3, <4>1, <5>1
      <4>q. QED
        BY <1>3, <4>2, <4>3
    <3>4. CASE i # 1
      <4>1. i - 1 \in 1 .. m /\ j - 1 = c + (i - 1) /\ j # 1
        BY <1>3, <1>10, <3>1, <3>4
      <4>2. r[j - 1] = w[i - 1]
        BY <1>13, <4>1
      <4>3. w[i].at = w[i - 1].at + w[i - 1].length
        BY <1>1, <3>1, <3>4
      <4>q. QED
        BY <3>1, <3>2, <4>1, <4>2, <4>3
    <3>q. QED
      BY <3>3, <3>4
  <2>q. QED
    BY <1>14, <2>1, <2>2
<1>18. ASSUME NEW k \in 1 .. EndOf(decoded[s])'
       PROVE  \E j \in 1 .. c + m : r[j].frame = rows[s][k]
  <2>1. CASE k \in 1 .. e
    <3>1. PICK i \in 1 .. c : d[i].frame = rows[s][k]
      BY <1>4, <2>1
    <3>q. QED
      BY <1>12, <3>1
  <2>2. CASE m > 0 /\ k \in e + 1 .. w[m].at + w[m].length
    <3>1. m \in 1 .. l /\ w[m].at + w[m].length <= n /\ w[m].at \in Nat /\ w[m].length \in Nat
      BY <1>1, <1>10, <2>2
    <3>2. k \in b + 1 .. n
      BY <1>1, <1>5, <1>15, <2>2, <3>1
    <3>3. PICK i \in 1 .. l : w[i].at < k /\ k <= w[i].at + w[i].length
      BY <1>1, <3>2
    <3>4. i <= m
      <4>1. SUFFICES ASSUME m < i PROVE FALSE
        BY <1>10, <3>3
      <4>2. w[m].at + w[m].length <= w[i].at /\ w[i].at \in Nat
        BY <1>1, <3>1, <3>3, <4>1
      <4>q. QED
        BY <2>2, <3>1, <3>2, <3>3, <4>2
    <3>5. i \in 1 .. m
      BY <1>10, <3>3, <3>4
    <3>6. rows[s][k] = w[i].frame
      <4>1. k \in w[i].at + 1 .. w[i].at + w[i].length
        BY <1>1, <3>2, <3>3
      <4>q. QED
        BY <1>1, <3>3, <4>1
    <3>q. QED
      BY <1>13, <3>5, <3>6
  <2>q. QED
    <3>1. CASE m = 0
      BY <1>16, <2>1, <3>1
    <3>2. CASE m > 0
      <4>1. k \in 1 .. w[m].at + w[m].length
        BY <1>16, <3>2
      <4>2. k \in 1 .. e \/ k \in e + 1 .. w[m].at + w[m].length
        BY <1>5, <4>1
      <4>q. QED
        BY <2>1, <2>2, <3>2, <4>2
    <3>q. QED
      BY <1>10, <3>1, <3>2
<1>19. EndOf(decoded[s])' <= n
  <2>1. CASE m = 0
    BY <1>1, <1>5, <1>16, <2>1
  <2>2. CASE m \in 1 .. m
    BY <1>1, <1>10, <1>16, <2>2
  <2>q. QED
    BY <1>10, <2>1, <2>2
<1>20. ASSUME NEW k \in EndOf(decoded[s])' + 1 .. n
       PROVE  ~ InWindow(rows[s][k])
  <2>1. CASE k \in e + 1 .. b
    BY <1>5, <2>1
  <2>2. CASE k \in b + 1 .. n
    <3>1. PICK i \in 1 .. l : w[i].at < k /\ k <= w[i].at + w[i].length
      BY <1>1, <2>2
    <3>2. w[i].at \in Nat /\ w[i].length \in Nat
      BY <1>1, <3>1
    <3>3. m < i
      <4>1. SUFFICES ASSUME i <= m PROVE FALSE
        BY <1>10, <3>1
      <4>2. m \in 1 .. l /\ m # 0
        BY <1>10, <3>1, <4>1
      <4>3. w[m].at \in Nat /\ w[m].length \in Nat
        BY <1>1, <4>2
      <4>4. w[i].at + w[i].length <= w[m].at + w[m].length
        <5>1. CASE i = m
          BY <3>2, <5>1
        <5>2. CASE i < m
          <6>1. w[i].at + w[i].length <= w[m].at
            BY <1>0, <1>25, <3>1, <4>2, <5>2
          <6>q. QED
            BY ONLY <3>2, <4>3, <6>1
        <5>q. QED
          BY <1>10, <3>1, <4>1, <5>1, <5>2
      <4>5. w[m].at + w[m].length < k
        BY <1>16, <4>2, <4>3
      <4>6. k \in Int /\ k <= w[i].at + w[i].length
        BY <2>2, <3>1
      <4>q. QED
        BY ONLY <3>2, <4>3, <4>4, <4>5, <4>6
    <3>4. i \in m + 1 .. l
      BY <1>10, <3>1, <3>3
    <3>5. rows[s][k] = w[i].frame
      <4>1. k \in w[i].at + 1 .. w[i].at + w[i].length
        BY <1>1, <2>2, <3>1, <3>2
      <4>q. QED
        BY <1>1, <3>1, <4>1
    <3>q. QED
      BY <1>2, <3>4, <3>5
  <2>3. EndOf(decoded[s])' \in Nat /\ e <= EndOf(decoded[s])'
    <3>1. CASE m = 0
      BY <1>5, <1>16, <3>1
    <3>2. CASE m \in 1 .. m
      <4>0. 1 \in 1 .. l /\ m \in 1 .. l /\ b = w[1].at
        BY <1>24, <3>2
      <4>1. /\ 1 \in 1 .. l /\ m \in 1 .. l /\ b = w[1].at /\ w[m].at \in Nat
            /\ w[m].length \in Nat /\ w[1].length \in Nat
        BY <1>1, <4>0
      <4>2. b <= w[m].at
        <5>1. CASE m = 1
          BY <1>1, <4>1, <5>1
        <5>2. CASE 1 < m
          BY <1>1, <4>1, <5>2
        <5>q. QED
          BY <3>2, <5>1, <5>2
      <4>3. EndOf(decoded[s])' = w[m].at + w[m].length
        BY <1>16, <3>2
      <4>4. e \in Nat /\ e <= w[m].at
        <5>1. e \in Nat /\ e <= b
          BY <1>5
        <5>2. b \in Nat
          BY <1>1, <4>0
        <5>q. QED
          BY ONLY <4>1, <4>2, <5>1, <5>2
      <4>q. QED
        BY ONLY <4>1, <4>3, <4>4
    <3>q. QED
      BY <1>10, <3>1, <3>2
  <2>q. QED
    BY <1>1, <1>5, <2>1, <2>2, <2>3
<1>21. GapInv(s)'
  <2>1. ~ (\E k \in EndOf(decoded[s])' + 1 .. n : InWindow(rows[s][k]))
    BY <1>20
  <2>q. QED
    BY <1>8, <1>19, <2>1, SameFrames DEF GapInv
<1>22. DecodedInv(s)'
  <2>1. \A j \in 1 .. c + m : ViewOk(s, decoded[s][j])'
    BY <1>17 DEF ViewOk, r
  <2>2. \A j \in 1 .. c + m :
          decoded'[s][j].at = IF j = 1 THEN 0 ELSE decoded'[s][j - 1].at + decoded'[s][j - 1].length
    BY <1>17 DEF r
  <2>3. DOMAIN decoded'[s] = 1 .. c + m
    BY <1>7 DEF r
  <2>4. \A k \in 1 .. EndOf(decoded[s])' : \E j \in 1 .. c + m : decoded'[s][j].frame = rows'[s][k]
    BY <1>18 DEF r
  <2>q. QED
    BY <2>1, <2>2, <2>3, <2>4 DEF DecodedInv
<1>23. FreshInv(s)'
  <2>1. Fresh(s)' = <<>> /\ DOMAIN Fresh(s)' = {} /\ FreshFrom(s)' = Len(rows'[s])
    BY <1>8 DEF n
  <2>2. Len(rows'[s]) \in Nat
    BY <1>1 DEF n
  <2>3. FreshFrom(s)' + 1 .. Len(rows'[s]) = {}
    BY <2>1, <2>2
  <2>q. QED
    BY <2>1, <2>3 DEF FreshInv
<1>q. QED
  BY <1>21, <1>22, <1>23

-------------------------------------------------------------------------------
(* Sound: where it starts.                                                 *)

LEMMA WroteKept ==
  ASSUME UNCHANGED given, NEW s, WroteInv(s), rows'[s] = rows[s], Fresh(s)' = Fresh(s),
         start'[s].wrote = start[s].wrote, start'[s].output = start[s].output
  PROVE  WroteInv(s)'
BY SameFrames DEF WroteInv

LEMMA WroteAppended ==
  ASSUME TypeInv, UNCHANGED given, NEW s \in Streams, WroteInv(s), RowsInv(s),
         capacity[s] \in Nat \ {0}, NEW f \in Frames, Appended(s, f),
         Fresh(s)' = Append(Fresh(s), NewView(s, f)),
         start'[s].wrote = start[s].wrote, start'[s].output = start[s].output
  PROVE  WroteInv(s)'
<1>1. /\ Len(rows[s]) \in Nat /\ Step(s) \in Nat
      /\ Step(s) = MinOf(Size(s), capacity[s] - Len(rows[s]))
      /\ DOMAIN rows[s] = 1 .. Len(rows[s])
      /\ DOMAIN rows'[s] = 1 .. Len(rows[s]) + Step(s)
      /\ \A k \in 1 .. Len(rows[s]) : rows'[s][k] = rows[s][k]
      /\ \A k \in Len(rows[s]) + 1 .. Len(rows[s]) + Step(s) : rows'[s][k] = f
  BY RowsAppended
<1>2. /\ Len(Fresh(s)) \in Nat /\ DOMAIN Fresh(s) = 1 .. Len(Fresh(s))
      /\ DOMAIN Fresh(s)' = 1 .. Len(Fresh(s)) + 1
      /\ \A i \in 1 .. Len(Fresh(s)) : Fresh(s)'[i] = Fresh(s)[i]
      /\ Fresh(s)'[Len(Fresh(s)) + 1] = NewView(s, f)
  BY ViewAppended
<1>3. rows[s] = <<>> <=> Len(rows[s]) = 0
  BY StreamTyped, EmptySeq
<1>4. Fresh(s) = <<>> <=> Len(Fresh(s)) = 0
  BY StreamTyped, EmptySeq
<1>5. rows[s] # <<>> => rows'[s] # <<>> /\ rows'[s][1] = rows[s][1]
  <2>1. SUFFICES ASSUME rows[s] # <<>> PROVE rows'[s] # <<>> /\ rows'[s][1] = rows[s][1]
    OBVIOUS
  <2>2. 1 \in 1 .. Len(rows[s]) /\ 1 \in DOMAIN rows'[s]
    BY <1>1, <1>3, <2>1
  <2>3. rows'[s] # <<>>
    BY <2>2
  <2>q. QED
    BY <1>1, <2>2, <2>3
<1>6. Fresh(s)' # <<>>
  <2>1. 1 \in DOMAIN Fresh(s)'
    BY <1>2
  <2>q. QED
    BY <2>1
<1>7. CASE start[s].wrote
  BY <1>5, <1>7, SameFrames DEF WroteInv
<1>8. CASE ~ start[s].wrote /\ Fresh(s) # <<>>
  <2>1. rows[s] # <<>> /\ Fresh(s)[1].frame = rows[s][1]
    BY <1>8 DEF WroteInv
  <2>2. Fresh(s)'[1] = Fresh(s)[1]
    BY <1>2, <1>4, <1>8
  <2>3. rows'[s] # <<>> /\ Fresh(s)'[1].frame = rows'[s][1]
    BY <1>5, <2>1, <2>2
  <2>q. QED
    BY <1>6, <1>8, <2>3 DEF WroteInv
<1>9. CASE ~ start[s].wrote /\ Fresh(s) = <<>>
  <2>1. rows[s] = <<>> /\ Len(rows[s]) = 0
    BY <1>3, <1>9 DEF WroteInv
  <2>2. Step(s) > 0
    BY <1>1, <2>1, RequestFacts DEF MinOf
  <2>3. rows'[s][1] = f /\ 1 \in DOMAIN rows'[s]
    BY <1>1, <2>1, <2>2
  <2>4. rows'[s] # <<>>
    BY <2>3
  <2>5. Fresh(s)'[1] = NewView(s, f)
    BY <1>2, <1>4, <1>9
  <2>6. Fresh(s)'[1].frame = rows'[s][1]
    BY <2>3, <2>5 DEF NewView
  <2>q. QED
    BY <1>6, <1>9, <2>4, <2>6 DEF WroteInv
<1>q. QED
  BY <1>7, <1>8, <1>9

LEMMA WroteReturned ==
  ASSUME TypeInv, UNCHANGED given, NEW s \in Streams, WroteInv(s), rows'[s] = rows[s],
         Fresh(s)' = <<>>, start'[s] = Written(s, Fresh(s))
  PROVE  WroteInv(s)' /\ start'[s].decoded = start[s].decoded
<1>1. start[s] \in [decoded : Time, output : Time, wrote : BOOLEAN]
  BY StreamTyped
<1>2. CASE start[s].wrote \/ Fresh(s) = <<>>
  <2>1. start'[s] = start[s]
    BY <1>2 DEF Written
  <2>q. QED
    BY <1>2, <2>1, SameFrames DEF WroteInv
<1>3. CASE ~ start[s].wrote /\ Fresh(s) # <<>>
  <2>1. start'[s] = [start[s] EXCEPT !.wrote = TRUE, !.output = Pts(Fresh(s)[1].frame)]
    BY <1>3 DEF Written
  <2>2. /\ start'[s].wrote /\ start'[s].output = Pts(Fresh(s)[1].frame)
        /\ start'[s].decoded = start[s].decoded
    BY <1>1, <2>1
  <2>3. rows[s] # <<>> /\ Fresh(s)[1].frame = rows[s][1]
    BY <1>3 DEF WroteInv
  <2>q. QED
    BY <2>2, <2>3, SameFrames DEF WroteInv
<1>q. QED
  BY <1>2, <1>3

LEMMA BeginKept ==
  ASSUME UNCHANGED given, NEW s, BeginInv(s),
         Behind(s)' \union InGraph(s)' \union Coming(s)'
           \subseteq Behind(s) \union InGraph(s) \union Coming(s),
         start'[s].decoded = start[s].decoded,
         start[s].decoded = NoTime => rows'[s] = <<>> /\ graph'[s] = <<>>,
         graph'[s] # <<>> => capacity'[s] > 0
  PROVE  BeginInv(s)'
BY SameFrames DEF BeginInv

LEMMA BeginReceived ==
  ASSUME TypeInv, UNCHANGED given, NEW s, BeginInv(s), NEW f \in Frames,
         Behind(s)' \union InGraph(s)' \union Coming(s)'
           \subseteq Behind(s) \union InGraph(s) \union Coming(s),
         start'[s].decoded = IF start[s].decoded # NoTime THEN start[s].decoded ELSE Pts(f),
         start[s].decoded = NoTime =>
           \A x \in Behind(s) \union InGraph(s) \union Coming(s) : Pts(f) <= Pts(x),
         graph'[s] # <<>> => capacity'[s] > 0
  PROVE  BeginInv(s)'
<1>1. Pts(f) # NoTime
  BY FileFacts, RequestFacts
<1>q. QED
  BY <1>1, SameFrames DEF BeginInv

(* A stream whose tensor is left alone.                                    *)
LEMMA SoundKept ==
  ASSUME TypeInv, UNCHANGED given, NEW s \in Streams, SoundInv(s),
         rows'[s] = rows[s], decoded'[s] = decoded[s], Fresh(s)' = Fresh(s),
         start'[s].wrote = start[s].wrote, start'[s].output = start[s].output,
         BeginInv(s)'
  PROVE  SoundInv(s)'
<1>1. FreshFrom(s)' = FreshFrom(s)
  BY DEF FreshFrom
<1>2. Len(rows[s]) \in Nat /\ rows[s] \in Seq(Frames)
  BY StreamTyped, LenProperties
<1>3. DecodedInv(s)' /\ EndOf(decoded[s]) \in Nat
  BY <1>2, DecodedKept DEF SoundInv
<1>4. FreshInv(s)'
  <2>1. \A view : ViewOk(s, view) => /\ view.at + view.length <= Len(rows'[s])
                                   /\ \A k \in view.at + 1 .. view.at + view.length :
                                        rows'[s][k] = view.frame
    BY DEF ViewOk
  <2>q. QED
    BY <1>1, SameFrames DEF SoundInv, FreshInv, ViewOk, EndOf
<1>5. GapInv(s)'
  BY <1>1, <1>3, GapKept DEF SoundInv
<1>6. WroteInv(s)'
  BY WroteKept DEF SoundInv
<1>q. QED
  BY <1>3, <1>4, <1>5, <1>6 DEF SoundInv

-------------------------------------------------------------------------------
(* Selecting and planning.                                                 *)

(* No stream is asked for twice.                                           *)
LEMMA OnceFacts ==
  ASSUME NEW S, NEW indices \in Seq(S)
  PROVE  Once(indices) \in Seq(S) /\ Injective(Once(indices))
<1> DEFINE k == Len(indices)
           I == {i \in DOMAIN indices : \A j \in 1 .. i - 1 : indices[j] # indices[i]}
           c == Cardinality(I)
<1>1. k \in Nat /\ DOMAIN indices = 1 .. k /\ \A i \in 1 .. k : indices[i] \in S
  BY LenProperties, ElementOfSeq
<1>2. I \in SUBSET (1 .. k)
  BY <1>1
<1>3. Once(indices) = Picked(indices, I)
  BY DEF Once
<1>4. \A i \in I : \A j \in 1 .. i - 1 : indices[j] # indices[i]
  OBVIOUS
<1> HIDE DEF k, I
<1>5. /\ c \in Nat /\ DOMAIN Picked(indices, I) = 1 .. c
      /\ \A n \in 1 .. c : Nth(I, n) \in I /\ Picked(indices, I)[n] = indices[Nth(I, n)]
  BY <1>1, <1>2, PickedFacts, Zenon
<1>6. \A n, m \in 1 .. c : n < m => Nth(I, n) < Nth(I, m)
  BY <1>1, <1>2, NthFacts, Zenon
<1> HIDE DEF c
<1>7. Picked(indices, I) \in Seq(S)
  <2>1. \A n \in 1 .. c : Picked(indices, I)[n] \in S
    BY <1>1, <1>2, <1>5
  <2>2. Picked(indices, I) = [n \in 1 .. c |-> Picked(indices, I)[n]]
    <3>1. Picked(indices, I) = [n \in 1 .. c |-> indices[Nth(I, n)]]
      BY DEF Picked, c
    <3>q. QED
      BY <3>1
  <2>3. Picked(indices, I) \in [1 .. c -> S]
    BY <2>1, <2>2
  <2>q. QED
    BY <1>5, <2>3, SeqDef
<1>8. ASSUME NEW n \in 1 .. c, NEW m \in 1 .. c, n < m
      PROVE  Picked(indices, I)[n] # Picked(indices, I)[m]
  <2>1. Nth(I, n) \in I /\ Nth(I, m) \in I /\ Nth(I, n) < Nth(I, m)
    BY <1>5, <1>6, <1>8
  <2>4. \A i, j \in I : i < j => i \in 1 .. j - 1
    BY <1>1, <1>2
  <2>2. Nth(I, n) \in 1 .. Nth(I, m) - 1
    BY <2>1, <2>4
  <2>3. indices[Nth(I, n)] # indices[Nth(I, m)]
    BY <1>4, <2>1, <2>2
  <2>q. QED
    BY <1>5, <2>3
<1>9. \A n, m \in 1 .. c : n < m \/ n = m \/ m < n
  BY <1>5
<1>10. Injective(Picked(indices, I))
  BY <1>5, <1>8, <1>9 DEF Injective
<1>q. QED
  BY <1>3, <1>7, <1>10

(* A stream is selected for its pictures or for its sound.                 *)
LEMMA SelectedFacts ==
  ASSUME TypeInv, ToSet(Selected(asked, header)) \subseteq Streams
  PROVE  Selected(asked, header) \in Seq(Streams) /\ Injective(Selected(asked, header))
<1> DEFINE v == SelectedVideo(asked, header)
           a == SelectedAudio(asked, header)
           S == ToSet(v) \union ToSet(a)
           n == Len(v)
           m == Len(a)
<1>1. /\ asked.audio \in Seq(ToSet(asked.audio))
      /\ ToSet(v) \intersect Audio = {}
      /\ ToSet(a) \intersect Streams \subseteq Audio
  BY RequestFacts DEF RequestAssumption
<1>2. v \in Seq(ToSet(v)) /\ n \in {0, 1} /\ DOMAIN v = 1 .. n
  <2>1. CASE Known(asked.video)
    <3>1. v = <<Meant(asked.video, header.video)>>
      BY <2>1 DEF SelectedVideo
    <3>2. DOMAIN v = 1 .. 1 /\ Len(v) = 1 /\ v[1] \in ToSet(v)
      BY <3>1 DEF ToSet
    <3>q. QED
      BY <3>1, <3>2
  <2>2. CASE ~ Known(asked.video)
    <3>1. v = <<>>
      BY <2>2 DEF SelectedVideo
    <3>q. QED
      BY <3>1
  <2>q. QED
    BY <2>1, <2>2
<1>3. \E T : a \in Seq(T) /\ Injective(a)
  <2> DEFINE indices == [i \in DOMAIN asked.audio |-> Meant(asked.audio[i], header.audio)]
             T == {indices[i] : i \in DOMAIN indices}
  <2>1. Len(asked.audio) \in Nat /\ DOMAIN asked.audio = 1 .. Len(asked.audio)
    BY <1>1, LenProperties
  <2>2. indices \in [1 .. Len(asked.audio) -> T]
    BY <2>1
  <2>3. indices \in Seq(T)
    BY <2>1, <2>2, SeqDef
  <2>4. a = Once(indices)
    BY DEF SelectedAudio
  <2> HIDE DEF indices, T
  <2>q. QED
    BY <2>3, <2>4, OnceFacts
<1>4. PICK T : a \in Seq(T) /\ Injective(a)
  BY <1>3
<1>5. m \in Nat /\ DOMAIN a = 1 .. m /\ a \in [1 .. m -> T]
  BY <1>4, LenProperties
<1>6. a \in Seq(ToSet(a))
  <2>1. a \in [1 .. m -> ToSet(a)]
    BY <1>5 DEF ToSet
  <2>q. QED
    BY <1>5, <2>1, SeqDef
<1>7. v \in Seq(S) /\ a \in Seq(S)
  BY <1>2, <1>6, SeqMonotonic
<1>8. Selected(asked, header) = v \o a
  BY DEF Selected
<1>9. ToSet(v) = {v[i] : i \in 1 .. n} /\ ToSet(a) = {a[i] : i \in 1 .. m}
  BY <1>2, <1>5 DEF ToSet
<1> HIDE DEF v, a
<1>10. /\ v \o a \in Seq(S) /\ Len(v \o a) = n + m
       /\ \A i \in 1 .. n + m : (v \o a)[i] = IF i <= n THEN v[i] ELSE a[i - n]
  BY <1>7, ConcatProperties
<1>11. DOMAIN (v \o a) = 1 .. n + m
  BY <1>10, LenProperties
<1> DEFINE r == v \o a
<1> HIDE DEF S, n, m, r
<1>12. ASSUME NEW i \in 1 .. n + m
       PROVE  \/ i \in 1 .. n /\ r[i] = v[i] /\ r[i] \in ToSet(v)
              \/ i - n \in 1 .. m /\ r[i] = a[i - n] /\ r[i] \in ToSet(a)
  <2>1. CASE i <= n
    <3>1. i \in 1 .. n /\ r[i] = v[i]
      BY <1>2, <1>10, <2>1 DEF r
    <3>q. QED
      BY <1>9, <3>1
  <2>2. CASE ~ (i <= n)
    <3>1. i - n \in 1 .. m /\ r[i] = a[i - n]
      BY <1>2, <1>5, <1>10, <2>2 DEF r
    <3>q. QED
      BY <1>9, <3>1
  <2>q. QED
    BY <2>1, <2>2
<1>13. \A i \in 1 .. n + m : r[i] \in Streams
  <2>1. ToSet(r) \subseteq Streams
    BY <1>8 DEF r
  <2>q. QED
    BY <1>11, <2>1 DEF ToSet, r
<1>14. r \in Seq(Streams)
  <2>1. n + m \in Nat
    BY <1>2, <1>5
  <2>2. r \in [1 .. n + m -> S]
    BY <1>10, LenProperties DEF r
  <2>3. r \in [1 .. n + m -> Streams]
    BY <1>13, <2>2
  <2>q. QED
    BY <2>1, <2>3, SeqDef
<1>15. ASSUME NEW i \in 1 .. n + m, NEW j \in 1 .. n + m, r[i] = r[j] PROVE i = j
  <2>1. CASE i \in 1 .. n /\ j \in 1 .. n
    BY <1>2, <2>1
  <2>2. CASE i - n \in 1 .. m /\ j - n \in 1 .. m /\ r[i] = a[i - n] /\ r[j] = a[j - n]
    <3>1. i - n = j - n
      BY <1>4, <1>5, <1>15, <2>2 DEF Injective
    <3>q. QED
      BY <1>2, <3>1
  <2>3. ~ (r[i] \in ToSet(v) /\ r[j] \in ToSet(a)) /\ ~ (r[j] \in ToSet(v) /\ r[i] \in ToSet(a))
    BY <1>1, <1>13, <1>15
  <2>q. QED
    BY <1>12, <2>1, <2>2, <2>3
<1>16. Injective(r)
  BY <1>11, <1>15 DEF Injective, r
<1>q. QED
  BY <1>8, <1>14, <1>16 DEF r

(* A plan is a number.                                                     *)
LEMMA SpanFacts ==
  ASSUME TypeInv, NEW s \in Streams, Known(Span(header, s))
  PROVE  Span(header, s).time \in Int
<1>1. /\ header.span \in Int \union {NoTime}
      /\ header.streams[s].span \in Int \union {NoTime}
  BY RequestFacts DEF RequestAssumption, Time
<1>2. CASE Known(header.streams[s].span)
  <2>1. Span(header, s) = [of |-> "stream", time |-> header.streams[s].span]
    BY <1>2 DEF Span
  <2>q. QED
    BY <1>1, <1>2, <2>1 DEF Known
<1>3. CASE ~ Known(header.streams[s].span)
  <2>1. Known(header.span)
    BY <1>3 DEF Span, Known
  <2>2. Span(header, s) = [of |-> "container", time |-> header.span]
    BY <1>3, <2>1 DEF Span, Known
  <2>q. QED
    BY <1>1, <2>1, <2>2 DEF Known
<1>q. QED
  BY <1>2, <1>3

LEMMA Rounding ==
  ASSUME NEW time \in Int, NEW rate \in Rate
  PROVE  CeilAt(time, rate) \in Int /\ RoundAt(time, rate) \in Int /\ RowsOf(time, rate) \in Int
<1>1. rate[1] \in Nat \ {0} /\ rate[2] \in Nat \ {0}
  BY DEF Rate
<1> DEFINE n == rate[1]
           d == rate[2]
<1> HIDE DEF n, d
<1>2. time * n \in Int /\ 2 * time * n \in Int /\ 2 * d \in Nat \ {0} /\ (-time) * n \in Int
  BY <1>1 DEF n, d
<1>3. ASSUME NEW x \in Int, NEW y \in Nat \ {0} PROVE x \div y \in Int
  OBVIOUS
<1>4. d \in Nat \ {0}
  BY <1>1 DEF d
<1>5. -(time * n) \in Int /\ 2 * time * n + d \in Int /\ d - 2 * time * n \in Int
  BY <1>2, <1>4
<1>6. /\ (-(time * n)) \div d \in Int
      /\ (2 * time * n + d) \div (2 * d) \in Int /\ (d - 2 * time * n) \div (2 * d) \in Int
  BY <1>2, <1>3, <1>4, <1>5
<1>q. QED
  BY <1>6 DEF CeilAt, RoundAt, RowsOf, n, d

LEMMA PlannedTyped ==
  ASSUME TypeInv, current \in Chosen, Plannable
  PROVE  Planned \in Int
<1> DEFINE s == current
           it == header.streams[s]
<1>1. /\ order \in Seq(Streams) /\ s \in Streams
      /\ Len(order) \in Nat /\ DOMAIN order = 1 .. Len(order)
      /\ \A i \in 1 .. Len(order) : order[i] \in Streams
  <2>1. order \in Seq(Streams)
    BY DEF TypeInv
  <2>2. Len(order) \in Nat /\ DOMAIN order = 1 .. Len(order) /\ \A i \in 1 .. Len(order) : order[i] \in Streams
    BY <2>1, LenProperties, ElementOfSeq
  <2>q. QED
    BY <2>1, <2>2 DEF Chosen, ToSet
<1>2. /\ window.start \in Int \union {NoTime} /\ window.end \in Int \union {NoTime}
      /\ asked.rate \in Rate \union {NoTime} /\ header.begin \in Int \union {NoTime}
      /\ \A t \in Streams :
           /\ header.streams[t].begin \in Int \union {NoTime}
           /\ header.streams[t].rate \in Rate \union (IF t \in Audio THEN {} ELSE {NoTime})
           /\ header.streams[t].count \in Nat \union {NoTime}
      /\ CliRate \in Rate /\ NoTime \notin Rate
  BY RequestFacts, PipelineAssumption DEF RequestAssumption, Time
<1>3. Known(Span(header, s)) => Span(header, s).time \in Int
  BY <1>1, SpanFacts
<1>4. ASSUME NEW time \in Int PROVE AssetTime(time, window) \in Int
  BY <1>2, <1>4 DEF AssetTime, MinOf, Known
<1>5. CASE s \notin Audio
  <2>1. VideoPlannable(header, s, asked) /\ Planned = VideoPlan(header, s, asked)
    BY <1>5 DEF Plannable, Planned
  <2>2. CASE ~ Known(Span(header, s))
    BY <2>1, <2>2 DEF VideoPlan
  <2>3. CASE Known(Span(header, s))
    <3> DEFINE time == AssetTime(Span(header, s).time, window)
               rate == FrameRate(header, s, asked)
    <3>1. time \in Int
      BY <1>3, <1>4, <2>3
    <3>2. rate \in Rate
      <4>1. Known(rate)
        BY <2>1, <2>3 DEF VideoPlannable
      <4>2. it.rate \in Rate \union {NoTime} /\ it.count \in Nat \union {NoTime}
        BY <1>1, <1>2
      <4>3. it.count \in Nat /\ it.count > 0 /\ Span(header, s).time > 0
            => <<it.count, Span(header, s).time>> \in Rate
        BY <1>3, <2>3 DEF Rate
      <4>q. QED
        BY <1>2, <4>1, <4>2, <4>3 DEF FrameRate, Known
    <3>3. CliLead(header, s) \in Int
      BY <1>1, <1>2 DEF CliLead, CliStart, OrZero, Known, MaxOf
    <3>4. Planned = IF asked.cli THEN CeilAt(time + CliLead(header, s), rate) + 2
                    ELSE RowsOf(time, rate)
      BY <2>1, <2>3 DEF VideoPlan, window
    <3> HIDE DEF time, rate
    <3>5. time + CliLead(header, s) \in Int
      BY <3>1, <3>3
    <3>6. CeilAt(time + CliLead(header, s), rate) \in Int /\ RowsOf(time, rate) \in Int
      BY <3>1, <3>2, <3>5, Rounding
    <3>q. QED
      BY <3>4, <3>6
  <2>q. QED
    BY <2>2, <2>3
<1>6. CASE s \in Audio
  <2>1. AudioPlannable(header, s, asked) /\ Planned = AudioPlan(header, s, asked, order)
    BY <1>6 DEF Plannable, Planned
  <2>2. Known(Span(header, s)) /\ Span(header, s).time \in Int
    BY <1>3, <2>1 DEF AudioPlannable
  <2>3. it.rate \in Rate /\ it.begin \in Int \union {NoTime}
    BY <1>1, <1>2, <1>6
  <2> DEFINE origin == TimelineStart(header, order, window)
             begins == {header.streams[order[i]].begin : i \in DOMAIN order} \ {NoTime}
  <2>4. origin \in Int \union {NoTime}
    <3>1. CASE begins = {}
      BY <3>1 DEF TimelineStart
    <3>2. CASE begins # {}
      <4>1. begins \in SUBSET Int
        BY <1>1, <1>2
      <4>2. IsFiniteSet(begins)
        <5> DEFINE starts == [i \in 1 .. Len(order) |-> header.streams[order[i]].begin]
                   T == {header.streams[order[i]].begin : i \in 1 .. Len(order)}
        <5>1. IsFiniteSet(1 .. Len(order))
          BY <1>1, FS_Interval
        <5>2. starts \in Surjection(1 .. Len(order), T)
          BY DEF Surjection
        <5>3. IsFiniteSet(T)
          BY <5>1, <5>2, FS_Surjection
        <5>4. begins \in SUBSET T
          BY <1>1
        <5>q. QED
          BY <5>3, <5>4, FS_Subset
      <4>3. Min(begins) \in Int
        BY <3>2, <4>1, <4>2, MinFacts
      <4>4. origin = Clipped(Min(begins), window)
        BY <3>2 DEF TimelineStart
      <4>q. QED
        BY <1>2, <4>3, <4>4 DEF Clipped, MaxOf, Known
    <3>q. QED
      BY <3>1, <3>2
  <2> DEFINE time == Span(header, s).time
             pad == IF /\ Known(origin) /\ Known(it.begin)
                       /\ Span(header, s).of = "stream" /\ StartsInWindow(it.begin, window)
                    THEN LeadingPad(it.begin, origin, it.rate) ELSE 0
             padded == CeilAt(time, it.rate) + pad
             ended == IF Known(window.end)
                      THEN MinOf(padded, CeilAt(window.end - origin, it.rate)) ELSE padded
             plain == CeilAt(AssetTime(time, window), it.rate)
  <2>5. Planned = IF pad > 0 THEN MaxOf(plain, ended) ELSE plain
    BY <2>1 DEF AudioPlan, window
  <2>6. plain \in Int /\ CeilAt(time, it.rate) \in Int
    BY <1>4, <2>2, <2>3, Rounding
  <2>7. pad \in Int /\ (pad > 0 => origin \in Int)
    <3>1. CASE pad = 0
      BY <3>1
    <3>2. CASE /\ origin \in Int /\ it.begin \in Int
               /\ pad = LeadingPad(it.begin, origin, it.rate)
      <4>1. it.begin - origin \in Int
        BY <3>2
      <4>2. RoundAt(it.begin - origin, it.rate) \in Int
        BY <2>3, <4>1, Rounding
      <4>q. QED
        BY <3>2, <4>2 DEF LeadingPad, MaxOf
    <3>q. QED
      BY <2>3, <2>4, <3>1, <3>2 DEF Known
  <2> HIDE DEF origin, time, pad
  <2>8. pad > 0 => ended \in Int
    <3>1. SUFFICES ASSUME pad > 0 PROVE ended \in Int
      OBVIOUS
    <3>2. origin \in Int /\ padded \in Int
      BY <2>6, <2>7, <3>1
    <3>3. CASE Known(window.end)
      <4>1. window.end - origin \in Int
        BY <1>2, <3>2, <3>3 DEF Known
      <4>2. CeilAt(window.end - origin, it.rate) \in Int
        BY <2>3, <4>1, Rounding
      <4>q. QED
        BY <3>2, <4>2 DEF MinOf
    <3>q. QED
      BY <3>2, <3>3
  <2> HIDE DEF ended, plain
  <2>q. QED
    BY <2>5, <2>6, <2>8 DEF MaxOf
<1>q. QED
  BY <1>5, <1>6

LEMMA OrderFacts ==
  ASSUME TypeInv
  PROVE  /\ Len(order) \in Nat /\ DOMAIN order = 1 .. Len(order)
         /\ \A i \in 1 .. Len(order) : order[i] \in Streams /\ order[i] \in Chosen
         /\ Chosen \subseteq Streams
         /\ \A s \in Chosen : \E i \in 1 .. Len(order) : order[i] = s
         /\ \A i, j \in 1 .. Len(order) : order[i] = order[j] => i = j
<1>1. order \in Seq(Streams) /\ Injective(order)
  BY DEF TypeInv
<1>2. /\ Len(order) \in Nat /\ DOMAIN order = 1 .. Len(order)
      /\ \A i \in 1 .. Len(order) : order[i] \in Streams
  BY <1>1, LenProperties, ElementOfSeq
<1>q. QED
  BY <1>1, <1>2 DEF Chosen, ToSet, Injective

(* The streams are taken in order, until the last.                         *)
LEMMA OnwardFacts ==
  ASSUME TypeInv, current \in Chosen, NEW now, NEW then, Onward(now, then)
  PROVE  \E i \in 1 .. Len(order) :
           /\ order[i] = current
           /\ \/ i = Len(order) /\ pc' = then /\ current' = order[1]
              \/ i + 1 \in 1 .. Len(order) /\ pc' = now /\ current' = order[i + 1]
<1> DEFINE i == CHOOSE i \in DOMAIN order : order[i] = current
<1>1. i \in 1 .. Len(order) /\ order[i] = current
  BY OrderFacts
<1>2. IF i = Len(order) THEN pc' = then /\ current' = order[1]
      ELSE pc' = now /\ current' = order[i + 1]
  BY DEF Onward
<1>3. Len(order) \in Nat
  BY OrderFacts
<1> HIDE DEF i
<1>4. i = Len(order) \/ i + 1 \in 1 .. Len(order)
  BY <1>1, <1>3
<1>q. QED
  BY <1>1, <1>2, <1>4

LEMMA FlushesFacts ==
  ASSUME TypeInv, current \in Chosen, FlushesNext
  PROVE  \E i \in 1 .. Len(order) :
           /\ order[i] = current
           /\ \/ i = Len(order) /\ pc' = "hand_out" /\ current' = current
              \/ i + 1 \in 1 .. Len(order) /\ pc' = "flush" /\ current' = order[i + 1]
<1> DEFINE i == CHOOSE i \in DOMAIN order : order[i] = current
<1>1. i \in 1 .. Len(order) /\ order[i] = current
  BY OrderFacts
<1>2. IF i = Len(order) THEN pc' = "hand_out" /\ UNCHANGED current
      ELSE pc' = "flush" /\ current' = order[i + 1]
  BY DEF FlushesNext
<1>3. Len(order) \in Nat
  BY OrderFacts
<1> HIDE DEF i
<1>4. i = Len(order) \/ i + 1 \in 1 .. Len(order)
  BY <1>1, <1>3
<1>q. QED
  BY <1>1, <1>2, <1>4

(* The phases exclude each other.                                          *)
LEMMA Phases ==
  /\ Early => ~ Busy /\ ~ Collecting
  /\ pc \in {"failed", "refused", "planned"} => ~ Busy /\ ~ Early /\ ~ AtStream
  /\ Busy => pc \in {"demux", "send", "receive", "drain", "flush", "hand_out", "done"}
  /\ Collecting <=> pc \in {"receive", "drain"}
BY DEF Early, Busy, Demuxing, Flushing, Collecting, AtStream

LEMMA Initially == Init => IInv
<1>1. SUFFICES ASSUME Init PROVE IInv
  OBVIOUS
<1> DEFINE nothing == [decoded |-> NoTime, output |-> NoTime, wrote |-> FALSE]
<1>2. nothing \in [decoded : Time, output : Time, wrote : BOOLEAN]
  BY DEF Time
<1>3. TypeInv
  <2>1. order \in Seq(Streams) /\ Injective(order)
    BY <1>1 DEF Init, Injective
  <2>2. /\ \A S : <<>> \in Seq(S)
    OBVIOUS
  <2>q. QED
    BY <1>1, <1>2, <2>1, <2>2 DEF Init, TypeInv, Frames
<1>4. PlanInv
  BY <1>1 DEF Init, PlanInv, AtStream, Chosen, ToSet, Busy, Demuxing, Flushing, Collecting
<1>5. EarlyInv
  BY <1>1 DEF Init, EarlyInv, Idle
<1>6. ~ Busy
  BY <1>1, Phases DEF Init, Early
<1>q. QED
  BY <1>3, <1>4, <1>5, <1>6 DEF IInv

LEMMA SelectStep == ASSUME IInv, Select, Selected(asked, header) # <<>> PROVE IInv'
<1> DEFINE selected == Selected(asked, header)
<1>1. TypeInv /\ PlanInv /\ EarlyInv /\ pc = "select" /\ UNCHANGED <<given, plan, capacity, media, lists>>
  BY DEF IInv, Select
<1>2. UNCHANGED <<asked, packets, header, direct, plan, capacity, next, finished, held, draining,
                  graph, rows, decoded, start, mode, frames, kept, all>>
  BY <1>1 DEF given, media, lists
<1>3. \/ pc' = "refused" /\ UNCHANGED <<order, current>>
      \/ /\ ToSet(selected) \subseteq Streams
         /\ order' = selected /\ current' = selected[1] /\ pc' = "plan"
  BY DEF Select
<1>4. Frames' = Frames /\ View' = View
  BY <1>1, SameGiven
<1>5. CASE pc' = "refused" /\ UNCHANGED <<order, current>>
  <2>1. TypeInv'
    BY <1>1, <1>2, <1>4, <1>5 DEF TypeInv, Injective
  <2>2. PlanInv'
    BY <1>1, <1>2, <1>5 DEF PlanInv, AtStream, Busy, Demuxing, Flushing, Collecting
  <2>3. ~ Busy'
    BY <1>5 DEF Busy, Demuxing, Flushing, Collecting
  <2>4. EarlyInv'
    BY <1>1, <1>2, <1>5 DEF EarlyInv, Early, Idle
  <2>q. QED
    BY <2>1, <2>2, <2>3, <2>4 DEF IInv
<1>6. CASE /\ ToSet(selected) \subseteq Streams
           /\ order' = selected /\ current' = selected[1] /\ pc' = "plan"
  <2>1. selected \in Seq(Streams) /\ Injective(selected)
    BY <1>1, <1>6, SelectedFacts
  <2>2. /\ Len(selected) \in Nat \ {0} /\ DOMAIN selected = 1 .. Len(selected)
    BY <2>1, LenProperties, EmptySeq
  <2>3. Injective(order)' /\ order' \in Seq(Streams)
    BY <1>6, <2>1 DEF Injective
  <2>4. TypeInv'
    BY <1>1, <1>2, <1>4, <1>6, <2>3 DEF TypeInv
  <2>5. current' \in ToSet(order')
    BY <1>6, <2>2 DEF ToSet
  <2>6. \A i, j \in DOMAIN order' : order'[i] = current' /\ j < i => FALSE
    <3>1. 1 \in DOMAIN selected
      BY <2>2
    <3>2. \A i \in DOMAIN selected : selected[i] = selected[1] => i = 1
      BY <2>1, <3>1 DEF Injective
    <3>q. QED
      BY <1>6, <2>2, <3>2
  <2>7. PlanInv'
    BY <1>1, <1>2, <1>6, <2>5, <2>6 DEF PlanInv, AtStream, Chosen, Busy, Demuxing, Flushing, Collecting
  <2>8. EarlyInv'
    BY <1>1, <1>2 DEF EarlyInv, Early, Idle
  <2>9. ~ Busy'
    BY <1>6 DEF Busy, Demuxing, Flushing, Collecting
  <2>q. QED
    BY <2>4, <2>7, <2>8, <2>9 DEF IInv
<1>q. QED
  BY <1>3, <1>5, <1>6

LEMMA PlanStreamStep == ASSUME IInv, PlanStream PROVE IInv'
<1>1. /\ TypeInv /\ PlanInv /\ EarlyInv /\ pc = "plan" /\ CanPlan
      /\ plan' = [plan EXCEPT ![current] = Planned] /\ Onward("plan", "allocate")
      /\ UNCHANGED <<asked, packets, header, direct, order, capacity, next, finished, held,
                     draining, graph, rows, decoded, start, mode, frames, kept, all>>
  BY DEF IInv, PlanStream, given, media, lists
<1>2. current \in Chosen /\ current \in Streams
  BY <1>1, OrderFacts DEF PlanInv, AtStream
<1>3. Frames' = Frames /\ View' = View /\ Chosen' = Chosen /\ Limit' = Limit
  BY <1>1, SameGiven DEF given, Chosen, Limit
<1>4. Planned \in Int
  BY <1>1, <1>2, PlannedTyped DEF CanPlan
<1>5. Planned \in Nat /\ Planned * Bytes[current] <= Limit
  BY <1>1, <1>4 DEF CanPlan, WithinLimit, Allocatable
<1>6. plan' \in [Streams -> Int \union {NoTime}]
  BY <1>1, <1>4 DEF TypeInv
<1>7. PICK i \in 1 .. Len(order) :
        /\ order[i] = current
        /\ \/ i = Len(order) /\ pc' = "allocate" /\ current' = order[1]
           \/ i + 1 \in 1 .. Len(order) /\ pc' = "plan" /\ current' = order[i + 1]
  BY <1>1, <1>2, OnwardFacts
<1>8. pc' \in {"plan", "allocate"}
  BY <1>7
<1>9. TypeInv'
  BY <1>1, <1>3, <1>6, <1>8 DEF TypeInv, Injective
<1>10. /\ Len(order) \in Nat /\ DOMAIN order = 1 .. Len(order)
       /\ \A j \in 1 .. Len(order) : order[j] \in Streams /\ order[j] \in Chosen
       /\ \A j, k \in 1 .. Len(order) : order[j] = order[k] => j = k
       /\ \A s \in Chosen : \E j \in 1 .. Len(order) : order[j] = s
  BY <1>1, OrderFacts
<1>10a. Len(order) \in Nat /\ i \in 1 .. Len(order) /\ order[i] = current
  BY <1>7, <1>10
<1>10b. i \in Nat /\ i <= Len(order) /\ 1 \in 1 .. Len(order)
  BY ONLY <1>10a
<1>11. ASSUME NEW j \in 1 .. Len(order), j <= i PROVE PlanOk(order[j])'
  <2>1. CASE j < i
    <3>1. PlanOk(order[j])
      BY <1>1, <1>7, <1>10, <2>1 DEF PlanInv
    <3>2. order[j] # current
      <4>1. j # i
        BY <1>10b, <2>1
      <4>q. QED
        BY <1>10, <1>10a, <4>1
    <3>3. plan'[order[j]] = plan[order[j]]
      BY <1>1, <1>10, <3>2 DEF TypeInv
    <3>q. QED
      BY <1>1, <1>3, <3>1, <3>3 DEF PlanOk
  <2>2. CASE j = i
    <3>1. plan'[order[j]] = Planned /\ order'[j] = current
      BY <1>1, <1>2, <1>7, <2>2 DEF TypeInv
    <3>q. QED
      BY <1>1, <1>3, <1>5, <1>7, <2>2, <3>1 DEF PlanOk
  <2>3. j < i \/ j = i
    BY <1>10a, <1>10b, <1>11
  <2>q. QED
    BY <2>1, <2>2, <2>3
<1>12. PlanInv'
  <2>1. current' \in Chosen'
    <3>1. current' = order[1] \/ (i + 1 \in 1 .. Len(order) /\ current' = order[i + 1])
      BY <1>7
    <3>q. QED
      BY <1>3, <1>10, <1>10b, <3>1
  <2>2. \A s \in Streams : capacity'[s] = NoTime
    BY <1>1 DEF PlanInv
  <2>3. CASE pc' = "plan" /\ i + 1 \in 1 .. Len(order) /\ current' = order[i + 1]
    <3>1. ASSUME NEW k \in DOMAIN order', NEW j \in DOMAIN order', order'[k] = current', j < k
          PROVE  PlanOk(order[j])'
      <4>1. k = i + 1 /\ j \in 1 .. Len(order)
        BY <1>1, <1>10, <2>3, <3>1
      <4>2. j <= i
        BY <1>10, <3>1, <4>1
      <4>q. QED
        BY <1>11, <4>1, <4>2
    <3>q. QED
      BY <2>1, <2>2, <2>3, <3>1 DEF PlanInv, Busy, Demuxing, Flushing, Collecting
  <2>4. CASE pc' = "allocate" /\ i = Len(order) /\ current' = order[1]
    <3>1. \A s \in Chosen' : PlanOk(s)'
      <4>1. ASSUME NEW s \in Chosen PROVE PlanOk(s)'
        <5>1. PICK j \in 1 .. Len(order) : order[j] = s
          BY <1>10
        <5>2. PlanOk(order[j])'
          BY <1>10, <1>11, <2>4
        <5>3. order'[j] = s
          BY <1>1, <5>1
        <5>q. QED
          BY <5>2, <5>3 DEF PlanOk
      <4>q. QED
        BY <1>3, <4>1
    <3>2. ASSUME NEW k \in DOMAIN order', NEW j \in DOMAIN order', order'[k] = current', j < k
          PROVE  FALSE
      <4>1. k = 1
        BY <1>1, <1>10, <1>10b, <2>4, <3>2
      <4>q. QED
        BY <1>1, <1>10, <3>2, <4>1
    <3>q. QED
      BY <2>1, <2>2, <2>4, <3>1, <3>2 DEF PlanInv, Busy, Demuxing, Flushing, Collecting
  <2>q. QED
    BY <1>7, <2>3, <2>4
<1>13. EarlyInv'
  BY <1>1 DEF EarlyInv, Early, Idle
<1>14. ~ Busy'
  BY <1>8 DEF Busy, Demuxing, Flushing, Collecting
<1>q. QED
  BY <1>9, <1>12, <1>13, <1>14 DEF IInv

(* Where the program ends, refused, planned or failed.                     *)
LEMMA EndStep ==
  ASSUME IInv, UNCHANGED <<settled, media, current, lists>>,
         pc' \in {"failed", "planned", "refused"}, pc' = "refused" => pc = "plan", pc # "select",
         pc' # "refused" => pc # "plan" /\ pc # "refused"
  PROVE  IInv'
<1>1. /\ TypeInv /\ PlanInv
      /\ UNCHANGED <<asked, packets, header, direct, order, plan, capacity, next, finished, held,
                     draining, graph, rows, decoded, start, current, mode, frames, kept, all>>
  BY DEF IInv, settled, media, lists
<1>2. Frames' = Frames /\ View' = View /\ Chosen' = Chosen /\ Limit' = Limit
  BY <1>1, SameGiven DEF given, Chosen, Limit
<1>3. TypeInv'
  BY <1>1, <1>2 DEF TypeInv, Injective
<1>4. ~ Busy' /\ ~ Early' /\ ~ AtStream'
  BY DEF Early, Busy, Demuxing, Flushing, Collecting, AtStream
<1>5. PlanInv'
  <2>1. \A s : PlanOk(s)' <=> PlanOk(s)
    BY <1>1, <1>2 DEF PlanOk
  <2>2. CASE pc' = "refused"
    BY <1>1, <1>4, <2>2 DEF PlanInv
  <2>3. CASE pc' # "refused"
    BY <1>1, <1>2, <1>4, <2>1, <2>3 DEF PlanInv
  <2>q. QED
    BY <2>2, <2>3
<1>6. EarlyInv'
  BY <1>1, <1>2, <1>4 DEF IInv, EarlyInv, Idle
<1>q. QED
  BY <1>3, <1>4, <1>5, <1>6 DEF IInv

-------------------------------------------------------------------------------
(* The steps to the loop.                                                  *)

(* A decoder without frames has none to give.                              *)
LEMMA NoOutput ==
  ASSUME NEW s, held[s] = {}
  PROVE  ~ HasOutput(s)
<1>1. Reorder \in Nat /\ Cardinality(held[s]) = 0
  BY PipelineAssumption, FS_EmptySet
<1>q. QED
  BY <1>1 DEF HasOutput

(* The demuxer may start behind the file's first packets, never behind a   *)
(* frame of the window.                                                    *)
AtLoop ==
  /\ pc = "demux" /\ order # <<>>
  /\ \A s \in Chosen : capacity[s] \in Nat /\ Idle(s)
  /\ \A f \in Frames : Of(f) \in Chosen /\ f < next => BeforeStart(f)

LEMMA LoopStarts == TypeInv /\ AtLoop => LoopInv
<1>1. SUFFICES ASSUME TypeInv, AtLoop PROVE LoopInv
  OBVIOUS
<1>2. ~ Collecting /\ ~ Flushing /\ ~ AtPacket
  BY <1>1 DEF AtLoop, Collecting, Flushing, AtPacket
<1>3. ASSUME NEW s \in Chosen PROVE s \in Streams /\ capacity[s] \in Nat /\ Idle(s) /\ ~ HasOutput(s)
  <2>1. s \in Streams /\ capacity[s] \in Nat /\ Idle(s)
    BY <1>1, OrderFacts DEF AtLoop
  <2>q. QED
    BY <2>1, NoOutput DEF Idle
<1>4. PhaseInv
  BY <1>1, <1>2, <1>3 DEF PhaseInv, AtLoop, Idle
<1>5. ASSUME NEW s \in Chosen PROVE StreamInv(s) /\ SoundInv(s)
  <2>1. /\ s \in Streams /\ capacity[s] \in Nat /\ ~ finished[s] /\ ~ draining[s] /\ held[s] = {}
        /\ graph[s] = <<>> /\ rows[s] = <<>> /\ decoded[s] = <<>>
        /\ start[s].decoded = NoTime /\ ~ start[s].wrote
    BY <1>3 DEF Idle
  <2>2. Fresh(s) = <<>> /\ ~ Flushed(s) /\ ~ Sent
    BY <1>2, <2>1 DEF Fresh, Flushed, Sent
  <2>3. Behind(s) = {} /\ InGraph(s) = {} /\ Coming(s) = Ahead(s)
    BY <2>1, <2>2 DEF Behind, InGraph, Coming
  <2>4. HeldInv(s) /\ OrderInv(s) /\ FlushedInv(s) /\ FinishedInv(s)
    BY <2>1, <2>2, <2>3 DEF HeldInv, OrderInv, FlushedInv, FinishedInv
  <2>5. CompleteInv(s)
    <3>1. ASSUME NEW f \in Frames, Of(f) = s, InWindow(f) PROVE f \in Ahead(s)
      <4>1. ~ (f < next)
        BY <1>1, <3>1 DEF AtLoop, InWindow
      <4>2. f \in Nat /\ next \in Nat
        BY <1>1, FileFacts DEF TypeInv
      <4>q. QED
        BY <2>1, <2>2, <3>1, <4>1, <4>2 DEF Ahead
    <3>q. QED
      BY <2>3, <3>1 DEF CompleteInv
  <2>6. RowsInv(s)
    <3>1. Len(rows[s]) = 0 /\ DOMAIN rows[s] = {} /\ Size(s) \in Nat \ {0}
      BY <1>1, <2>1, RequestFacts
    <3>q. QED
      BY <2>1, <3>1 DEF RowsInv, InBlocks
  <2>7. EndOf(decoded[s]) = 0 /\ FreshFrom(s) = 0
    BY <2>1, <2>2 DEF EndOf, FreshFrom
  <2>8. DecodedInv(s) /\ FreshInv(s) /\ GapInv(s) /\ WroteInv(s)
    <3>1. Len(rows[s]) = 0
      BY <2>1
    <3>q. QED
      BY <2>1, <2>2, <2>7, <3>1 DEF DecodedInv, FreshInv, GapInv, WroteInv
  <2>9. BeginInv(s)
    BY <2>1 DEF BeginInv
  <2>q. QED
    BY <2>4, <2>5, <2>6, <2>8, <2>9 DEF StreamInv, SoundInv
<1>q. QED
  BY <1>4, <1>5 DEF LoopInv

LEMMA LoopStartsNext == TypeInv' /\ AtLoop' => LoopInv'
BY LoopStarts, PTL

(* Without a stream there is nothing more to do.                           *)
LEMMA NothingStep == ASSUME IInv, Select, Selected(asked, header) = <<>> PROVE IInv'
<1>1. /\ TypeInv /\ PlanInv /\ EarlyInv /\ pc = "select" /\ pc' = "hand_out" /\ order = <<>>
      /\ UNCHANGED <<asked, packets, header, direct, order, plan, capacity, next, finished, held,
                     draining, graph, rows, decoded, start, current, mode, frames, kept, all>>
  BY DEF IInv, PlanInv, Select, given, media, lists
<1>2. Frames' = Frames /\ View' = View
  BY <1>1, SameGiven DEF given
<1>3. TypeInv'
  BY <1>1, <1>2 DEF TypeInv, Injective
<1>4. Chosen' = {}
  BY <1>1 DEF Chosen, ToSet
<1>5. ~ AtStream' /\ ~ Early' /\ ~ Collecting'
  BY <1>1 DEF AtStream, Early, Collecting
<1>6. PlanInv' /\ EarlyInv'
  BY <1>1, <1>4, <1>5 DEF PlanInv, EarlyInv, Early, Idle
<1>7. PhaseInv'
  BY <1>1, <1>4, <1>5 DEF PhaseInv, Demuxing, AtPacket, AllFinished
<1>q. QED
  BY <1>3, <1>4, <1>6, <1>7 DEF IInv, LoopInv

LEMMA AllocateStep == ASSUME IInv, Allocate PROVE IInv'
<1>1. /\ TypeInv /\ PlanInv /\ EarlyInv /\ pc = "allocate"
      /\ capacity' = [capacity EXCEPT ![current] = plan[current]]
      /\ Onward("allocate", IF Known(window.start) THEN "seek" ELSE "demux")
      /\ UNCHANGED <<asked, packets, header, direct, order, plan, next, finished, held,
                     draining, graph, rows, decoded, start, mode, frames, kept, all>>
  BY DEF IInv, Allocate, given, media, lists
<1>2. current \in Chosen /\ current \in Streams
  BY <1>1, OrderFacts DEF PlanInv, AtStream
<1>3. Frames' = Frames /\ View' = View /\ Chosen' = Chosen /\ Limit' = Limit
  BY <1>1, SameGiven DEF given, Chosen, Limit
<1>4. PICK i \in 1 .. Len(order) :
        /\ order[i] = current
        /\ \/ /\ i = Len(order) /\ current' = order[1]
              /\ pc' = IF Known(window.start) THEN "seek" ELSE "demux"
           \/ i + 1 \in 1 .. Len(order) /\ pc' = "allocate" /\ current' = order[i + 1]
  BY <1>1, <1>2, OnwardFacts
<1>5. pc' \in {"allocate", "seek", "demux"}
  BY <1>4
<1>6. TypeInv'
  <2>1. capacity' \in [Streams -> Int \union {NoTime}]
    BY <1>1, <1>2 DEF TypeInv
  <2>q. QED
    BY <1>1, <1>3, <1>5, <2>1 DEF TypeInv, Injective
<1>7. /\ Len(order) \in Nat /\ DOMAIN order = 1 .. Len(order)
      /\ \A j \in 1 .. Len(order) : order[j] \in Streams /\ order[j] \in Chosen
      /\ \A j, k \in 1 .. Len(order) : order[j] = order[k] => j = k
      /\ \A s \in Chosen : \E j \in 1 .. Len(order) : order[j] = s
  BY <1>1, OrderFacts
<1>8. Len(order) \in Nat /\ i \in 1 .. Len(order) /\ order[i] = current
  BY <1>4, <1>7
<1>9. i \in Nat /\ i <= Len(order) /\ 1 \in 1 .. Len(order)
  BY ONLY <1>8
<1>10. current' \in Chosen /\ order # <<>>
  <2>1. current' = order[1] \/ (i + 1 \in 1 .. Len(order) /\ current' = order[i + 1])
    BY <1>4
  <2>2. Len(order) # 0
    BY <1>7, <1>9
  <2>q. QED
    BY <1>7, <1>9, <2>1, <2>2
<1>11. \A s \in Chosen : PlanOk(s) /\ PlanOk(s)'
  <2>1. \A s \in Chosen : PlanOk(s)
    BY <1>1 DEF PlanInv
  <2>q. QED
    BY <1>1, <1>3, <2>1 DEF PlanOk
<1>12. ASSUME NEW j \in 1 .. Len(order), j <= i PROVE capacity'[order[j]] = plan'[order[j]]
  <2>1. CASE j < i
    <3>1. capacity[order[j]] = plan[order[j]]
      BY <1>1, <1>7, <1>8, <2>1 DEF PlanInv
    <3>2. j # i
      BY <1>9, <2>1
    <3>3. order[j] # current
      BY <1>7, <1>8, <3>2
    <3>q. QED
      BY <1>1, <1>7, <3>1, <3>3 DEF TypeInv
  <2>2. CASE j = i
    BY <1>1, <1>2, <1>8, <2>2 DEF TypeInv
  <2>3. j < i \/ j = i
    BY <1>8, <1>9, <1>12
  <2>q. QED
    BY <2>1, <2>2, <2>3
<1>13. CASE pc' = "allocate" /\ i + 1 \in 1 .. Len(order) /\ current' = order[i + 1]
  <2>1. ASSUME NEW k \in DOMAIN order', NEW j \in DOMAIN order', order'[k] = current', j < k
        PROVE  capacity'[order'[j]] = plan'[order'[j]]
    <3>1. k = i + 1 /\ j \in 1 .. Len(order)
      BY <1>1, <1>7, <1>13, <2>1
    <3>2. j <= i
      BY <1>9, <2>1, <3>1
    <3>q. QED
      BY <1>1, <1>12, <3>1, <3>2
  <2>2. ~ Busy'
    BY <1>13 DEF Busy, Demuxing, Flushing, Collecting
  <2>3. PlanInv'
    BY <1>3, <1>10, <1>11, <1>13, <2>1, <2>2 DEF PlanInv
  <2>4. EarlyInv'
    BY <1>1, <1>3 DEF EarlyInv, Early, Idle
  <2>q. QED
    BY <1>6, <2>2, <2>3, <2>4 DEF IInv
<1>14. CASE pc' \in {"seek", "demux"} /\ i = Len(order)
  <2>1. ASSUME NEW s \in Chosen PROVE capacity'[s] = plan'[s] /\ capacity'[s] \in Nat
    <3>1. PICK j \in 1 .. Len(order) : order[j] = s
      BY <1>7
    <3>2. j <= i
      BY <1>9, <1>14
    <3>q. QED
      BY <1>11, <1>12, <3>1, <3>2 DEF PlanOk
  <2>2a. pc' = "seek" => Known(window.start)'
    <3>1. window' = window
      BY <1>1, SameGiven DEF given
    <3>2. pc' = "seek" => Known(window.start)
      BY <1>4
    <3>q. QED
      BY <3>1, <3>2 DEF Known
  <2>2. PlanInv'
    BY <1>3, <1>10, <1>11, <1>14, <2>1, <2>2a DEF PlanInv
  <2>3. EarlyInv'
    BY <1>1, <1>3 DEF EarlyInv, Early, Idle
  <2>4. pc' = "demux" => LoopInv'
    <3>1. next = 1 /\ \A s \in Streams : Idle(s)
      BY <1>1 DEF EarlyInv, Early
    <3>2. \A s \in Chosen' : capacity'[s] \in Nat /\ Idle(s)'
      BY <1>1, <1>3, <2>1, <3>1, OrderFacts DEF Idle
    <3>3. \A f \in Frames' : ~ (f < next')
      BY <1>1, <1>3, <3>1, FileFacts
    <3>4. pc' = "demux" => AtLoop'
      BY <1>1, <1>10, <3>2, <3>3 DEF AtLoop
    <3>q. QED
      BY <1>6, <3>4, LoopStartsNext
  <2>5. pc' = "seek" => ~ Busy'
    BY DEF Busy, Demuxing, Flushing, Collecting
  <2>q. QED
    BY <1>6, <1>14, <2>2, <2>3, <2>4, <2>5 DEF IInv
<1>q. QED
  BY <1>4, <1>13, <1>14

LEMMA SeekStep == ASSUME IInv, Seek PROVE IInv'
<1>1. /\ TypeInv /\ PlanInv /\ EarlyInv /\ pc = "seek" /\ pc' = "demux"
      /\ UNCHANGED <<asked, packets, header, direct, order, plan, capacity, finished, held,
                     draining, graph, rows, decoded, start, current, mode, frames, kept, all>>
  BY DEF IInv, Seek, settled, lists
<1>2. PICK place \in 1 .. Len(packets) + 1 :
        /\ \A i \in 1 .. place - 1 : Of(i) \in Chosen => Pts(i) < window.start
        /\ next' = place
  BY DEF Seek
<1>3. Frames' = Frames /\ View' = View /\ Chosen' = Chosen /\ Limit' = Limit
  BY <1>1, SameGiven DEF given, Chosen, Limit
<1>4. Len(packets) \in Nat /\ Frames = 1 .. Len(packets)
  BY <1>1, FileFacts
<1>5. TypeInv'
  <2>1. next' \in Nat \ {0}
    BY <1>2, <1>4
  <2>q. QED
    BY <1>1, <1>3, <2>1 DEF TypeInv, Injective
<1>6. PlanInv'
  <2>1. \A s : PlanOk(s)' <=> PlanOk(s)
    BY <1>1, <1>3 DEF PlanOk
  <2>q. QED
    BY <1>1, <1>3, <2>1 DEF PlanInv, AtStream
<1>7. ~ Early'
  BY <1>1 DEF Early
<1>8. AtLoop'
  <2>1. \A s \in Chosen : capacity[s] \in Nat /\ Idle(s)
    BY <1>1, OrderFacts DEF PlanInv, PlanOk, EarlyInv, Early
  <2>2. \A s \in Chosen' : capacity'[s] \in Nat /\ Idle(s)'
    BY <1>1, <1>3, <2>1 DEF Idle
  <2>3. order' # <<>>
    <3>1. current \in Chosen
      BY <1>1 DEF PlanInv, AtStream
    <3>q. QED
      BY <1>1, <3>1 DEF Chosen, ToSet
  <2>4. ASSUME NEW f \in Frames, Of(f) \in Chosen, f < next' PROVE BeforeStart(f)
    <3>1. f \in 1 .. place - 1
      BY <1>2, <1>4, <2>4
    <3>2. Pts(f) < window.start
      BY <1>2, <2>4, <3>1
    <3>3. window.start # NoTime
      BY <1>1 DEF PlanInv, Known
    <3>q. QED
      BY <3>2, <3>3 DEF BeforeStart
  <2>5. \A f : Of(f)' = Of(f) /\ (BeforeStart(f)' <=> BeforeStart(f))
    BY <1>1, SameFrames DEF given
  <2>q. QED
    BY <1>1, <1>3, <2>2, <2>3, <2>4, <2>5 DEF AtLoop
<1>9. EarlyInv'
  BY <1>1, <1>3, <1>7 DEF EarlyInv, Early, Idle
<1>q. QED
  BY <1>5, <1>6, <1>8, <1>9, LoopStartsNext DEF IInv

-------------------------------------------------------------------------------
(* In the loop.                                                            *)

LEMMA BusyFacts ==
  ASSUME IInv, Busy
  PROVE  /\ TypeInv /\ PhaseInv
         /\ AtStream => current \in Chosen /\ current \in Streams
         /\ \A s \in Chosen : /\ s \in Streams /\ capacity[s] \in Nat
                              /\ StreamInv(s) /\ (s \in Audio => SoundInv(s))
<1>1. TypeInv /\ PlanInv /\ LoopInv
  BY DEF IInv
<1>2. \A s \in Chosen : s \in Streams
  BY <1>1, OrderFacts
<1>3. pc \notin {"select", "plan", "refused"}
  BY DEF Busy, Demuxing, Flushing, Collecting
<1>4. \A s \in Chosen : capacity[s] \in Nat
  BY <1>1, <1>3 DEF PlanInv, PlanOk
<1>5. AtStream => current \in Chosen
  BY <1>1 DEF PlanInv
<1>q. QED
  BY <1>1, <1>2, <1>4, <1>5 DEF LoopInv

(* The plans and the streams not selected stay as they are.                *)
LEMMA LoopKept ==
  ASSUME IInv, Busy, UNCHANGED settled, Busy', AtStream' => current' \in Chosen,
         \A s \in Streams \ Chosen :
           /\ finished'[s] = finished[s] /\ draining'[s] = draining[s] /\ held'[s] = held[s]
           /\ graph'[s] = graph[s] /\ rows'[s] = rows[s] /\ decoded'[s] = decoded[s]
           /\ start'[s] = start[s]
  PROVE  PlanInv' /\ EarlyInv'
<1>1. /\ PlanInv /\ EarlyInv /\ UNCHANGED given
      /\ UNCHANGED <<asked, packets, header, direct, order, plan, capacity>>
  BY DEF IInv, settled, given
<1>2. Chosen' = Chosen /\ Limit' = Limit
  BY <1>1 DEF Chosen, Limit
<1>3. \A s : PlanOk(s)' <=> PlanOk(s)
  BY <1>1, <1>2 DEF PlanOk
<1>4. /\ pc \notin {"select", "plan", "allocate", "seek", "refused"}
      /\ pc' \notin {"select", "plan", "allocate", "seek", "refused"}
  BY DEF Busy, Demuxing, Flushing, Collecting
<1>5. PlanInv'
  BY <1>1, <1>2, <1>3, <1>4 DEF PlanInv
<1>6. ~ Early /\ ~ Early'
  BY <1>4 DEF Early
<1>7. EarlyInv'
  BY <1>1, <1>2, <1>6 DEF EarlyInv, Idle
<1>q. QED
  BY <1>5, <1>7

LEMMA SameSettled ==
  ASSUME UNCHANGED settled
  PROVE  /\ UNCHANGED given
         /\ UNCHANGED <<asked, packets, header, direct, order, plan, capacity>>
         /\ Chosen' = Chosen /\ Frames' = Frames /\ View' = View
<1>1. UNCHANGED given /\ UNCHANGED <<asked, packets, header, direct, order, plan, capacity>>
  BY DEF settled, given
<1>q. QED
  BY <1>1, SameGiven DEF Chosen

LEMMA AheadSame ==
  ASSUME UNCHANGED given, NEW s, next' = next, draining'[s] = draining[s],
         Of(next) = s => (Sent' <=> Sent)
  PROVE  Ahead(s)' = Ahead(s)
<1>1. Frames' = Frames /\ \A f : Of(f)' = Of(f)
  BY SameGiven, SameFrames
<1>q. QED
  BY <1>1 DEF Ahead

(* A stream whose rows and views stay as they are.                         *)
LEMMA StreamKept ==
  ASSUME TypeInv, UNCHANGED given, NEW s \in Streams, StreamInv(s), s \in Audio => SoundInv(s),
         capacity'[s] = capacity[s], graph'[s] = graph[s], rows'[s] = rows[s],
         decoded'[s] = decoded[s], start'[s] = start[s], Fresh(s)' = Fresh(s),
         HeldInv(s)', FlushedInv(s)', FinishedInv(s)', Coming(s)' \subseteq Coming(s),
         \A f \in Coming(s) :
           f \in Coming(s)' \/ ~ InWindow(f) \/ CutShort(f) \/ Delivered(s, f)
  PROVE  /\ StreamInv(s)' /\ (s \in Audio => SoundInv(s)')
         /\ Full(s)' <=> Full(s)
<1>1. HeldInv(s) /\ OrderInv(s) /\ CompleteInv(s) /\ RowsInv(s)
  BY DEF StreamInv
<1>2. Behind(s)' = Behind(s) /\ InGraph(s)' = InGraph(s)
  BY DEF Behind, InGraph
<1>3. OrderInv(s)'
  BY <1>1, <1>2, OrderKept
<1>4. RowsInv(s)' /\ (Full(s)' <=> Full(s)) /\ \A f : Delivered(s, f)' <=> Delivered(s, f)
  BY <1>1, RowsKept
<1>5. CompleteInv(s)'
  BY <1>1, <1>2, <1>4, CompleteKept
<1>6. StreamInv(s)'
  BY <1>3, <1>4, <1>5 DEF StreamInv
<1>7. ASSUME s \in Audio PROVE SoundInv(s)'
  <2>1. BeginInv(s)'
    BY <1>2, <1>7, BeginKept DEF SoundInv, BeginInv
  <2>q. QED
    BY <1>7, <2>1, SoundKept
<1>q. QED
  BY <1>4, <1>6, <1>7

(* A stream that a step does not touch.                                    *)
Touched(s) == s = current /\ Collecting
LEMMA OtherKept ==
  ASSUME TypeInv, UNCHANGED settled, NEW s \in Streams, StreamInv(s), s \in Audio => SoundInv(s),
         UNCHANGED <<held[s], draining[s], finished[s], graph[s], rows[s], decoded[s], start[s]>>,
         ~ Touched(s), ~ Touched(s)', Ahead(s)' = Ahead(s)
  PROVE  /\ StreamInv(s)' /\ (s \in Audio => SoundInv(s)')
         /\ (Full(s)' <=> Full(s)) /\ (HasOutput(s)' <=> HasOutput(s))
<1>1. UNCHANGED given /\ capacity'[s] = capacity[s] /\ window' = window
  BY SameSettled, SameGiven
<1>2. Fresh(s) = <<>> /\ Fresh(s)' = <<>>
  BY DEF Fresh, Touched
<1>3. Coming(s)' = Coming(s)
  BY DEF Coming
<1>4. Full(s)' <=> Full(s)
  BY <1>1 DEF Full
<1>5. HeldInv(s)' /\ FlushedInv(s)' /\ FinishedInv(s)'
  BY <1>1, <1>4, SameFrames DEF StreamInv, HeldInv, FlushedInv, FinishedInv, Flushed, Touched
<1>6. StreamInv(s)' /\ (s \in Audio => SoundInv(s)')
  BY <1>1, <1>2, <1>3, <1>5, StreamKept
<1>7. HasOutput(s)' <=> HasOutput(s)
  BY DEF HasOutput
<1>q. QED
  BY <1>4, <1>6, <1>7

(* A step that touches no stream.                                          *)
LEMMA AllKept ==
  ASSUME IInv, Busy, UNCHANGED settled,
         UNCHANGED <<held, draining, finished, graph, rows, decoded, start, next>>,
         ~ Collecting, ~ Collecting'
  PROVE  \A s \in Chosen : /\ StreamInv(s)' /\ (s \in Audio => SoundInv(s)')
                           /\ (Full(s)' <=> Full(s)) /\ (HasOutput(s)' <=> HasOutput(s))
<1>1. ASSUME NEW s \in Chosen
      PROVE  /\ StreamInv(s)' /\ (s \in Audio => SoundInv(s)')
             /\ (Full(s)' <=> Full(s)) /\ (HasOutput(s)' <=> HasOutput(s))
  <2>1. TypeInv /\ s \in Streams /\ StreamInv(s) /\ (s \in Audio => SoundInv(s))
    BY BusyFacts
  <2>2. ~ Sent /\ ~ Sent' /\ ~ Touched(s) /\ ~ Touched(s)'
    BY DEF Sent, Touched
  <2>3. Ahead(s)' = Ahead(s)
    BY <2>2, AheadSame, SameSettled
  <2>q. QED
    BY <2>1, <2>2, <2>3, OtherKept
<1>q. QED
  BY <1>1

LEMMA ReadPacketStep == ASSUME IInv, ReadPacket PROVE IInv'
<1>1. /\ pc = "demux" /\ next <= Len(packets)
      /\ UNCHANGED settled /\ UNCHANGED <<held, draining, graph, rows, decoded, start, mode, frames, kept>>
  BY DEF ReadPacket
<1>2. Busy /\ ~ Collecting
  BY <1>1 DEF Busy, Demuxing, Collecting
<1>3. /\ TypeInv /\ PhaseInv /\ UNCHANGED given
      /\ UNCHANGED <<asked, packets, header, direct, order, plan, capacity>>
      /\ Chosen' = Chosen /\ Frames' = Frames /\ View' = View
  BY <1>1, <1>2, BusyFacts, SameSettled
<1>4. /\ Len(packets) \in Nat /\ Frames = 1 .. Len(packets) /\ next \in Nat /\ next \in Frames
      /\ window.end \in Int \union {NoTime} /\ NoTime \notin Int
  <2>1. next \in Nat \ {0}
    BY <1>3 DEF TypeInv
  <2>2. Len(packets) \in Nat /\ Frames = 1 .. Len(packets)
    BY <1>3, FileFacts
  <2>q. QED
    BY <1>1, <1>3, <2>1, <2>2, RequestFacts
<1>5. CASE /\ Of(next) \in Chosen /\ ~ finished[Of(next)]
           /\ finished' = [finished EXCEPT ![Of(next)] = PastEnd(next)]
           /\ pc' = "send" /\ current' = Of(next) /\ all' = <<>> /\ next' = next
  <2>1. ~ Collecting' /\ Busy' /\ AtPacket'
    BY <1>5 DEF Collecting, Busy, Demuxing, AtPacket
  <2>2. TypeInv'
    <3>1. PastEnd(next) \in BOOLEAN
      BY DEF PastEnd
    <3>2. finished' \in [Streams -> BOOLEAN]
      BY <1>3, <1>5, <3>1 DEF TypeInv
    <3>q. QED
      BY <1>1, <1>3, <1>5, <3>2 DEF TypeInv, Injective
  <2>3. PlanInv' /\ EarlyInv'
    <3>1. \A s \in Streams \ Chosen : finished'[s] = finished[s]
      BY <1>3, <1>5 DEF TypeInv
    <3>q. QED
      BY <1>1, <1>2, <1>3, <1>5, <2>1, <3>1, LoopKept
  <2>4. ASSUME NEW s \in Chosen
        PROVE  /\ StreamInv(s)' /\ (s \in Audio => SoundInv(s)')
               /\ Full(s)' <=> Full(s)
    <3>1. s \in Streams /\ StreamInv(s) /\ (s \in Audio => SoundInv(s))
      BY <1>2, BusyFacts
    <3>2. /\ HeldInv(s) /\ FlushedInv(s) /\ FinishedInv(s)
      BY <3>1 DEF StreamInv
    <3>3. Ahead(s)' = Ahead(s) /\ Coming(s)' = Coming(s)
      <4>1. ~ Sent /\ ~ Sent'
        BY <1>2, <2>1 DEF Sent
      <4>2. Ahead(s)' = Ahead(s)
        BY <1>1, <1>3, <1>5, <4>1, AheadSame
      <4>q. QED
        BY <1>1, <4>2 DEF Coming
    <3>4. Fresh(s)' = Fresh(s) /\ (Flushed(s)' <=> Flushed(s)) /\ (Full(s)' <=> Full(s))
      BY <1>1, <1>2, <1>3, <2>1 DEF Fresh, Flushed, Full
    <3>5. HeldInv(s)' /\ FlushedInv(s)'
      BY <1>1, <1>3, <3>2, <3>3, <3>4, SameFrames DEF HeldInv, FlushedInv
    <3>6. FinishedInv(s)'
      <4>1. window' = window /\ \A f : Pts(f)' = Pts(f) /\ (CutShort(f)' <=> CutShort(f))
        BY <1>3, SameGiven, SameFrames
      <4>2. CASE s = Of(next)
        <5>1. finished'[s] = PastEnd(next)
          BY <1>3, <1>5, <3>1, <4>2 DEF TypeInv
        <5>2. ASSUME PastEnd(next), NEW f \in Ahead(s)
              PROVE  Pts(f) > window.end \/ CutShort(f)
          <6>1. Of(f) = Of(next) /\ f \in Frames /\ (next < f \/ f = next)
            BY <4>2 DEF Ahead
          <6>2. window.end # NoTime /\ window.end \in Int /\ EndStamp(next) > window.end
            BY <1>4, <5>2 DEF PastEnd
          <6>3. /\ Pts(next) \in Int /\ Pts(f) \in Int /\ Dts(next) \in Time
                /\ Known(Dts(next)) => Dts(next) <= Pts(f)
            <7>1. next <= f
              BY <1>4, <6>1
            <7>q. QED
              BY <1>3, <1>4, <6>1, <7>1, FileFacts
          <6>4. CASE Known(Dts(next))
            BY <6>2, <6>3, <6>4 DEF EndStamp, Known, Time
          <6>5. CASE ~ Known(Dts(next))
            BY <1>4, <6>1, <6>2, <6>5 DEF EndStamp, CutShort
          <6>q. QED
            BY <6>4, <6>5
        <5>q. QED
          BY <3>3, <4>1, <5>1, <5>2 DEF FinishedInv, PastEnd
      <4>3. CASE s # Of(next)
        <5>1. finished'[s] = finished[s]
          BY <1>3, <1>5, <3>1, <4>3 DEF TypeInv
        <5>q. QED
          BY <3>2, <3>3, <4>1, <5>1 DEF FinishedInv
      <4>q. QED
        BY <4>2, <4>3
    <3>q. QED
      BY <1>1, <1>3, <3>1, <3>3, <3>4, <3>5, <3>6, StreamKept
  <2>5. PhaseInv'
    <3>1. Demuxing /\ ~ Flushing' /\ pc' = "send"
      BY <1>1, <1>5, <2>1 DEF Demuxing, Flushing
    <3>2. \A s : HasOutput(s)' <=> HasOutput(s)
      BY <1>1 DEF HasOutput
    <3>3. next' \in Frames' /\ Of(next)' = current'
      BY <1>3, <1>4, <1>5, SameFrames
    <3>q. QED
      BY <1>1, <1>2, <1>3, <1>5, <2>1, <2>4, <3>1, <3>2, <3>3 DEF PhaseInv
  <2>q. QED
    BY <1>3, <2>2, <2>3, <2>4, <2>5 DEF IInv, LoopInv
<1>6. CASE /\ ~ (Of(next) \in Chosen /\ ~ finished[Of(next)])
           /\ next' = next + 1 /\ UNCHANGED <<finished, pc, current, all>>
  <2>1. ~ Collecting' /\ Busy'
    BY <1>1, <1>6 DEF Collecting, Busy, Demuxing
  <2>2. TypeInv'
    BY <1>1, <1>3, <1>4, <1>6 DEF TypeInv, Injective
  <2>3. PlanInv' /\ EarlyInv'
    <3>1. AtStream' => current' \in Chosen
      BY <1>2, <1>6, BusyFacts DEF AtStream
    <3>q. QED
      BY <1>1, <1>2, <1>3, <1>6, <2>1, <3>1, LoopKept
  <2>4. ASSUME NEW s \in Chosen
        PROVE  /\ StreamInv(s)' /\ (s \in Audio => SoundInv(s)')
               /\ Full(s)' <=> Full(s)
    <3>1. s \in Streams /\ StreamInv(s) /\ (s \in Audio => SoundInv(s))
      BY <1>2, BusyFacts
    <3>2. /\ HeldInv(s) /\ FlushedInv(s) /\ FinishedInv(s)
      BY <3>1 DEF StreamInv
    <3>3. ~ Sent /\ ~ Sent'
      BY <1>2, <2>1 DEF Sent
    <3>4. Ahead(s)' \subseteq Ahead(s) /\ Ahead(s) \subseteq Ahead(s)' \union {next}
      <4>1. \A f : Of(f)' = Of(f)
        BY <1>3, SameFrames
      <4>2. \A f \in Frames : f \in Nat
        BY <1>4
      <4>q. QED
        BY <1>1, <1>3, <1>4, <1>6, <3>3, <4>1, <4>2 DEF Ahead
    <3>5. Fresh(s)' = Fresh(s) /\ (Flushed(s)' <=> Flushed(s)) /\ (Full(s)' <=> Full(s))
      BY <1>1, <1>2, <1>3, <2>1 DEF Fresh, Flushed, Full
    <3>6. HeldInv(s)' /\ FlushedInv(s)' /\ FinishedInv(s)'
      <4>1. /\ window' = window
            /\ \A f : Pts(f)' = Pts(f) /\ Of(f)' = Of(f) /\ (CutShort(f)' <=> CutShort(f))
        BY <1>3, SameGiven, SameFrames
      <4>q. QED
        BY <1>1, <1>6, <3>2, <3>4, <3>5, <4>1 DEF HeldInv, FlushedInv, FinishedInv
    <3>7. Coming(s)' \subseteq Coming(s)
      BY <1>1, <3>4 DEF Coming
    <3>8. ASSUME NEW f \in Coming(s) PROVE f \in Coming(s)' \/ ~ InWindow(f) \/ CutShort(f)
      <4>1. f \in Coming(s)' \/ (f = next /\ f \in Ahead(s))
        BY <1>1, <3>4 DEF Coming
      <4>2. ASSUME f = next, f \in Ahead(s) PROVE ~ InWindow(f) \/ CutShort(f)
        <5>1. finished[s]
          BY <1>6, <4>2 DEF Ahead
        <5>2. /\ window.end \in Int /\ window.end # NoTime /\ Pts(f) \in Int
              /\ Pts(f) > window.end \/ CutShort(f)
          BY <1>3, <1>4, <3>2, <4>2, <5>1, FileFacts DEF FinishedInv
        <5>q. QED
          BY <5>2 DEF InWindow
      <4>q. QED
        BY <4>1, <4>2
    <3>q. QED
      BY <1>1, <1>3, <3>1, <3>5, <3>6, <3>7, <3>8, StreamKept
  <2>5. PhaseInv'
    <3>1. Demuxing /\ ~ Flushing' /\ pc' = "demux" /\ ~ AtPacket'
      BY <1>1, <1>6, <2>1 DEF Demuxing, Flushing, AtPacket
    <3>2. \A s : HasOutput(s)' <=> HasOutput(s)
      BY <1>1 DEF HasOutput
    <3>q. QED
      BY <1>1, <1>2, <1>3, <1>6, <2>1, <2>4, <3>1, <3>2 DEF PhaseInv
  <2>q. QED
    BY <1>3, <2>2, <2>3, <2>4, <2>5 DEF IInv, LoopInv
<1>q. QED
  <2>1. IF Of(next) \in Chosen /\ ~ finished[Of(next)]
        THEN /\ finished' = [finished EXCEPT ![Of(next)] = PastEnd(next)]
             /\ pc' = "send" /\ current' = Of(next) /\ all' = <<>> /\ UNCHANGED next
        ELSE next' = next + 1 /\ UNCHANGED <<finished, pc, current, all>>
    BY DEF ReadPacket
  <2>q. QED
    BY <1>5, <1>6, <2>1

LEMMA SendStep == ASSUME IInv, Send PROVE IInv'
<1>1. /\ pc = "send" /\ held' = [held EXCEPT ![current] = @ \union {next}]
      /\ pc' = "receive" /\ mode' = "packet" /\ frames' = <<>>
      /\ UNCHANGED settled
      /\ UNCHANGED <<next, finished, draining, graph, rows, decoded, start, current, kept, all>>
  BY DEF Send, Receives
<1>2. Busy /\ ~ Collecting /\ ~ Sent /\ AtStream /\ Demuxing /\ AtPacket
  BY <1>1 DEF Busy, Demuxing, Collecting, Sent, AtStream, AtPacket
<1>3. Busy' /\ Collecting' /\ Sent' /\ Demuxing' /\ ~ Flushing' /\ AtPacket'
  BY <1>1 DEF Busy, Demuxing, Collecting, Sent, Flushing, AtPacket
<1>4. /\ TypeInv /\ PhaseInv /\ UNCHANGED given /\ current \in Chosen /\ current \in Streams
      /\ UNCHANGED <<asked, packets, header, direct, order, plan, capacity>>
      /\ Chosen' = Chosen /\ Frames' = Frames /\ View' = View
  BY <1>1, <1>2, BusyFacts, SameSettled
<1>5. next \in Frames /\ Of(next) = current /\ next \in Nat /\ \A s \in Chosen : ~ draining[s]
  BY <1>2, <1>4, FileFacts DEF PhaseInv
<1>6. /\ held'[current] = held[current] \union {next}
      /\ \A s \in Streams : s # current => held'[s] = held[s]
      /\ held' \in [Streams -> SUBSET Frames]
  BY <1>1, <1>4, <1>5 DEF TypeInv
<1>7. TypeInv'
  BY <1>1, <1>4, <1>6 DEF TypeInv, Injective
<1>8. PlanInv' /\ EarlyInv'
  BY <1>1, <1>2, <1>3, <1>4, <1>6, LoopKept
<1>9. ASSUME NEW s \in Chosen, s # current
      PROVE  /\ StreamInv(s)' /\ (s \in Audio => SoundInv(s)')
             /\ (Full(s)' <=> Full(s)) /\ (HasOutput(s)' <=> HasOutput(s))
  <2>1. s \in Streams /\ StreamInv(s) /\ (s \in Audio => SoundInv(s))
    BY <1>2, BusyFacts
  <2>2. ~ Touched(s) /\ ~ Touched(s)'
    BY <1>1, <1>9 DEF Touched
  <2>3. Ahead(s)' = Ahead(s)
    BY <1>1, <1>4, <1>5, <1>9, AheadSame
  <2>q. QED
    BY <1>1, <1>4, <1>6, <1>9, <2>1, <2>2, <2>3, OtherKept
<1>10. ASSUME NEW s, s = current PROVE StreamInv(s)' /\ (s \in Audio => SoundInv(s)')
  <2>1. StreamInv(s) /\ (s \in Audio => SoundInv(s)) /\ HeldInv(s) /\ FinishedInv(s)
    BY <1>2, <1>4, <1>10, BusyFacts DEF StreamInv
  <2>2. /\ Ahead(s)' = {f \in Frames : Of(f) = s /\ f > next}
        /\ Ahead(s) = {f \in Frames : Of(f) = s /\ (f > next \/ f = next)}
    <3>1. \A f : Of(f)' = Of(f)
      BY <1>4, SameFrames
    <3>q. QED
      BY <1>1, <1>2, <1>3, <1>4, <1>5, <1>10, <3>1 DEF Ahead
  <2>3. Coming(s)' = Coming(s)
    <3>1. Ahead(s) = Ahead(s)' \union {next}
      BY <1>5, <1>10, <2>2
    <3>q. QED
      BY <1>6, <1>10, <3>1 DEF Coming
  <2>4. HeldInv(s)'
    <3>1. \A f \in held'[s] : Of(f) = s
      BY <1>5, <1>6, <1>10, <2>1 DEF HeldInv
    <3>2. \A f \in held'[s], p \in Ahead(s)' : f < p
      BY <1>6, <1>10, <2>1, <2>2 DEF HeldInv
    <3>q. QED
      BY <1>1, <1>4, <3>1, <3>2, SameFrames DEF HeldInv
  <2>5. FinishedInv(s)' /\ FlushedInv(s)'
    <3>1. window' = window /\ \A f : Pts(f)' = Pts(f) /\ (CutShort(f)' <=> CutShort(f))
      BY <1>4, SameGiven, SameFrames
    <3>q. QED
      BY <1>1, <1>4, <1>5, <1>10, <2>1, <2>2, <3>1 DEF FinishedInv, FlushedInv, Flushed
  <2>6. Fresh(s)' = Fresh(s)
    BY <1>1, <1>2, <1>3 DEF Fresh
  <2>q. QED
    BY <1>1, <1>4, <1>10, <2>1, <2>3, <2>4, <2>5, <2>6, StreamKept
<1>11. PhaseInv'
  <2>1. next' \in Frames' /\ Of(next)' = current'
    BY <1>1, <1>4, <1>5, SameFrames
  <2>2. \A s \in Chosen : Full(s) \/ ~ HasOutput(s)
    BY <1>2, <1>4 DEF PhaseInv
  <2>3. \A s \in Chosen : (s = current' /\ Collecting') \/ Full(s)' \/ ~ HasOutput(s)'
    BY <1>1, <1>3, <1>9, <2>2
  <2>4. \A s \in Chosen' : ~ draining'[s] /\ ((s = current' /\ Collecting') \/ Full(s)' \/ ~ HasOutput(s)')
    BY <1>1, <1>4, <1>5, <2>3
  <2>5. ~ Flushing' /\ pc' = "receive" /\ mode' = "packet"
    BY <1>1, <1>3
  <2>q. QED
    BY <2>1, <2>4, <2>5 DEF PhaseInv
<1>q. QED
  BY <1>4, <1>7, <1>8, <1>9, <1>10, <1>11 DEF IInv, LoopInv

LEMMA SendRefusedStep == ASSUME IInv, SendRefused PROVE IInv'
<1>1. /\ pc = "send" /\ HasOutput(current)
      /\ pc' = "receive" /\ mode' = "refused" /\ frames' = <<>>
      /\ UNCHANGED settled
      /\ UNCHANGED <<next, finished, held, draining, graph, rows, decoded, start, current, kept, all>>
  BY DEF SendRefused, Receives, media
<1>2. Busy /\ ~ Collecting /\ ~ Sent /\ AtStream /\ Demuxing /\ AtPacket
  BY <1>1 DEF Busy, Demuxing, Collecting, Sent, AtStream, AtPacket
<1>3. Busy' /\ Collecting' /\ ~ Sent' /\ Demuxing' /\ ~ Flushing' /\ AtPacket'
  BY <1>1 DEF Busy, Demuxing, Collecting, Sent, Flushing, AtPacket
<1>4. /\ TypeInv /\ PhaseInv /\ UNCHANGED given /\ current \in Chosen /\ current \in Streams
      /\ UNCHANGED <<asked, packets, header, direct, order, plan, capacity>>
      /\ Chosen' = Chosen /\ Frames' = Frames /\ View' = View
  BY <1>1, <1>2, BusyFacts, SameSettled
<1>5. next \in Frames /\ Of(next) = current /\ \A s \in Chosen : ~ draining[s]
  BY <1>2, <1>4 DEF PhaseInv
<1>6. Full(current)
  BY <1>1, <1>2, <1>4 DEF PhaseInv
<1>7. TypeInv'
  BY <1>1, <1>4 DEF TypeInv, Injective
<1>8. PlanInv' /\ EarlyInv'
  BY <1>1, <1>2, <1>3, <1>4, LoopKept
<1>9. ASSUME NEW s \in Chosen
      PROVE  /\ StreamInv(s)' /\ (s \in Audio => SoundInv(s)')
             /\ (Full(s)' <=> Full(s)) /\ (HasOutput(s)' <=> HasOutput(s))
  <2>1. s \in Streams /\ StreamInv(s) /\ (s \in Audio => SoundInv(s)) /\ HeldInv(s) /\ FinishedInv(s)
    BY <1>2, BusyFacts DEF StreamInv
  <2>2. Ahead(s)' = Ahead(s)
    BY <1>1, <1>2, <1>3, <1>4, AheadSame
  <2>3. Coming(s)' = Coming(s)
    BY <1>1, <2>2 DEF Coming
  <2>4. HeldInv(s)' /\ FinishedInv(s)' /\ FlushedInv(s)'
    <3>1. /\ window' = window
          /\ \A f : Pts(f)' = Pts(f) /\ Of(f)' = Of(f) /\ (CutShort(f)' <=> CutShort(f))
      BY <1>4, SameGiven, SameFrames
    <3>2. ~ draining'[s]
      BY <1>1, <1>5
    <3>q. QED
      BY <1>1, <2>1, <2>2, <3>1, <3>2 DEF HeldInv, FinishedInv, FlushedInv, Flushed
  <2>5. Fresh(s)' = Fresh(s)
    BY <1>1, <1>2 DEF Fresh
  <2>6. HasOutput(s)' <=> HasOutput(s)
    BY <1>1 DEF HasOutput
  <2>q. QED
    BY <1>1, <1>4, <2>1, <2>3, <2>4, <2>5, <2>6, StreamKept
<1>10. PhaseInv'
  <2>1. next' \in Frames' /\ Of(next)' = current'
    BY <1>1, <1>4, <1>5, SameFrames
  <2>2. Full(current)'
    BY <1>1, <1>4, <1>6 DEF Full
  <2>q. QED
    BY <1>1, <1>2, <1>3, <1>4, <1>5, <1>9, <2>1, <2>2 DEF PhaseInv
<1>q. QED
  BY <1>4, <1>7, <1>8, <1>9, <1>10 DEF IInv, LoopInv

-------------------------------------------------------------------------------
(* The frames received and filtered.                                       *)

(* The next frame from the decoder comes before all that it holds and all  *)
(* that is still to be sent to it: those at most Reorder could overtake.   *)
LEMMA ReceivedFirst ==
  ASSUME TypeInv, NEW s \in Streams, HeldInv(s), HasOutput(s),
         NEW f \in held[s], \A g \in held[s] : Pts(f) <= Pts(g)
  PROVE  /\ f \in Frames /\ Of(f) = s /\ f \notin Ahead(s)
         /\ \A y \in Coming(s) : y # f => Pts(f) < Pts(y)
<1>1. /\ held[s] \subseteq Frames /\ Ahead(s) \subseteq Frames
      /\ \A g \in held[s] : Of(g) = s
      /\ \A g \in held[s], p \in Ahead(s) : g < p
      /\ \A p \in Ahead(s) : Of(p) = s /\ ~ draining[s]
  BY StreamTyped DEF HeldInv, Ahead
<1>2. \A g \in Frames : Pts(g) \in Int /\ g \in Nat
  BY FileFacts
<1>3. \A g, h \in Frames : Of(g) = Of(h) /\ Pts(g) = Pts(h) => g = h
  BY FileFacts
<1>4. f \notin Ahead(s)
  <2>1. f \in Nat
    BY <1>1, <1>2
  <2>q. QED
    BY <1>1, <2>1
<1>5. ASSUME NEW y \in held[s], y # f PROVE Pts(f) < Pts(y)
  <2>1. Pts(f) # Pts(y)
    BY <1>1, <1>3, <1>5
  <2>2. Pts(f) \in Int /\ Pts(y) \in Int /\ Pts(f) <= Pts(y)
    BY <1>1, <1>2
  <2>q. QED
    BY <2>1, <2>2
<1>6. ASSUME NEW y \in Ahead(s), ~ (Pts(f) < Pts(y)) PROVE FALSE
  <2>1. y \in Frames /\ f \in Frames /\ y # f /\ Of(y) = Of(f)
    BY <1>1, <1>4
  <2>2. Pts(f) \in Int /\ Pts(y) \in Int /\ Pts(f) # Pts(y)
    BY <1>2, <1>3, <2>1
  <2>3. Pts(y) < Pts(f)
    BY <1>6, <2>2
  <2>4. \A g \in held[s] : g < y /\ Of(g) = Of(y) /\ Pts(g) > Pts(y)
    BY <1>1, <1>2, <2>2, <2>3
  <2>5. Cardinality(held[s]) \in Nat /\ Cardinality(held[s]) <= Reorder
    BY <1>1, <2>1, <2>4, ReorderBound
  <2>6. Cardinality(held[s]) > Reorder
    BY <1>1 DEF HasOutput
  <2>q. QED
    BY <2>5, <2>6, PipelineAssumption
<1>q. QED
  BY <1>1, <1>4, <1>5, <1>6 DEF Coming

(* A frame written to a sound stream: its views and its start.             *)
LEMMA SoundWritten ==
  ASSUME TypeInv, UNCHANGED given, NEW s \in Streams, capacity[s] \in Nat \ {0},
         RowsInv(s), SoundInv(s), NEW f \in Frames, ~ BeforeStart(f),
         \A x \in Behind(s) : Pts(x) < Pts(f),
         Appended(s, f), Fresh(s)' = Append(Fresh(s), NewView(s, f)),
         decoded'[s] = decoded[s],
         start'[s].wrote = start[s].wrote, start'[s].output = start[s].output,
         BeginInv(s)'
  PROVE  SoundInv(s)'
<1>1. /\ Len(rows[s]) \in Nat /\ Len(rows'[s]) \in Nat /\ Len(rows[s]) <= Len(rows'[s])
      /\ \A k \in 1 .. Len(rows[s]) : rows'[s][k] = rows[s][k]
  BY RowsAppended
<1>2. DecodedInv(s)' /\ EndOf(decoded[s]) \in Nat
  BY <1>1, DecodedKept DEF SoundInv
<1>3. FreshInv(s)' /\ FreshFrom(s)' = FreshFrom(s)
  BY FreshWritten DEF SoundInv
<1>4. GapInv(s)'
  BY <1>1, <1>2, <1>3, GapKept DEF SoundInv
<1>5. WroteInv(s)'
  BY WroteAppended DEF SoundInv
<1>q. QED
  BY <1>2, <1>3, <1>4, <1>5 DEF SoundInv

(* Full for good.                                                          *)
LEMMA StaysFull ==
  ASSUME TypeInv, NEW s \in Streams, capacity[s] \in Nat, capacity'[s] = capacity[s],
         RowsInv(s), NEW f \in Frames, Appended(s, f), Full(s)
  PROVE  Full(s)'
<1>1. Len(rows[s]) \in Nat /\ Step(s) \in Nat /\ Len(rows'[s]) = Len(rows[s]) + Step(s)
  BY RowsAppended
<1>q. QED
  BY <1>1 DEF Full

(* What receiving a frame means for its stream, whatever becomes of it.    *)
LEMMA ReceiveFacts ==
  ASSUME IInv, NEW s, s = current, NEW f \in DOMAIN packets, Receive(f), UNCHANGED settled,
         next' = next, finished' = finished, draining' = draining, mode' = mode,
         pc' \in {"receive", "drain"}, current' = current
  PROVE  /\ Busy /\ Collecting /\ AtStream /\ Busy' /\ Collecting' /\ (Sent' <=> Sent)
         /\ TypeInv /\ PhaseInv
         /\ s \in Chosen /\ s \in Streams
         /\ capacity[s] \in Nat \ {0} /\ Len(rows[s]) \in Nat
         /\ mode \in {"packet", "flush"}
         /\ f \in Frames /\ Of(f) = s /\ f \in Coming(s)
         /\ held'[s] = held[s] \ {f}
         /\ held' \in [Streams -> SUBSET Frames]
         /\ \A t \in Streams : t # s => held'[t] = held[t]
         /\ \A t \in Streams : t # s => start'[t] = start[t]
         /\ start' \in [Streams -> [decoded : Time, output : Time, wrote : BOOLEAN]]
         /\ start'[s].decoded = IF start[s].decoded # NoTime
                                      THEN start[s].decoded ELSE Pts(f)
         /\ start'[s].wrote = start[s].wrote
         /\ start'[s].output = start[s].output
         /\ Ahead(s)' = Ahead(s)
         /\ Coming(s)' = Coming(s) \ {f}
         /\ HeldInv(s)' /\ FlushedInv(s)' /\ FinishedInv(s)'
         /\ \A y \in Coming(s)' : Pts(f) < Pts(y)
         /\ \A x \in Behind(s) \union InGraph(s) : Pts(x) < Pts(f)
         /\ start[s].decoded = NoTime =>
              \A x \in Coming(s) : Pts(f) <= Pts(x)
<1>1. /\ pc = "receive" /\ ~ Full(s) /\ HasOutput(s)
      /\ f \in held[s] /\ \A g \in held[s] : Pts(f) <= Pts(g)
      /\ held' = [held EXCEPT ![s] = @ \ {f}]
      /\ start' = IF start[s].decoded # NoTime THEN start
                  ELSE [start EXCEPT ![s].decoded = Pts(f)]
  BY DEF Receive
<1>2. Busy /\ Collecting /\ AtStream
  <2>1. mode \in {"packet", "refused", "flush", "graph"}
    BY DEF IInv, TypeInv
  <2>q. QED
    BY <1>1, <2>1 DEF Busy, Demuxing, Flushing, Collecting, AtStream
<1>3. Busy' /\ Collecting' /\ (Sent' <=> Sent)
  <2>1. mode \in {"packet", "refused", "flush", "graph"}
    BY DEF IInv, TypeInv
  <2>q. QED
    BY <1>2, <2>1 DEF Busy, Demuxing, Flushing, Collecting, Sent
<1>4. /\ TypeInv /\ PhaseInv /\ UNCHANGED given /\ s \in Chosen /\ s \in Streams
      /\ capacity'[s] = capacity[s] /\ Frames' = Frames /\ capacity[s] \in Nat
      /\ StreamInv(s)
  BY <1>2, BusyFacts, SameSettled
<1>5. mode \in {"packet", "flush"}
  <2>1. mode \in {"packet", "refused", "flush", "graph"}
    BY <1>4 DEF TypeInv
  <2>q. QED
    BY <1>1, <1>2, <1>4, <2>1 DEF PhaseInv
<1>6. HeldInv(s) /\ OrderInv(s) /\ FinishedInv(s)
  BY <1>4 DEF StreamInv
<1>7. /\ f \in Frames /\ Of(f) = s /\ f \notin Ahead(s) /\ f \in Coming(s)
      /\ \A y \in Coming(s) : y # f => Pts(f) < Pts(y)
  BY <1>1, <1>4, <1>6, ReceivedFirst DEF Coming
<1>8. /\ held'[s] = held[s] \ {f}
      /\ \A t \in Streams : t # s => held'[t] = held[t]
      /\ held' \in [Streams -> SUBSET Frames]
  BY <1>1, <1>4 DEF TypeInv
<1>9. /\ \A t \in Streams : t # s => start'[t] = start[t]
      /\ start' \in [Streams -> [decoded : Time, output : Time, wrote : BOOLEAN]]
      /\ start'[s].decoded = IF start[s].decoded # NoTime
                                   THEN start[s].decoded ELSE Pts(f)
      /\ start'[s].wrote = start[s].wrote
      /\ start'[s].output = start[s].output
  <2>1. start \in [Streams -> [decoded : Time, output : Time, wrote : BOOLEAN]] /\ Pts(f) \in Time
    BY <1>4, <1>7, FileFacts DEF TypeInv, Time
  <2>2. CASE start[s].decoded # NoTime
    BY <1>1, <2>1, <2>2
  <2>3. CASE start[s].decoded = NoTime
    <3>1. start' = [start EXCEPT ![s].decoded = Pts(f)]
      BY <1>1, <2>3
    <3>q. QED
      BY <1>4, <2>1, <2>3, <3>1
  <2>q. QED
    BY <2>2, <2>3
<1>10. Ahead(s)' = Ahead(s)
  BY <1>3, <1>4, AheadSame
<1>11. Coming(s)' = Coming(s) \ {f}
  BY <1>7, <1>8, <1>10 DEF Coming
<1>12. HeldInv(s)' /\ FlushedInv(s)' /\ FinishedInv(s)'
  <2>1. /\ window' = window
        /\ \A g : Pts(g)' = Pts(g) /\ Of(g)' = Of(g) /\ (CutShort(g)' <=> CutShort(g))
    BY <1>4, SameGiven, SameFrames
  <2>2. HeldInv(s)'
    BY <1>6, <1>8, <1>10, <2>1 DEF HeldInv
  <2>3. FinishedInv(s)'
    BY <1>6, <1>10, <2>1 DEF FinishedInv
  <2>4. FlushedInv(s)'
    BY <1>3 DEF FlushedInv, Flushed
  <2>q. QED
    BY <2>2, <2>3, <2>4
<1>13. /\ \A y \in Coming(s)' : Pts(f) < Pts(y)
       /\ \A x \in Behind(s) \union InGraph(s) : Pts(x) < Pts(f)
  BY <1>6, <1>7, <1>11 DEF OrderInv
<1>14. \A x \in Coming(s) : Pts(f) <= Pts(x)
  <2>1. \A x \in Coming(s) : Pts(x) \in Int /\ Pts(f) \in Int
    BY <1>4, <1>7, StreamTyped, FileFacts
  <2>q. QED
    BY <1>7, <2>1
<1>15. Len(rows[s]) \in Nat /\ capacity[s] \in Nat \ {0}
  <2>1. Len(rows[s]) \in Nat
    BY <1>4, StreamTyped, LenProperties
  <2>q. QED
    BY <1>1, <1>4, <2>1 DEF Full
<1>q. QED
  BY <1>2, <1>3, <1>4, <1>5, <1>7, <1>8, <1>9, <1>10, <1>11, <1>12, <1>13, <1>14, <1>15

(* A step of one stream.                                                   *)
LEMMA OneStep ==
  ASSUME IInv, Busy, Busy', UNCHANGED settled, TypeInv', AtStream' => current' \in Chosen,
         NEW s \in Chosen, s = current, Collecting' => current' = s,
         \A t \in Streams : t # s =>
           /\ held'[t] = held[t] /\ draining'[t] = draining[t] /\ finished'[t] = finished[t]
           /\ graph'[t] = graph[t] /\ rows'[t] = rows[t] /\ decoded'[t] = decoded[t]
           /\ start'[t] = start[t] /\ Ahead(t)' = Ahead(t),
         StreamInv(s)', s \in Audio => SoundInv(s)', PhaseInv'
  PROVE  IInv'
<1>1. /\ TypeInv /\ \A t \in Chosen : t \in Streams /\ StreamInv(t) /\ (t \in Audio => SoundInv(t))
  BY BusyFacts
<1>2. PlanInv' /\ EarlyInv'
  BY LoopKept
<1>3. ASSUME NEW t \in Chosen, t # s PROVE StreamInv(t)' /\ (t \in Audio => SoundInv(t)')
  <2>1. ~ Touched(t) /\ ~ Touched(t)'
    BY <1>3 DEF Touched
  <2>2. t \in Streams /\ StreamInv(t) /\ (t \in Audio => SoundInv(t))
    BY <1>1
  <2>q. QED
    BY <1>1, <1>3, <2>1, <2>2, OtherKept
<1>4. \A t \in Chosen : StreamInv(t)' /\ (t \in Audio => SoundInv(t)')
  BY <1>3
<1>5. Chosen' = Chosen
  BY SameSettled
<1>q. QED
  BY <1>2, <1>4, <1>5 DEF IInv, LoopInv

(* A step within the call at work.                                         *)
LEMMA CollectPhase ==
  ASSUME IInv, Busy, Collecting, Collecting', UNCHANGED settled, next' = next,
         finished' = finished, draining' = draining, mode' = mode, current' = current,
         mode # "refused", NEW s, s = current,
         \A t \in Streams : t # s => held'[t] = held[t] /\ rows'[t] = rows[t],
         mode = "graph" => pc' = "drain" /\ (held'[s] = {} \/ Full(s)'),
         pc' = "drain" => kept' <= Len(frames')
  PROVE  PhaseInv' /\ Busy'
<1>1. /\ PhaseInv /\ \A t \in Chosen : t \in Streams
  BY BusyFacts
<1>2. /\ UNCHANGED <<asked, packets, header, direct, order, plan, capacity>>
      /\ Chosen' = Chosen /\ Frames' = Frames /\ UNCHANGED given
  BY SameSettled
<1>3. (Demuxing' <=> Demuxing) /\ (Flushing' <=> Flushing) /\ Busy' /\ (AtPacket' <=> AtPacket)
  BY DEF Collecting, Demuxing, Flushing, Busy, AtPacket
<1>4. \A t \in Chosen : t # s => (Full(t)' <=> Full(t)) /\ (HasOutput(t)' <=> HasOutput(t))
  BY <1>1, <1>2 DEF Full, HasOutput
<1>5. \A t \in Chosen' :
        Demuxing' => ~ draining'[t] /\ ((t = current' /\ Collecting') \/ Full(t)' \/ ~ HasOutput(t)')
  BY <1>1, <1>2, <1>3, <1>4 DEF PhaseInv
<1>6. AtPacket' => next' \in Frames' /\ Of(next)' = current'
  BY <1>1, <1>2, <1>3, SameFrames DEF PhaseInv
<1>7. Flushing' => next' > Len(packets') \/ AllFinished'
  BY <1>1, <1>2, <1>3 DEF PhaseInv, AllFinished
<1>8. Collecting' /\ mode' \in {"flush", "graph"} =>
        /\ \A i, j \in DOMAIN order' : order'[i] = current' /\ j < i => draining'[order'[j]]
        /\ draining'[current']
  BY <1>1, <1>2 DEF PhaseInv
<1>9. pc' \in {"receive", "drain"}
  BY DEF Collecting
<1>q. QED
  BY <1>2, <1>3, <1>5, <1>6, <1>7, <1>8, <1>9 DEF PhaseInv

(* A frame is written to the stream at work.                               *)
LEMMA Writes ==
  ASSUME TypeInv, UNCHANGED given, NEW s \in Streams, s = current, current' = current,
         Collecting, Collecting', capacity[s] \in Nat, RowsInv(s), NEW f \in Frames, Write(f)
  PROVE  /\ Appended(s, f) /\ Fresh(s)' = Append(Fresh(s), NewView(s, f))
         /\ \A t \in Streams : t # s => rows'[t] = rows[t]
         /\ Behind(s)' \subseteq Behind(s) \union {f}
         /\ rows' \in [Streams -> Seq(Frames)] /\ frames' \in Seq(View)
         /\ Len(frames) <= Len(frames')
<1>1. /\ rows' = [rows EXCEPT ![s] = @ \o [i \in 1 .. Step(s) |-> f]]
      /\ frames' = Append(frames, NewView(s, f))
      /\ Fresh(s) = frames /\ Fresh(s)' = frames'
  BY DEF Write, NewView, Fresh
<1>2. Appended(s, f) /\ \A t \in Streams : t # s => rows'[t] = rows[t]
  BY <1>1 DEF Appended, TypeInv
<1>3. Behind(s)' \subseteq Behind(s) \union {f} /\ NewView(s, f) \in View
  BY <1>1, <1>2, ViewAppended
<1>4. frames' \in Seq(View) /\ Len(frames) <= Len(frames')
  <2>1. frames \in Seq(View) /\ Len(frames) \in Nat
    BY LenProperties DEF TypeInv
  <2>q. QED
    BY <1>1, <1>3, <2>1, AppendProperties
<1>5. rows' \in [Streams -> Seq(Frames)]
  <2>1. rows[s] \in Seq(Frames) /\ [i \in 1 .. Step(s) |-> f] \in Seq(Frames)
    <3>1. Step(s) \in Nat
      BY <1>2, RowsAppended
    <3>2. [i \in 1 .. Step(s) |-> f] \in [1 .. Step(s) -> Frames]
      OBVIOUS
    <3>q. QED
      BY <3>1, <3>2, SeqDef, StreamTyped
  <2>2. rows[s] \o [i \in 1 .. Step(s) |-> f] \in Seq(Frames)
    BY <2>1, ConcatProperties
  <2>q. QED
    BY <1>1, <2>2 DEF TypeInv
<1>q. QED
  BY <1>1, <1>2, <1>3, <1>4, <1>5

LEMMA ReceiveDirectStep ==
  ASSUME IInv, NEW f \in DOMAIN packets, ReceiveDirect(f)
  PROVE  IInv'
<1>. PICK s : s = current
  OBVIOUS
<1>1. /\ Receive(f) /\ s \in direct
      /\ IF Dropped(f) THEN UNCHANGED <<rows, frames>> ELSE Write(f)
      /\ UNCHANGED settled
      /\ UNCHANGED <<next, finished, draining, graph, decoded, pc, current, mode, kept, all>>
      /\ pc = "receive"
  BY DEF ReceiveDirect, Receive
<1>2. /\ Busy /\ Collecting /\ AtStream /\ Busy' /\ Collecting' /\ (Sent' <=> Sent)
      /\ TypeInv /\ PhaseInv /\ s \in Chosen /\ s \in Streams
      /\ capacity[s] \in Nat \ {0} /\ Len(rows[s]) \in Nat
      /\ mode \in {"packet", "flush"}
      /\ f \in Frames /\ Of(f) = s /\ f \in Coming(s)
      /\ held'[s] = held[s] \ {f} /\ held' \in [Streams -> SUBSET Frames]
      /\ \A t \in Streams : t # s => held'[t] = held[t]
      /\ \A t \in Streams : t # s => start'[t] = start[t]
      /\ start' \in [Streams -> [decoded : Time, output : Time, wrote : BOOLEAN]]
  BY <1>1, ReceiveFacts
<1>3. /\ start'[s].decoded = IF start[s].decoded # NoTime THEN start[s].decoded ELSE Pts(f)
      /\ start'[s].wrote = start[s].wrote /\ start'[s].output = start[s].output
      /\ Coming(s)' = Coming(s) \ {f}
      /\ HeldInv(s)' /\ FlushedInv(s)' /\ FinishedInv(s)'
      /\ \A y \in Coming(s)' : Pts(f) < Pts(y)
      /\ \A x \in Behind(s) \union InGraph(s) : Pts(x) < Pts(f)
      /\ start[s].decoded = NoTime => \A x \in Coming(s) : Pts(f) <= Pts(x)
  BY <1>1, ReceiveFacts
<1>4. /\ UNCHANGED given /\ UNCHANGED <<asked, packets, header, direct, order, plan, capacity>>
      /\ Chosen' = Chosen /\ Frames' = Frames /\ View' = View
  BY <1>1, SameSettled
<1>5. /\ StreamInv(s) /\ (s \in Audio => SoundInv(s))
      /\ OrderInv(s) /\ CompleteInv(s) /\ RowsInv(s)
  BY <1>2, BusyFacts DEF StreamInv
<1>6. graph[s] = <<>> /\ graph'[s] = <<>> /\ InGraph(s) = {} /\ InGraph(s)' = {}
  <2>1. graph[s] = <<>>
    BY <1>1, <1>5 DEF OrderInv
  <2>q. QED
    BY <1>1, <2>1 DEF InGraph
<1>7. Fresh(s) = frames /\ Fresh(s)' = frames'
  BY <1>1, <1>2 DEF Fresh
<1>8. start[s].decoded = NoTime =>
        \A x \in Behind(s) \union InGraph(s) \union Coming(s) : s \in Audio => Pts(f) <= Pts(x)
  <2>1. ASSUME start[s].decoded = NoTime, s \in Audio PROVE Behind(s) = {}
    <3>1. WroteInv(s) /\ rows[s] = <<>> /\ FreshInv(s)
      BY <1>5, <2>1 DEF SoundInv, BeginInv
    <3>2. Fresh(s) = <<>>
      BY <1>5, <2>1, <3>1 DEF WroteInv
    <3>q. QED
      BY <3>1, <3>2 DEF Behind
  <2>q. QED
    BY <1>3, <1>6, <2>1
<1>9. CASE Dropped(f)
  <2>1. UNCHANGED <<rows, frames>> /\ BeforeStart(f)
    BY <1>1, <1>9 DEF Dropped
  <2>2. TypeInv'
    BY <1>1, <1>2, <1>4, <2>1 DEF TypeInv, Injective
  <2>3. Behind(s)' = Behind(s)
    BY <1>7, <2>1 DEF Behind
  <2>4. OrderInv(s)' /\ RowsInv(s)'
    <3>1. OrderInv(s)'
      BY <1>1, <1>3, <1>4, <1>5, <2>3, OrderKept
    <3>2. RowsInv(s)'
      BY <1>4, <1>5, <2>1, RowsKept
    <3>q. QED
      BY <3>1, <3>2
  <2>5. CompleteInv(s)'
    <3>1. \A g : Delivered(s, g)' <=> Delivered(s, g)
      BY <1>4, <1>5, <2>1, RowsKept
    <3>2. ~ InWindow(f)
      BY <2>1 DEF InWindow
    <3>q. QED
      BY <1>3, <1>4, <1>5, <1>6, <3>1, <3>2, CompleteKept
  <2>6. StreamInv(s)'
    BY <1>3, <2>4, <2>5 DEF StreamInv
  <2>7. ASSUME s \in Audio PROVE SoundInv(s)'
    <3>1. SoundInv(s) /\ BeginInv(s)
      BY <1>5, <2>7 DEF SoundInv
    <3>2. Behind(s)' \union InGraph(s)' \union Coming(s)'
            \subseteq Behind(s) \union InGraph(s) \union Coming(s)
      BY <1>3, <1>6, <2>3
    <3>3. BeginInv(s)'
      BY <1>2, <1>3, <1>4, <1>6, <1>8, <2>7, <3>1, <3>2, BeginReceived
    <3>4. Fresh(s)' = Fresh(s)
      BY <1>7, <2>1
    <3>q. QED
      BY <1>1, <1>2, <1>3, <1>4, <2>1, <3>1, <3>3, <3>4, SoundKept
  <2>8. PhaseInv'
    BY <1>1, <1>2, <2>1, CollectPhase
  <2>9. \A t \in Streams : t # s => Ahead(t)' = Ahead(t)
    BY <1>1, <1>2, <1>4, AheadSame
  <2>10. current \in Chosen
    BY <1>2
  <2>q. QED
    BY <1>1, <1>2, <2>1, <2>2, <2>6, <2>7, <2>8, <2>9, <2>10, OneStep
<1>10. CASE ~ Dropped(f)
  <2>1. ~ BeforeStart(f) /\ Write(f)
    BY <1>1, <1>10 DEF Dropped
  <2>2. /\ Appended(s, f) /\ Fresh(s)' = Append(Fresh(s), NewView(s, f))
        /\ \A t \in Streams : t # s => rows'[t] = rows[t]
        /\ Behind(s)' \subseteq Behind(s) \union {f}
        /\ rows' \in [Streams -> Seq(Frames)] /\ frames' \in Seq(View)
    BY <1>1, <1>2, <1>4, <1>5, <2>1, Writes
  <2>3. TypeInv'
    BY <1>1, <1>2, <1>4, <2>2 DEF TypeInv, Injective
  <2>4. OrderInv(s)' /\ CompleteInv(s)' /\ RowsInv(s)'
    <3>1. Coming(s)' \subseteq Coming(s) /\ InGraph(s)' \subseteq InGraph(s)
          /\ Coming(s) \union InGraph(s) \subseteq Coming(s)' \union InGraph(s)' \union {f}
          /\ \A y \in Coming(s)' \union InGraph(s)' : Pts(f) < Pts(y)
      BY <1>3, <1>6
    <3>2. \A i, j \in DOMAIN graph'[s] : i < j => Pts(graph'[s][i]) < Pts(graph'[s][j])
      BY <1>6
    <3>3. \A x \in Behind(s) : Pts(x) < Pts(f)
      BY <1>3
    <3>q. QED
      BY <1>2, <1>4, <1>5, <1>6, <2>1, <2>2, <3>1, <3>2, <3>3, WriteStep
  <2>5. StreamInv(s)'
    BY <1>3, <2>4 DEF StreamInv
  <2>6. ASSUME s \in Audio PROVE SoundInv(s)'
    <3>1. SoundInv(s) /\ BeginInv(s)
      BY <1>5, <2>6 DEF SoundInv
    <3>2. Behind(s)' \union InGraph(s)' \union Coming(s)'
            \subseteq Behind(s) \union InGraph(s) \union Coming(s)
      BY <1>2, <1>3, <1>6, <2>2
    <3>3. BeginInv(s)'
      BY <1>2, <1>3, <1>4, <1>6, <1>8, <2>6, <3>1, <3>2, BeginReceived
    <3>4. \A x \in Behind(s) : Pts(x) < Pts(f)
      BY <1>3
    <3>q. QED
      BY <1>1, <1>2, <1>3, <1>4, <1>5, <2>1, <2>2, <3>1, <3>3, <3>4, SoundWritten
  <2>7. PhaseInv'
    BY <1>1, <1>2, <2>2, CollectPhase
  <2>8. \A t \in Streams : t # s => Ahead(t)' = Ahead(t)
    BY <1>1, <1>2, <1>4, AheadSame
  <2>9. current \in Chosen
    BY <1>2
  <2>q. QED
    BY <1>1, <1>2, <2>2, <2>3, <2>5, <2>6, <2>7, <2>8, <2>9, OneStep
<1>q. QED
  BY <1>9, <1>10

LEMMA ReceiveFilteredStep ==
  ASSUME IInv, NEW f \in DOMAIN packets, ReceiveFiltered(f)
  PROVE  IInv'
<1>. PICK s : s = current
  OBVIOUS
<1>1. /\ Receive(f) /\ s \notin direct
      /\ graph' = [graph EXCEPT ![s] = Append(@, f)] /\ kept' = Len(frames)
      /\ UNCHANGED settled
      /\ UNCHANGED <<next, finished, draining, rows, decoded, current, mode, frames, all>>
      /\ pc = "receive" /\ pc' = "drain"
  BY DEF ReceiveFiltered, Receive
<1>2. /\ Busy /\ Collecting /\ AtStream /\ Busy' /\ Collecting' /\ (Sent' <=> Sent)
      /\ TypeInv /\ PhaseInv /\ s \in Chosen /\ s \in Streams
      /\ capacity[s] \in Nat \ {0} /\ Len(rows[s]) \in Nat
      /\ mode \in {"packet", "flush"}
      /\ f \in Frames /\ Of(f) = s /\ f \in Coming(s)
      /\ held'[s] = held[s] \ {f} /\ held' \in [Streams -> SUBSET Frames]
      /\ \A t \in Streams : t # s => held'[t] = held[t]
      /\ \A t \in Streams : t # s => start'[t] = start[t]
      /\ start' \in [Streams -> [decoded : Time, output : Time, wrote : BOOLEAN]]
  BY <1>1, ReceiveFacts
<1>3. /\ start'[s].decoded = IF start[s].decoded # NoTime THEN start[s].decoded ELSE Pts(f)
      /\ start'[s].wrote = start[s].wrote /\ start'[s].output = start[s].output
      /\ Coming(s)' = Coming(s) \ {f}
      /\ HeldInv(s)' /\ FlushedInv(s)' /\ FinishedInv(s)'
      /\ \A y \in Coming(s)' : Pts(f) < Pts(y)
      /\ \A x \in Behind(s) \union InGraph(s) : Pts(x) < Pts(f)
      /\ start[s].decoded = NoTime => \A x \in Coming(s) : Pts(f) <= Pts(x)
  BY <1>1, ReceiveFacts
<1>4. /\ UNCHANGED given /\ UNCHANGED <<asked, packets, header, direct, order, plan, capacity>>
      /\ Chosen' = Chosen /\ Frames' = Frames /\ View' = View
  BY <1>1, SameSettled
<1>5. /\ StreamInv(s) /\ (s \in Audio => SoundInv(s))
      /\ OrderInv(s) /\ CompleteInv(s) /\ RowsInv(s)
  BY <1>2, BusyFacts DEF StreamInv
<1>6. /\ graph'[s] = Append(graph[s], f)
      /\ \A t \in Streams : t # s => graph'[t] = graph[t]
      /\ graph' \in [Streams -> Seq(Frames)]
  <2>1. graph[s] \in Seq(Frames)
    BY <1>2, StreamTyped
  <2>2. Append(graph[s], f) \in Seq(Frames)
    BY <1>2, <2>1, AppendProperties
  <2>q. QED
    BY <1>1, <1>2, <2>2 DEF TypeInv
<1>7. /\ InGraph(s)' = InGraph(s) \union {f}
      /\ \A i, j \in DOMAIN graph'[s] : i < j => Pts(graph'[s][i]) < Pts(graph'[s][j])
  <2>1. \A x \in InGraph(s) : Pts(x) < Pts(f)
    BY <1>3
  <2>q. QED
    BY <1>2, <1>4, <1>5, <1>6, <2>1, GraphFed
<1>8. Fresh(s)' = Fresh(s) /\ Behind(s)' = Behind(s)
  <2>1. Fresh(s)' = Fresh(s)
    BY <1>1, <1>2 DEF Fresh
  <2>q. QED
    BY <1>1, <2>1 DEF Behind
<1>9. TypeInv'
  <2>1. kept' \in Nat
    BY <1>1, <1>2, LenProperties DEF TypeInv
  <2>q. QED
    BY <1>1, <1>2, <1>4, <1>6, <2>1 DEF TypeInv, Injective
<1>10. OrderInv(s)'
  <2>1. /\ \A x \in Behind(s)' \union InGraph(s)' : Of(x) = s
        /\ \A x \in Behind(s)' \union InGraph(s)', y \in Coming(s)' : Pts(x) < Pts(y)
        /\ \A x \in Behind(s)', y \in InGraph(s)' : Pts(x) < Pts(y)
    BY <1>2, <1>3, <1>5, <1>7, <1>8 DEF OrderInv
  <2>2. s \notin direct'
    BY <1>1, <1>4
  <2>q. QED
    BY <1>4, <1>7, <2>1, <2>2, SameFrames DEF OrderInv
<1>11. RowsInv(s)' /\ CompleteInv(s)'
  <2>1. RowsInv(s)' /\ \A g : Delivered(s, g)' <=> Delivered(s, g)
    BY <1>1, <1>4, <1>5, RowsKept
  <2>q. QED
    BY <1>3, <1>4, <1>5, <1>7, <2>1, CompleteKept
<1>12. StreamInv(s)'
  BY <1>3, <1>10, <1>11 DEF StreamInv
<1>13. ASSUME s \in Audio PROVE SoundInv(s)'
  <2>1. SoundInv(s) /\ BeginInv(s) /\ WroteInv(s)
    BY <1>5, <1>13 DEF SoundInv
  <2>2. start[s].decoded = NoTime =>
          \A x \in Behind(s) \union InGraph(s) \union Coming(s) : Pts(f) <= Pts(x)
    <3>1. ASSUME start[s].decoded = NoTime PROVE Behind(s) = {} /\ InGraph(s) = {}
      <4>1. rows[s] = <<>> /\ graph[s] = <<>>
        BY <2>1, <3>1 DEF BeginInv
      <4>2. Fresh(s) = <<>>
        BY <2>1, <4>1 DEF WroteInv
      <4>q. QED
        BY <4>1, <4>2 DEF Behind, InGraph
    <3>q. QED
      BY <1>3, <3>1
  <2>3. Behind(s)' \union InGraph(s)' \union Coming(s)'
          \subseteq Behind(s) \union InGraph(s) \union Coming(s)
    BY <1>2, <1>3, <1>7, <1>8
  <2>4. BeginInv(s)'
    BY <1>2, <1>3, <1>4, <2>1, <2>2, <2>3, BeginReceived
  <2>q. QED
    BY <1>1, <1>2, <1>3, <1>4, <1>8, <2>1, <2>4, SoundKept
<1>14. PhaseInv'
  <2>1. kept' <= Len(frames')
    BY <1>1, <1>2, LenProperties DEF TypeInv
  <2>q. QED
    BY <1>1, <1>2, <2>1, CollectPhase
<1>15. \A t \in Streams : t # s => Ahead(t)' = Ahead(t)
  BY <1>1, <1>2, <1>4, AheadSame
<1>16. current \in Chosen
  BY <1>2
<1>q. QED
  BY <1>1, <1>2, <1>6, <1>9, <1>12, <1>13, <1>14, <1>15, <1>16, OneStep

(* Draining: what is there when a frame leaves the graph.                  *)
LEMMA DrainFacts ==
  ASSUME IInv, NEW s, s = current, pc = "drain"
  PROVE  /\ Busy /\ Collecting /\ AtStream /\ TypeInv /\ PhaseInv
         /\ s \in Chosen /\ s \in Streams /\ capacity[s] \in Nat
         /\ mode \in {"packet", "flush", "graph"}
         /\ mode = "graph" => held[s] = {} \/ Full(s)
         /\ kept <= Len(frames)
         /\ StreamInv(s) /\ (s \in Audio => SoundInv(s))
         /\ Fresh(s) = frames
<1>1. mode \in {"packet", "refused", "flush", "graph"}
  BY DEF IInv, TypeInv
<1>2. Busy /\ Collecting /\ AtStream
  BY <1>1 DEF Busy, Demuxing, Flushing, Collecting, AtStream
<1>3. /\ TypeInv /\ PhaseInv /\ s \in Chosen /\ s \in Streams /\ capacity[s] \in Nat
      /\ StreamInv(s) /\ (s \in Audio => SoundInv(s))
  BY <1>2, BusyFacts
<1>4. /\ mode \in {"packet", "flush", "graph"} /\ (mode = "graph" => held[s] = {} \/ Full(s))
      /\ kept <= Len(frames)
  BY <1>1, <1>2, <1>3 DEF PhaseInv
<1>q. QED
  BY <1>2, <1>3, <1>4 DEF Fresh

LEMMA DrainFrameStep ==
  ASSUME IInv, NEW f \in DOMAIN packets, DrainFrame(f)
  PROVE  IInv'
<1>. PICK s : s = current
  OBVIOUS
<1>1. /\ pc = "drain" /\ graph[s] # <<>> /\ f = Head(graph[s])
      /\ graph' = [graph EXCEPT ![s] = Tail(@)]
      /\ IF Dropped(f) THEN UNCHANGED <<rows, frames>> ELSE HasRoom(s) /\ Write(f)
      /\ UNCHANGED settled
      /\ UNCHANGED <<next, finished, held, draining, decoded, start, pc, current, mode, kept, all>>
  BY DEF DrainFrame, Drain
<1>2. /\ Busy /\ Collecting /\ AtStream /\ TypeInv /\ PhaseInv
      /\ s \in Chosen /\ s \in Streams /\ capacity[s] \in Nat
      /\ mode \in {"packet", "flush", "graph"} /\ (mode = "graph" => held[s] = {} \/ Full(s))
      /\ kept <= Len(frames)
      /\ StreamInv(s) /\ (s \in Audio => SoundInv(s)) /\ Fresh(s) = frames
  BY <1>1, DrainFacts
<1>3. Busy' /\ Collecting' /\ (Sent' <=> Sent)
  BY <1>1, <1>2 DEF Busy, Demuxing, Flushing, Collecting, Sent
<1>4. /\ UNCHANGED given /\ UNCHANGED <<asked, packets, header, direct, order, plan, capacity>>
      /\ Chosen' = Chosen /\ Frames' = Frames /\ View' = View
  BY <1>1, SameSettled
<1>5. HeldInv(s) /\ OrderInv(s) /\ CompleteInv(s) /\ FinishedInv(s) /\ RowsInv(s)
  BY <1>2 DEF StreamInv
<1>6. /\ graph'[s] = Tail(graph[s])
      /\ \A t \in Streams : t # s => graph'[t] = graph[t]
      /\ graph' \in [Streams -> Seq(Frames)]
  <2>1. graph[s] \in Seq(Frames)
    BY <1>2, StreamTyped
  <2>2. Tail(graph[s]) \in Seq(Frames)
    BY <1>1, <2>1, HeadTailProperties
  <2>q. QED
    BY <1>1, <1>2, <2>2 DEF TypeInv
<1>7. /\ f \in InGraph(s) /\ InGraph(s) = {f} \union InGraph(s)'
      /\ \A y \in InGraph(s)' : Pts(f) < Pts(y)
      /\ \A i, j \in DOMAIN graph'[s] : i < j => Pts(graph'[s][i]) < Pts(graph'[s][j])
      /\ s \notin direct
  BY <1>1, <1>2, <1>4, <1>5, <1>6, GraphDrained
<1>8. /\ f \in Frames /\ Of(f) = s /\ \A x \in Behind(s) : Pts(x) < Pts(f)
  BY <1>2, <1>5, <1>7, StreamTyped DEF OrderInv
<1>9. Ahead(s)' = Ahead(s) /\ Coming(s)' = Coming(s)
  <2>1. Ahead(s)' = Ahead(s)
    BY <1>1, <1>3, <1>4, AheadSame
  <2>q. QED
    BY <1>1, <2>1 DEF Coming
<1>10. HeldInv(s)' /\ FlushedInv(s)' /\ FinishedInv(s)'
  <2>1. /\ window' = window
        /\ \A g : Pts(g)' = Pts(g) /\ Of(g)' = Of(g) /\ (CutShort(g)' <=> CutShort(g))
    BY <1>4, SameGiven, SameFrames
  <2>q. QED
    BY <1>1, <1>3, <1>5, <1>9, <2>1 DEF HeldInv, FinishedInv, FlushedInv, Flushed
<1>11. \A t \in Streams : t # s => Ahead(t)' = Ahead(t)
  BY <1>1, <1>3, <1>4, AheadSame
<1>12. current \in Chosen
  BY <1>2
<1>13. s \in Audio => BeginInv(s) /\ capacity[s] \in Nat \ {0} /\ start[s].decoded # NoTime
  BY <1>1, <1>2 DEF SoundInv, BeginInv
<1>14. CASE Dropped(f)
  <2>1. UNCHANGED <<rows, frames>> /\ BeforeStart(f)
    BY <1>1, <1>14 DEF Dropped
  <2>2. TypeInv'
    BY <1>1, <1>2, <1>4, <1>6, <2>1 DEF TypeInv, Injective
  <2>3. Fresh(s)' = Fresh(s) /\ Behind(s)' = Behind(s)
    <3>1. Fresh(s)' = Fresh(s)
      BY <1>1, <1>2, <1>3, <2>1 DEF Fresh
    <3>q. QED
      BY <2>1, <3>1 DEF Behind
  <2>4. OrderInv(s)'
    <3>1. /\ \A x \in Behind(s)' \union InGraph(s)' : Of(x) = s
          /\ \A x \in Behind(s)' \union InGraph(s)', y \in Coming(s)' : Pts(x) < Pts(y)
          /\ \A x \in Behind(s)', y \in InGraph(s)' : Pts(x) < Pts(y)
      BY <1>5, <1>7, <1>9, <2>3 DEF OrderInv
    <3>2. s \notin direct'
      BY <1>4, <1>7
    <3>q. QED
      BY <1>4, <1>7, <3>1, <3>2, SameFrames DEF OrderInv
  <2>5. RowsInv(s)' /\ CompleteInv(s)' /\ (Full(s)' <=> Full(s))
    <3>1. RowsInv(s)' /\ (Full(s)' <=> Full(s)) /\ \A g : Delivered(s, g)' <=> Delivered(s, g)
      BY <1>4, <1>5, <2>1, RowsKept
    <3>2. ~ InWindow(f)
      BY <2>1 DEF InWindow
    <3>q. QED
      BY <1>4, <1>5, <1>7, <1>9, <3>1, <3>2, CompleteKept
  <2>6. StreamInv(s)'
    BY <1>10, <2>4, <2>5 DEF StreamInv
  <2>7. ASSUME s \in Audio PROVE SoundInv(s)'
    <3>1. BeginInv(s)'
      BY <1>1, <1>4, <1>7, <1>9, <1>13, <2>3, <2>7, BeginKept
    <3>q. QED
      BY <1>1, <1>2, <1>4, <2>1, <2>3, <2>7, <3>1, SoundKept
  <2>8. PhaseInv'
    BY <1>1, <1>2, <1>3, <2>1, <2>5, CollectPhase
  <2>q. QED
    BY <1>1, <1>2, <1>3, <1>6, <1>11, <1>12, <2>1, <2>2, <2>6, <2>7, <2>8, OneStep
<1>15. CASE ~ Dropped(f)
  <2>1. ~ BeforeStart(f) /\ Write(f)
    BY <1>1, <1>15 DEF Dropped
  <2>2. /\ Appended(s, f) /\ Fresh(s)' = Append(Fresh(s), NewView(s, f))
        /\ \A t \in Streams : t # s => rows'[t] = rows[t]
        /\ Behind(s)' \subseteq Behind(s) \union {f}
        /\ rows' \in [Streams -> Seq(Frames)] /\ frames' \in Seq(View)
        /\ Len(frames) <= Len(frames')
    BY <1>1, <1>2, <1>3, <1>4, <1>5, <1>8, <2>1, Writes
  <2>3. TypeInv'
    BY <1>1, <1>2, <1>4, <1>6, <2>2 DEF TypeInv, Injective
  <2>4. OrderInv(s)' /\ CompleteInv(s)' /\ RowsInv(s)'
    <3>1. \A y \in Coming(s)' \union InGraph(s)' : Pts(f) < Pts(y)
      BY <1>5, <1>7, <1>9 DEF OrderInv
    <3>2. /\ Coming(s)' \subseteq Coming(s) /\ InGraph(s)' \subseteq InGraph(s)
          /\ Coming(s) \union InGraph(s) \subseteq Coming(s)' \union InGraph(s)' \union {f}
      BY <1>7, <1>9
    <3>q. QED
      BY <1>2, <1>4, <1>5, <1>7, <1>8, <2>1, <2>2, <3>1, <3>2, WriteStep
  <2>5. StreamInv(s)'
    BY <1>10, <2>4 DEF StreamInv
  <2>6. ASSUME s \in Audio PROVE SoundInv(s)'
    <3>1. BeginInv(s)'
      <4>1. Behind(s)' \union InGraph(s)' \union Coming(s)'
              \subseteq Behind(s) \union InGraph(s) \union Coming(s)
        BY <1>7, <1>9, <2>2
      <4>q. QED
        BY <1>1, <1>4, <1>13, <2>6, <4>1, BeginKept
    <3>q. QED
      BY <1>1, <1>2, <1>4, <1>5, <1>8, <1>13, <2>1, <2>2, <2>6, <3>1, SoundWritten
  <2>7. Full(s) => Full(s)'
    BY <1>2, <1>4, <1>5, <1>8, <2>2, StaysFull
  <2>8. PhaseInv'
    <3>1. kept' <= Len(frames')
      <4>1. kept \in Nat /\ Len(frames) \in Nat /\ Len(frames') \in Nat
        BY <1>2, <2>2, LenProperties DEF TypeInv
      <4>q. QED
        BY <1>1, <1>2, <2>2, <4>1
    <3>q. QED
      BY <1>1, <1>2, <1>3, <2>2, <2>7, <3>1, CollectPhase
  <2>q. QED
    BY <1>1, <1>2, <1>3, <1>6, <1>11, <1>12, <2>2, <2>3, <2>5, <2>6, <2>8, OneStep
<1>q. QED
  BY <1>14, <1>15

-------------------------------------------------------------------------------
(* The call returns its views.                                             *)

LEMMA ReturnTyped ==
  ASSUME TypeInv, NEW s \in Streams, NEW views \in Seq(View)
  PROVE  /\ FilteredSeek(views) \in Seq(View)
         /\ decoded[s] \o FilteredSeek(views) \in Seq(View)
         /\ Written(s, views) \in [decoded : Time, output : Time, wrote : BOOLEAN]
<1> DEFINE I == {i \in DOMAIN views : InWindow(views[i].frame)}
<1>1. Len(views) \in Nat /\ DOMAIN views = 1 .. Len(views) /\ \A i \in 1 .. Len(views) : views[i] \in View
  BY LenProperties, ElementOfSeq
<1>2. I \in SUBSET (1 .. Len(views))
  BY <1>1
<1>3. FilteredSeek(views) = Picked(views, I)
  BY DEF FilteredSeek
<1> HIDE DEF I
<1>4. /\ Cardinality(I) \in Nat
      /\ \A n \in 1 .. Cardinality(I) : Nth(I, n) \in I
  BY <1>1, <1>2, NthFacts
<1>5. FilteredSeek(views) \in Seq(View)
  <2>1. [n \in 1 .. Cardinality(I) |-> views[Nth(I, n)]] \in [1 .. Cardinality(I) -> View]
    BY <1>1, <1>2, <1>4
  <2>2. FilteredSeek(views) \in [1 .. Cardinality(I) -> View]
    BY <1>3, <2>1 DEF Picked
  <2>q. QED
    BY <1>4, <2>2, SeqDef
<1>6. decoded[s] \o FilteredSeek(views) \in Seq(View)
  BY <1>5, StreamTyped, ConcatProperties
<1>7. Written(s, views) \in [decoded : Time, output : Time, wrote : BOOLEAN]
  <2>1. start[s] \in [decoded : Time, output : Time, wrote : BOOLEAN]
    BY StreamTyped
  <2>2. CASE start[s].wrote \/ views = <<>>
    BY <2>1, <2>2 DEF Written
  <2>3. CASE ~ (start[s].wrote \/ views = <<>>)
    <3>1. views[1] \in View
      BY <1>1, <2>3, EmptySeq
    <3>2. Pts(views[1].frame) \in Time
      BY <3>1, FileFacts DEF View, Time
    <3>3. Written(s, views) = [start[s] EXCEPT !.wrote = TRUE, !.output = Pts(views[1].frame)]
      BY <2>3 DEF Written
    <3>q. QED
      BY <2>1, <3>2, <3>3
  <2>q. QED
    BY <2>2, <2>3
<1>q. QED
  BY <1>5, <1>6, <1>7

(* The stream whose views are returned, all of them.                       *)
LEMMA StreamReturned ==
  ASSUME TypeInv, UNCHANGED given, NEW s \in Streams, StreamInv(s), s \in Audio => SoundInv(s),
         capacity'[s] = capacity[s], rows'[s] = rows[s], graph'[s] = graph[s],
         held'[s] = held[s], finished'[s] = finished[s], Ahead(s)' = Ahead(s),
         Fresh(s)' = <<>>, FlushedInv(s)',
         decoded'[s] = decoded[s] \o FilteredSeek(Fresh(s)),
         start'[s] = Written(s, Fresh(s))
  PROVE  StreamInv(s)' /\ (s \in Audio => SoundInv(s)') /\ (Full(s)' <=> Full(s))
<1>1. HeldInv(s) /\ OrderInv(s) /\ CompleteInv(s) /\ RowsInv(s) /\ FinishedInv(s)
  BY DEF StreamInv
<1>2. Coming(s)' = Coming(s) /\ InGraph(s)' = InGraph(s) /\ Behind(s)' \subseteq Behind(s)
  BY DEF Coming, InGraph, Behind
<1>3. HeldInv(s)' /\ FinishedInv(s)'
  <2>1. /\ window' = window
        /\ \A g : Pts(g)' = Pts(g) /\ Of(g)' = Of(g) /\ (CutShort(g)' <=> CutShort(g))
    BY SameGiven, SameFrames
  <2>q. QED
    BY <1>1, <2>1 DEF HeldInv, FinishedInv
<1>4. OrderInv(s)'
  BY <1>1, <1>2, OrderKept
<1>5. RowsInv(s)' /\ (Full(s)' <=> Full(s)) /\ \A g : Delivered(s, g)' <=> Delivered(s, g)
  BY <1>1, RowsKept
<1>6. CompleteInv(s)'
  BY <1>1, <1>2, <1>5, CompleteKept
<1>7. ASSUME s \in Audio PROVE SoundInv(s)'
  <2>1. DecodedInv(s) /\ FreshInv(s) /\ GapInv(s) /\ WroteInv(s) /\ BeginInv(s)
    BY <1>7 DEF SoundInv
  <2>2. DecodedInv(s)' /\ FreshInv(s)' /\ GapInv(s)'
    BY <1>1, <2>1, ViewsReturned
  <2>3. WroteInv(s)' /\ start'[s].decoded = start[s].decoded
    BY <2>1, WroteReturned
  <2>4. BeginInv(s)'
    BY <1>2, <2>1, <2>3, BeginKept DEF BeginInv
  <2>q. QED
    BY <2>2, <2>3, <2>4 DEF SoundInv
<1>q. QED
  BY <1>3, <1>4, <1>5, <1>6, <1>7 DEF StreamInv

(* Then the next stream is flushed.                                        *)
LEMMA NextFlushed ==
  ASSUME IInv, Busy, Collecting, mode \in {"flush", "graph"}, UNCHANGED settled, next' = next,
         finished' = finished, draining' = draining, FlushesNext
  PROVE  /\ PhaseInv' /\ Busy' /\ ~ Collecting'
         /\ AtStream' => current' \in Chosen
         /\ pc' \in {"flush", "hand_out"}
<1>1. /\ TypeInv /\ PhaseInv /\ current \in Chosen
      /\ UNCHANGED <<asked, packets, header, direct, order, plan, capacity>>
      /\ Chosen' = Chosen
  BY BusyFacts, SameSettled DEF AtStream, Collecting
<1>2. PICK i \in 1 .. Len(order) :
        /\ order[i] = current
        /\ \/ i = Len(order) /\ pc' = "hand_out" /\ current' = current
           \/ i + 1 \in 1 .. Len(order) /\ pc' = "flush" /\ current' = order[i + 1]
  BY <1>1, FlushesFacts
<1>3. /\ Len(order) \in Nat /\ DOMAIN order = 1 .. Len(order)
      /\ \A j \in 1 .. Len(order) : order[j] \in Streams /\ order[j] \in Chosen
      /\ \A j, k \in 1 .. Len(order) : order[j] = order[k] => j = k
      /\ \A s \in Chosen : \E j \in 1 .. Len(order) : order[j] = s
  BY <1>1, OrderFacts
<1>4a. Len(order) \in Nat /\ i \in 1 .. Len(order) /\ order[i] = current
  BY <1>2, <1>3
<1>4b. i \in Nat /\ i <= Len(order)
  BY ONLY <1>4a
<1>4. i \in Nat /\ i \in 1 .. Len(order) /\ order[i] = current /\ i <= Len(order)
  BY <1>4a, <1>4b
<1>5. ASSUME NEW j \in 1 .. Len(order), j <= i PROVE draining'[order[j]]
  <2>1. j < i => draining[order[j]]
    BY <1>1, <1>3, <1>4 DEF PhaseInv
  <2>2. draining[order[i]]
    BY <1>1, <1>4 DEF PhaseInv
  <2>3. j < i \/ j = i
    BY <1>4, <1>5
  <2>q. QED
    BY <2>1, <2>2, <2>3
<1>6. next' > Len(packets') \/ AllFinished'
  BY <1>1 DEF PhaseInv, Flushing, AllFinished
<1>7. pc' \in {"flush", "hand_out"}
  BY <1>2
<1>8. Busy' /\ ~ Collecting' /\ ~ Demuxing' /\ ~ AtPacket'
  BY <1>7 DEF Busy, Flushing, Collecting, Demuxing, AtPacket
<1>9. pc' = "flush" =>
        \A k, j \in DOMAIN order' : order'[k] = current' /\ j < k => draining'[order'[j]]
  <2>1. ASSUME pc' = "flush", NEW k \in 1 .. Len(order), NEW j \in 1 .. Len(order),
               order[k] = current', j < k
        PROVE  draining'[order[j]]
    <3>1. i + 1 \in 1 .. Len(order) /\ current' = order[i + 1]
      BY <1>2, <2>1
    <3>2. k = i + 1
      BY <1>3, <2>1, <3>1
    <3>3. j <= i
      BY <1>4, <2>1, <3>2
    <3>q. QED
      BY <1>5, <3>3
  <2>q. QED
    BY <1>1, <1>3, <2>1
<1>10. pc' = "hand_out" => \A s \in Chosen' : draining'[s]
  <2>1. ASSUME pc' = "hand_out", NEW s \in Chosen PROVE draining'[s]
    <3>1. i = Len(order)
      BY <1>2, <2>1
    <3>2. PICK j \in 1 .. Len(order) : order[j] = s
      BY <1>3
    <3>3. j <= i
      BY <1>3, <3>1
    <3>q. QED
      BY <1>5, <3>2, <3>3
  <2>q. QED
    BY <1>1, <2>1
<1>11. PhaseInv'
  BY <1>6, <1>7, <1>8, <1>9, <1>10 DEF PhaseInv
<1>12. pc' = "flush" => current' \in Chosen
  BY <1>2, <1>3
<1>q. QED
  BY <1>7, <1>8, <1>11, <1>12 DEF AtStream

LEMMA PacketDoneStep == ASSUME IInv, PacketDone PROVE IInv'
<1>. PICK s : s = current
  OBVIOUS
<1>1. /\ pc = "receive" /\ (Full(s) \/ ~ HasOutput(s)) /\ mode = "packet"
      /\ start' = [start EXCEPT ![s] = Written(s, frames)]
      /\ decoded' = [decoded EXCEPT ![s] = @ \o FilteredSeek(all \o frames)]
      /\ next' = next + 1 /\ pc' = "demux"
      /\ UNCHANGED settled
      /\ UNCHANGED <<finished, held, draining, graph, rows, current, mode, frames, kept, all>>
  BY DEF PacketDone, Returns, lists
<1>2. Busy /\ Collecting /\ Sent /\ AtStream /\ Demuxing
  BY <1>1 DEF Busy, Demuxing, Collecting, Sent, AtStream
<1>3. Busy' /\ ~ Collecting' /\ ~ Sent' /\ Demuxing' /\ ~ Flushing' /\ ~ AtPacket'
  BY <1>1 DEF Busy, Demuxing, Collecting, Sent, Flushing, AtPacket
<1>4. /\ UNCHANGED given /\ UNCHANGED <<asked, packets, header, direct, order, plan, capacity>>
      /\ Chosen' = Chosen /\ Frames' = Frames /\ View' = View
  BY <1>1, SameSettled
<1>5. /\ TypeInv /\ PhaseInv /\ s \in Chosen /\ s \in Streams
      /\ StreamInv(s) /\ (s \in Audio => SoundInv(s)) /\ \A t \in Chosen : ~ draining[t]
  BY <1>2, BusyFacts DEF PhaseInv
<1>6. all \o frames = frames /\ frames \in Seq(View) /\ Fresh(s) = frames
  <2>1. all = <<>> /\ frames \in Seq(View)
    BY <1>5 DEF TypeInv
  <2>q. QED
    BY <1>2, <2>1, ConcatEmptySeq DEF Fresh
<1>7. /\ start'[s] = Written(s, Fresh(s))
      /\ decoded'[s] = decoded[s] \o FilteredSeek(Fresh(s))
      /\ \A t \in Streams : t # s => decoded'[t] = decoded[t] /\ start'[t] = start[t]
      /\ decoded' \in [Streams -> Seq(View)]
      /\ start' \in [Streams -> [decoded : Time, output : Time, wrote : BOOLEAN]]
  <2>1. /\ decoded[s] \o FilteredSeek(frames) \in Seq(View)
        /\ Written(s, frames) \in [decoded : Time, output : Time, wrote : BOOLEAN]
    BY <1>5, <1>6, ReturnTyped
  <2>q. QED
    BY <1>1, <1>5, <1>6, <2>1 DEF TypeInv
<1>8. TypeInv'
  <2>1. next' \in Nat \ {0}
    BY <1>1, <1>5 DEF TypeInv
  <2>q. QED
    BY <1>1, <1>4, <1>5, <1>7, <2>1 DEF TypeInv, Injective
<1>9. \A t \in Streams : Ahead(t)' = Ahead(t)
  <2>1. Frames' = Frames /\ \A f : Of(f)' = Of(f)
    BY <1>4, SameFrames
  <2>2. next \in Nat /\ \A f \in Frames : f \in Nat
    BY <1>5, FileFacts DEF TypeInv
  <2>3. \A f \in Frames : f > next <=> (f > next + 1 \/ f = next + 1)
    BY <2>2
  <2>4. \A t \in Streams : \A f \in Frames : f \in Ahead(t)' <=> f \in Ahead(t)
    BY <1>1, <1>2, <1>3, <2>1, <2>3 DEF Ahead
  <2>5. \A t \in Streams : Ahead(t)' \subseteq Frames /\ Ahead(t) \subseteq Frames
    BY <2>1 DEF Ahead
  <2>q. QED
    BY <2>4, <2>5
<1>10. StreamInv(s)' /\ (s \in Audio => SoundInv(s)') /\ (Full(s)' <=> Full(s))
  <2>1. Fresh(s)' = <<>>
    BY <1>3 DEF Fresh
  <2>2. FlushedInv(s)'
    BY <1>1, <1>5 DEF FlushedInv, Flushed
  <2>q. QED
    BY <1>1, <1>4, <1>5, <1>7, <1>9, <2>1, <2>2, StreamReturned
<1>11. PhaseInv'
  <2>1. \A t \in Chosen : (Full(t)' <=> Full(t)) /\ (HasOutput(t)' <=> HasOutput(t))
    BY <1>1, <1>4 DEF Full, HasOutput
  <2>2. \A t \in Chosen : Full(t) \/ ~ HasOutput(t)
    BY <1>1, <1>2, <1>5 DEF PhaseInv
  <2>3. \A t \in Chosen' : ~ draining'[t] /\ (Full(t)' \/ ~ HasOutput(t)')
    BY <1>1, <1>4, <1>5, <2>1, <2>2
  <2>q. QED
    BY <1>1, <1>3, <2>3 DEF PhaseInv
<1>12. current \in Chosen
  BY <1>5
<1>q. QED
  BY <1>1, <1>2, <1>3, <1>5, <1>7, <1>8, <1>9, <1>10, <1>11, <1>12, OneStep

(* The graph has nothing more: after its flush its stream is done.         *)
LEMMA SinkEmptyStep == ASSUME IInv, SinkEmpty PROVE IInv'
<1>. PICK s : s = current
  OBVIOUS
<1>1. /\ pc = "drain" /\ (mode = "graph" => graph[s] = <<>>) /\ Drained(frames)
      /\ UNCHANGED settled
      /\ UNCHANGED <<next, finished, held, draining, graph, rows, mode, kept, all>>
  BY DEF SinkEmpty
<1>2. /\ Busy /\ Collecting /\ AtStream /\ TypeInv /\ PhaseInv
      /\ s \in Chosen /\ s \in Streams
      /\ mode \in {"packet", "flush", "graph"} /\ (mode = "graph" => held[s] = {} \/ Full(s))
      /\ StreamInv(s) /\ (s \in Audio => SoundInv(s)) /\ Fresh(s) = frames
  BY <1>1, DrainFacts
<1>3. /\ UNCHANGED given /\ UNCHANGED <<asked, packets, header, direct, order, plan, capacity>>
      /\ Chosen' = Chosen /\ Frames' = Frames /\ View' = View
  BY <1>1, SameSettled
<1>4. current \in Chosen
  BY <1>2
<1>5. CASE mode = "graph"
  <2>1. /\ start' = [start EXCEPT ![s] = Written(s, frames)]
        /\ decoded' = [decoded EXCEPT ![s] = @ \o FilteredSeek(frames)]
        /\ FlushesNext /\ frames' = frames
    BY <1>1, <1>5 DEF Drained
  <2>2. /\ decoded[s] \o FilteredSeek(frames) \in Seq(View)
        /\ Written(s, frames) \in [decoded : Time, output : Time, wrote : BOOLEAN]
    BY <1>2, ReturnTyped DEF TypeInv
  <2>3. /\ start'[s] = Written(s, Fresh(s)) /\ decoded'[s] = decoded[s] \o FilteredSeek(Fresh(s))
        /\ \A t \in Streams : t # s => decoded'[t] = decoded[t] /\ start'[t] = start[t]
        /\ decoded' \in [Streams -> Seq(View)]
        /\ start' \in [Streams -> [decoded : Time, output : Time, wrote : BOOLEAN]]
    BY <1>2, <2>1, <2>2 DEF TypeInv
  <2>4. /\ PhaseInv' /\ Busy' /\ ~ Collecting' /\ (AtStream' => current' \in Chosen)
        /\ pc' \in {"flush", "hand_out"}
    BY <1>1, <1>2, <1>5, <2>1, NextFlushed
  <2>5. TypeInv'
    BY <1>1, <1>2, <1>3, <2>1, <2>3, <2>4 DEF TypeInv, Injective
  <2>6. ~ Sent /\ ~ Sent'
    BY <1>5, <2>4 DEF Sent
  <2>7. \A t \in Streams : Ahead(t)' = Ahead(t)
    BY <1>1, <1>3, <2>6, AheadSame
  <2>8. Fresh(s)' = <<>>
    BY <2>4 DEF Fresh
  <2>9. FlushedInv(s)'
    BY <1>1, <1>2, <1>3, <1>5 DEF FlushedInv, Full
  <2>10. StreamInv(s)' /\ (s \in Audio => SoundInv(s)')
    BY <1>1, <1>2, <1>3, <2>3, <2>7, <2>8, <2>9, StreamReturned
  <2>q. QED
    BY <1>1, <1>2, <1>4, <2>3, <2>4, <2>5, <2>7, <2>10, OneStep
<1>6. CASE mode # "graph"
  <2>1. frames' = frames /\ pc' = "receive" /\ UNCHANGED <<start, decoded, current>>
    BY <1>1, <1>6 DEF Drained
  <2>2. Busy' /\ Collecting' /\ (Sent' <=> Sent)
    BY <1>1, <1>2, <2>1 DEF Busy, Demuxing, Flushing, Collecting, Sent
  <2>3. TypeInv'
    BY <1>1, <1>2, <1>3, <2>1 DEF TypeInv, Injective
  <2>4. \A t \in Streams : Ahead(t)' = Ahead(t)
    BY <1>1, <1>3, <2>2, AheadSame
  <2>5. Fresh(s)' = Fresh(s) /\ Coming(s)' = Coming(s)
    BY <1>1, <1>2, <2>1, <2>2, <2>4 DEF Fresh, Coming
  <2>6. HeldInv(s)' /\ FlushedInv(s)' /\ FinishedInv(s)'
    <3>1. /\ window' = window
          /\ \A g : Pts(g)' = Pts(g) /\ Of(g)' = Of(g) /\ (CutShort(g)' <=> CutShort(g))
      BY <1>3, SameGiven, SameFrames
    <3>2. HeldInv(s) /\ FinishedInv(s)
      BY <1>2 DEF StreamInv
    <3>q. QED
      BY <1>1, <1>2, <2>1, <2>2, <2>4, <3>1, <3>2 DEF HeldInv, FinishedInv, FlushedInv, Flushed
  <2>7. StreamInv(s)' /\ (s \in Audio => SoundInv(s)')
    BY <1>1, <1>2, <1>3, <2>1, <2>5, <2>6, StreamKept
  <2>8. PhaseInv'
    BY <1>1, <1>2, <1>6, <2>1, <2>2, CollectPhase
  <2>q. QED
    BY <1>1, <1>2, <1>4, <2>1, <2>2, <2>3, <2>4, <2>7, <2>8, OneStep
<1>q. QED
  BY <1>5, <1>6

(* The first of the views collected.                                       *)
LEMMA ViewsCut ==
  ASSUME TypeInv, kept <= Len(frames)
  PROVE  LET views == SubSeq(frames, 1, kept)
         IN /\ views \in Seq(View)
            /\ \A i \in DOMAIN views : i \in DOMAIN frames /\ views[i] = frames[i]
<1>1. frames \in Seq(View) /\ Len(frames) \in Nat /\ kept \in Nat /\ DOMAIN frames = 1 .. Len(frames)
  BY LenProperties DEF TypeInv
<1>2. 1 .. kept \subseteq 1 .. Len(frames)
  BY <1>1
<1>3. SubSeq(frames, 1, kept) = [i \in 1 .. kept |-> frames[i]]
  BY <1>1
<1>4. [i \in 1 .. kept |-> frames[i]] \in [1 .. kept -> View]
  BY <1>1, <1>2, ElementOfSeq
<1>q. QED
  BY <1>1, <1>2, <1>3, <1>4, SeqDef

(* A frame finds no room: it and what this call has written are not        *)
(* returned, but the rows have it, and nothing of the window is missing.   *)
LEMMA NoStorageAvailableStep ==
  ASSUME IInv, NEW f \in DOMAIN packets, NoStorageAvailable(f)
  PROVE  IInv'
<1>. PICK s : s = current
  OBVIOUS
<1> DEFINE views == SubSeq(frames, 1, kept)
<1>1. /\ pc = "drain" /\ graph[s] # <<>> /\ f = Head(graph[s])
      /\ graph' = [graph EXCEPT ![s] = Tail(@)] /\ ~ HasRoom(s) /\ Drained(views)
      /\ UNCHANGED settled
      /\ UNCHANGED <<next, finished, held, draining, rows, mode, kept, all>>
  BY DEF NoStorageAvailable, Drain
<1>2. /\ Busy /\ Collecting /\ AtStream /\ TypeInv /\ PhaseInv
      /\ s \in Chosen /\ s \in Streams
      /\ mode \in {"packet", "flush", "graph"} /\ kept <= Len(frames)
      /\ StreamInv(s) /\ Fresh(s) = frames
  BY <1>1, DrainFacts
<1>3. /\ UNCHANGED given /\ UNCHANGED <<asked, packets, header, direct, order, plan, capacity>>
      /\ Chosen' = Chosen /\ Frames' = Frames /\ View' = View
  BY <1>1, SameSettled
<1>4. HeldInv(s) /\ OrderInv(s) /\ CompleteInv(s) /\ FinishedInv(s) /\ RowsInv(s)
  BY <1>2 DEF StreamInv
<1>5. s \notin Audio /\ Full(s) /\ Full(s)'
  BY <1>1, <1>3 DEF HasRoom, Full
<1>6. /\ views \in Seq(View)
      /\ \A i \in DOMAIN views : i \in DOMAIN frames /\ views[i] = frames[i]
  BY <1>2, ViewsCut
<1> HIDE DEF views
<1>7. /\ graph'[s] = Tail(graph[s])
      /\ \A t \in Streams : t # s => graph'[t] = graph[t]
      /\ graph' \in [Streams -> Seq(Frames)]
  <2>1. graph[s] \in Seq(Frames)
    BY <1>2, StreamTyped
  <2>2. Tail(graph[s]) \in Seq(Frames)
    BY <1>1, <2>1, HeadTailProperties
  <2>q. QED
    BY <1>1, <1>2, <2>2 DEF TypeInv
<1>8. /\ f \in InGraph(s) /\ InGraph(s) = {f} \union InGraph(s)'
      /\ \A i, j \in DOMAIN graph'[s] : i < j => Pts(graph'[s][i]) < Pts(graph'[s][j])
      /\ s \notin direct
  BY <1>1, <1>2, <1>3, <1>4, <1>7, GraphDrained
<1>9. ASSUME Fresh(s)' \in {<<>>, views}, Ahead(s)' = Ahead(s), FlushedInv(s)'
      PROVE  StreamInv(s)'
  <2>1. Coming(s)' = Coming(s)
    BY <1>1, <1>9 DEF Coming
  <2>2. Behind(s)' \subseteq Behind(s)
    BY <1>1, <1>2, <1>6, <1>9 DEF Behind
  <2>3. OrderInv(s)'
    <3>1. /\ \A x \in Behind(s)' \union InGraph(s)' : Of(x) = s
          /\ \A x \in Behind(s)' \union InGraph(s)', y \in Coming(s)' : Pts(x) < Pts(y)
          /\ \A x \in Behind(s)', y \in InGraph(s)' : Pts(x) < Pts(y)
      BY <1>4, <1>8, <2>1, <2>2 DEF OrderInv
    <3>2. s \notin direct'
      BY <1>3, <1>8
    <3>q. QED
      BY <1>3, <1>8, <3>1, <3>2, SameFrames DEF OrderInv
  <2>4. RowsInv(s)' /\ CompleteInv(s)'
    <3>1. RowsInv(s)' /\ \A g : Delivered(s, g)' <=> Delivered(s, g)
      BY <1>1, <1>3, <1>4, RowsKept
    <3>2. Delivered(s, f)
      BY <1>4, <1>5, <1>8, FullDelivers
    <3>q. QED
      BY <1>3, <1>4, <1>8, <2>1, <3>1, <3>2, CompleteKept
  <2>5. HeldInv(s)' /\ FinishedInv(s)'
    <3>1. /\ window' = window
          /\ \A g : Pts(g)' = Pts(g) /\ Of(g)' = Of(g) /\ (CutShort(g)' <=> CutShort(g))
      BY <1>3, SameGiven, SameFrames
    <3>q. QED
      BY <1>1, <1>4, <1>9, <3>1 DEF HeldInv, FinishedInv
  <2>q. QED
    BY <1>9, <2>3, <2>4, <2>5 DEF StreamInv
<1>10. FlushedInv(s)'
  BY <1>5 DEF FlushedInv
<1>11. current \in Chosen
  BY <1>2
<1>12. CASE mode = "graph"
  <2>1. /\ start' = [start EXCEPT ![s] = Written(s, views)]
        /\ decoded' = [decoded EXCEPT ![s] = @ \o FilteredSeek(views)]
        /\ FlushesNext /\ frames' = frames
    BY <1>1, <1>12 DEF Drained
  <2>2. /\ decoded[s] \o FilteredSeek(views) \in Seq(View)
        /\ Written(s, views) \in [decoded : Time, output : Time, wrote : BOOLEAN]
    BY <1>2, <1>6, ReturnTyped
  <2>3. /\ \A t \in Streams : t # s => decoded'[t] = decoded[t] /\ start'[t] = start[t]
        /\ decoded' \in [Streams -> Seq(View)]
        /\ start' \in [Streams -> [decoded : Time, output : Time, wrote : BOOLEAN]]
    BY <1>2, <2>1, <2>2 DEF TypeInv
  <2>4. /\ PhaseInv' /\ Busy' /\ ~ Collecting' /\ (AtStream' => current' \in Chosen)
        /\ pc' \in {"flush", "hand_out"}
    BY <1>1, <1>2, <1>12, <2>1, NextFlushed
  <2>5. TypeInv'
    BY <1>1, <1>2, <1>3, <1>7, <2>1, <2>3, <2>4 DEF TypeInv, Injective
  <2>6. ~ Sent /\ ~ Sent'
    BY <1>12, <2>4 DEF Sent
  <2>7. \A t \in Streams : Ahead(t)' = Ahead(t)
    BY <1>1, <1>3, <2>6, AheadSame
  <2>8. Fresh(s)' = <<>>
    BY <2>4 DEF Fresh
  <2>9. StreamInv(s)'
    BY <1>2, <1>9, <1>10, <2>7, <2>8
  <2>q. QED
    BY <1>1, <1>2, <1>5, <1>7, <1>11, <2>3, <2>4, <2>5, <2>7, <2>9, OneStep
<1>13. CASE mode # "graph"
  <2>1. frames' = views /\ pc' = "receive" /\ UNCHANGED <<start, decoded, current>>
    BY <1>1, <1>13 DEF Drained
  <2>2. Busy' /\ Collecting' /\ (Sent' <=> Sent)
    BY <1>1, <1>2, <2>1 DEF Busy, Demuxing, Flushing, Collecting, Sent
  <2>3. TypeInv'
    BY <1>1, <1>2, <1>3, <1>6, <1>7, <2>1 DEF TypeInv, Injective
  <2>4. \A t \in Streams : Ahead(t)' = Ahead(t)
    BY <1>1, <1>3, <2>2, AheadSame
  <2>5. Fresh(s)' = views
    BY <2>1, <2>2 DEF Fresh
  <2>6. StreamInv(s)'
    BY <1>2, <1>9, <1>10, <2>4, <2>5
  <2>7. PhaseInv'
    BY <1>1, <1>2, <1>13, <2>1, <2>2, CollectPhase
  <2>q. QED
    BY <1>1, <1>2, <1>5, <1>7, <1>11, <2>1, <2>2, <2>3, <2>4, <2>6, <2>7, OneStep
<1>q. QED
  BY <1>12, <1>13

(* A decoder refuses a packet only when the tensor is full.                *)
LEMMA RefusalDoneStep == ASSUME IInv, RefusalDone PROVE IInv'
<1>. PICK s : s = current
  OBVIOUS
<1>1. /\ pc = "receive" /\ mode = "refused"
      /\ start' = [start EXCEPT ![s] = Written(s, frames)]
      /\ all' = all \o frames /\ pc' = AfterRefusal /\ mode' = "packet" /\ frames' = <<>>
      /\ UNCHANGED settled
      /\ UNCHANGED <<next, finished, held, draining, graph, rows, decoded, current, kept>>
  BY DEF RefusalDone, Returns
<1>2. Busy /\ Collecting /\ ~ Sent /\ AtStream /\ Demuxing /\ AtPacket
  BY <1>1 DEF Busy, Demuxing, Collecting, Sent, AtStream, AtPacket
<1>3. /\ TypeInv /\ PhaseInv /\ s \in Chosen /\ s \in Streams
      /\ StreamInv(s) /\ (s \in Audio => SoundInv(s)) /\ \A t \in Chosen : ~ draining[t]
  BY <1>2, BusyFacts DEF PhaseInv
<1>4. /\ UNCHANGED given /\ UNCHANGED <<asked, packets, header, direct, order, plan, capacity>>
      /\ Chosen' = Chosen /\ Frames' = Frames /\ View' = View
  BY <1>1, SameSettled
<1>5. Full(s) /\ frames = <<>> /\ next \in Frames /\ Of(next) = s
  BY <1>1, <1>2, <1>3 DEF PhaseInv
<1>6. pc' = "receive"
  BY <1>1, <1>5 DEF AfterRefusal, Resend, Skip
<1>7. start' = start /\ all' = <<>>
  <2>1. Written(s, frames) = start[s]
    BY <1>5 DEF Written
  <2>2. start' = start
    BY <1>1, <1>3, <2>1 DEF TypeInv
  <2>3. all = <<>>
    BY <1>3 DEF TypeInv
  <2>q. QED
    BY <1>1, <1>5, <2>2, <2>3
<1>8. Busy' /\ Collecting' /\ Sent' /\ Demuxing' /\ ~ Flushing'
  BY <1>1, <1>6 DEF Busy, Demuxing, Collecting, Sent, Flushing
<1>9. TypeInv'
  BY <1>1, <1>3, <1>4, <1>6, <1>7 DEF TypeInv, Injective
<1>10. /\ Ahead(s)' = Ahead(s) \ {next} /\ next \in Ahead(s)
       /\ \A t \in Streams : t # s => Ahead(t)' = Ahead(t)
  <2>1. next \in Nat /\ \A g : Of(g)' = Of(g)
    BY <1>3, <1>4, SameFrames DEF TypeInv
  <2>2. Ahead(s)' = Ahead(s) \ {next} /\ next \in Ahead(s)
    BY <1>1, <1>2, <1>3, <1>4, <1>5, <1>8, <2>1, FileFacts DEF Ahead
  <2>q. QED
    BY <1>1, <1>4, <1>5, <2>2, AheadSame
<1>11. StreamInv(s)' /\ (s \in Audio => SoundInv(s)') /\ (Full(s)' <=> Full(s))
  <2>1. HeldInv(s) /\ OrderInv(s) /\ FinishedInv(s)
    BY <1>3 DEF StreamInv
  <2>2. HeldInv(s)' /\ FlushedInv(s)' /\ FinishedInv(s)'
    <3>1. /\ window' = window
          /\ \A g : Pts(g)' = Pts(g) /\ Of(g)' = Of(g) /\ (CutShort(g)' <=> CutShort(g))
      BY <1>4, SameGiven, SameFrames
    <3>q. QED
      BY <1>1, <1>3, <1>10, <2>1, <3>1 DEF HeldInv, FinishedInv, FlushedInv, Flushed
  <2>3. Coming(s)' \subseteq Coming(s) /\ \A g \in Coming(s) : g \in Coming(s)' \/ g = next
    BY <1>1, <1>10 DEF Coming
  <2>4. Delivered(s, next)
    BY <1>5, <1>10, <2>1, FullDelivers DEF Coming
  <2>5. Fresh(s)' = Fresh(s)
    BY <1>1, <1>2, <1>5 DEF Fresh
  <2>q. QED
    BY <1>1, <1>3, <1>4, <1>7, <2>2, <2>3, <2>4, <2>5, StreamKept
<1>12. PhaseInv'
  <2>1. next' \in Frames' /\ Of(next)' = current'
    BY <1>1, <1>4, <1>5, SameFrames
  <2>2. \A t \in Chosen : t \in Streams /\ (t = s \/ Full(t) \/ ~ HasOutput(t))
    BY <1>2, <1>3, BusyFacts DEF PhaseInv
  <2>3. \A t \in Chosen : (Full(t)' <=> Full(t)) /\ (HasOutput(t)' <=> HasOutput(t))
    BY <1>1, <1>4 DEF Full, HasOutput
  <2>4. \A t \in Chosen' : ~ draining'[t]
                           /\ ((t = current' /\ Collecting') \/ Full(t)' \/ ~ HasOutput(t)')
    BY <1>1, <1>3, <1>4, <1>8, <2>2, <2>3
  <2>q. QED
    BY <1>1, <1>6, <1>8, <2>1, <2>4 DEF PhaseInv
<1>13. current \in Chosen
  BY <1>3
<1>q. QED
  BY <1>1, <1>2, <1>3, <1>7, <1>8, <1>9, <1>10, <1>11, <1>12, <1>13, OneStep

(* No packet matters any more: the flush begins.                           *)
LEMMA LoopEndsStep == ASSUME IInv, LoopEnds PROVE IInv'
<1>1. /\ pc = "demux" /\ (next > Len(packets) \/ AllFinished)
      /\ pc' = "flush" /\ current' = order[1]
      /\ UNCHANGED settled
      /\ UNCHANGED <<next, finished, held, draining, graph, rows, decoded, start, mode, frames,
                     kept, all>>
  BY DEF LoopEnds, media, lists
<1>2. Busy /\ ~ Collecting /\ AtStream
  BY <1>1 DEF Busy, Demuxing, Collecting, AtStream
<1>3. Busy' /\ ~ Collecting' /\ ~ Demuxing' /\ ~ AtPacket'
  BY <1>1 DEF Busy, Demuxing, Collecting, Flushing, AtPacket
<1>4. /\ UNCHANGED <<asked, packets, header, direct, order, plan, capacity>>
      /\ Chosen' = Chosen /\ Frames' = Frames /\ View' = View
  BY <1>1, SameSettled
<1>5. TypeInv /\ PhaseInv /\ current \in Chosen
  BY <1>2, BusyFacts
<1>6. /\ Len(order) \in Nat /\ DOMAIN order = 1 .. Len(order)
      /\ \A j \in 1 .. Len(order) : order[j] \in Chosen
      /\ \A j, k \in 1 .. Len(order) : order[j] = order[k] => j = k
      /\ \E j \in 1 .. Len(order) : order[j] = current
  BY <1>5, OrderFacts
<1>7. 1 \in 1 .. Len(order)
  BY <1>6
<1>8. TypeInv'
  BY <1>1, <1>4, <1>5 DEF TypeInv, Injective
<1>9. PlanInv' /\ EarlyInv'
  <2>1. current' \in Chosen
    BY <1>1, <1>6, <1>7
  <2>q. QED
    BY <1>1, <1>2, <1>3, <2>1, LoopKept
<1>10. \A s \in Chosen : StreamInv(s)' /\ (s \in Audio => SoundInv(s)')
  BY <1>1, <1>2, <1>3, AllKept
<1>11. PhaseInv'
  <2>1. \A i, j \in DOMAIN order' : order'[i] = current' /\ j < i => FALSE
    BY <1>1, <1>4, <1>6, <1>7
  <2>2. next' > Len(packets') \/ AllFinished'
    BY <1>1, <1>4 DEF AllFinished
  <2>q. QED
    BY <1>1, <1>3, <2>1, <2>2 DEF PhaseInv
<1>q. QED
  BY <1>4, <1>8, <1>9, <1>10, <1>11 DEF IInv, LoopInv

(* What a flushed decoder is not sent lies past the end of the window.     *)
LEMMA FlushDecoderStep == ASSUME IInv, FlushDecoder PROVE IInv'
<1>. PICK s : s = current
  OBVIOUS
<1>1. /\ pc = "flush" /\ draining' = [draining EXCEPT ![s] = TRUE]
      /\ pc' = "receive" /\ mode' = "flush" /\ frames' = <<>>
      /\ UNCHANGED settled
      /\ UNCHANGED <<next, finished, held, graph, rows, decoded, start, current, kept, all>>
  BY DEF FlushDecoder, Receives
<1>2. Busy /\ ~ Collecting /\ ~ Sent /\ AtStream /\ Flushing
  BY <1>1 DEF Busy, Flushing, Collecting, Sent, AtStream
<1>3. Busy' /\ Collecting' /\ ~ Sent' /\ Flushing' /\ ~ Demuxing' /\ ~ AtPacket'
  BY <1>1 DEF Busy, Demuxing, Collecting, Sent, Flushing, AtPacket
<1>4. /\ UNCHANGED given /\ UNCHANGED <<asked, packets, header, direct, order, plan, capacity>>
      /\ Chosen' = Chosen /\ Frames' = Frames /\ View' = View
  BY <1>1, SameSettled
<1>5. /\ TypeInv /\ PhaseInv /\ s \in Chosen /\ s \in Streams
      /\ StreamInv(s) /\ (s \in Audio => SoundInv(s))
  BY <1>2, BusyFacts
<1>6. /\ draining'[s] /\ \A t \in Streams : t # s => draining'[t] = draining[t]
      /\ \A t \in Streams : draining[t] => draining'[t]
      /\ draining' \in [Streams -> BOOLEAN]
  BY <1>1, <1>5 DEF TypeInv
<1>7. TypeInv'
  BY <1>1, <1>4, <1>5, <1>6 DEF TypeInv, Injective
<1>8. Ahead(s)' = {} /\ \A t \in Streams : t # s => Ahead(t)' = Ahead(t)
  <2>1. Ahead(s)' = {}
    BY <1>6 DEF Ahead
  <2>q. QED
    BY <1>1, <1>2, <1>3, <1>4, <1>6, <2>1, AheadSame
<1>9. ASSUME NEW f \in Ahead(s) PROVE ~ InWindow(f) \/ CutShort(f)
  <2>1. next > Len(packets) \/ AllFinished
    BY <1>2, <1>5 DEF PhaseInv
  <2>2. CASE next > Len(packets)
    <3>1. f \in 1 .. Len(packets) /\ Len(packets) \in Nat /\ next \in Nat /\ (f > next \/ f = next)
      BY <1>5, FileFacts DEF Ahead, TypeInv
    <3>q. QED
      BY ONLY <2>2, <3>1
  <2>3. CASE AllFinished
    <3>1. window.end # NoTime /\ (Pts(f) > window.end \/ CutShort(f))
      BY <1>5, <2>3 DEF AllFinished, StreamInv, FinishedInv
    <3>2. f \in Frames
      BY DEF Ahead
    <3>3. Pts(f) \in Int /\ window.end \in Int
      BY <1>5, <3>1, <3>2, FileFacts, RequestFacts
    <3>q. QED
      BY <3>1, <3>3 DEF InWindow
  <2>q. QED
    BY <2>1, <2>2, <2>3
<1>10. StreamInv(s)' /\ (s \in Audio => SoundInv(s)')
  <2>1. HeldInv(s)' /\ FlushedInv(s)' /\ FinishedInv(s)'
    <3>1. window' = window /\ \A g : Pts(g)' = Pts(g) /\ Of(g)' = Of(g)
      BY <1>4, SameGiven, SameFrames
    <3>q. QED
      BY <1>1, <1>3, <1>5, <1>8, <3>1
         DEF StreamInv, HeldInv, FinishedInv, FlushedInv, Flushed
  <2>2. /\ Coming(s)' \subseteq Coming(s)
        /\ \A g \in Coming(s) : g \in Coming(s)' \/ ~ InWindow(g) \/ CutShort(g)
    BY <1>1, <1>8, <1>9 DEF Coming
  <2>3. Fresh(s)' = Fresh(s)
    BY <1>1, <1>2 DEF Fresh
  <2>q. QED
    BY <1>1, <1>4, <1>5, <2>1, <2>2, <2>3, StreamKept
<1>11. PhaseInv'
  <2>1. \A i, j \in DOMAIN order' : order'[i] = current' /\ j < i => draining'[order'[j]]
    <3>1. \A i, j \in DOMAIN order : order[i] = current /\ j < i => draining[order[j]]
      BY <1>1, <1>5 DEF PhaseInv
    <3>2. \A j \in DOMAIN order : order[j] \in Streams
      BY <1>5, OrderFacts
    <3>q. QED
      BY <1>1, <1>4, <1>6, <3>1, <3>2
  <2>2. next' > Len(packets') \/ AllFinished'
    <3>1. next > Len(packets) \/ AllFinished
      BY <1>2, <1>5 DEF PhaseInv
    <3>q. QED
      BY <1>1, <1>4, <3>1 DEF AllFinished
  <2>3. draining'[current']
    BY <1>1, <1>6
  <2>q. QED
    BY <1>1, <1>3, <2>1, <2>2, <2>3 DEF PhaseInv
<1>12. current \in Chosen
  BY <1>5
<1>q. QED
  BY <1>1, <1>2, <1>3, <1>5, <1>6, <1>7, <1>8, <1>10, <1>11, <1>12, OneStep

(* A flushed decoder is empty, unless the tensor is full.                  *)
LEMMA DecoderFlushedStep == ASSUME IInv, DecoderFlushed PROVE IInv'
<1>. PICK s : s = current
  OBVIOUS
<1>1. /\ pc = "receive" /\ (Full(s) \/ ~ HasOutput(s)) /\ mode = "flush"
      /\ start' = [start EXCEPT ![s] = Written(s, frames)]
      /\ decoded' = [decoded EXCEPT ![s] = @ \o FilteredSeek(frames)]
      /\ frames' = <<>> /\ kept' = 0
      /\ IF s \in direct THEN FlushesNext /\ UNCHANGED mode
         ELSE pc' = "drain" /\ mode' = "graph" /\ UNCHANGED current
      /\ UNCHANGED settled
      /\ UNCHANGED <<next, finished, held, draining, graph, rows, all>>
  BY DEF DecoderFlushed, Returns
<1>2. Busy /\ Collecting /\ ~ Sent /\ AtStream /\ Flushing
  BY <1>1 DEF Busy, Flushing, Collecting, Sent, AtStream
<1>3. /\ UNCHANGED given /\ UNCHANGED <<asked, packets, header, direct, order, plan, capacity>>
      /\ Chosen' = Chosen /\ Frames' = Frames /\ View' = View
  BY <1>1, SameSettled
<1>4. /\ TypeInv /\ PhaseInv /\ s \in Chosen /\ s \in Streams
      /\ StreamInv(s) /\ (s \in Audio => SoundInv(s)) /\ draining[s] /\ Fresh(s) = frames
  BY <1>1, <1>2, BusyFacts DEF PhaseInv, Fresh
<1>5. Full(s) \/ held[s] = {}
  BY <1>1, <1>4 DEF HasOutput
<1>6. /\ decoded[s] \o FilteredSeek(frames) \in Seq(View)
      /\ Written(s, frames) \in [decoded : Time, output : Time, wrote : BOOLEAN]
  BY <1>4, ReturnTyped DEF TypeInv
<1>7. /\ start'[s] = Written(s, Fresh(s)) /\ decoded'[s] = decoded[s] \o FilteredSeek(Fresh(s))
      /\ \A t \in Streams : t # s => decoded'[t] = decoded[t] /\ start'[t] = start[t]
      /\ decoded' \in [Streams -> Seq(View)]
      /\ start' \in [Streams -> [decoded : Time, output : Time, wrote : BOOLEAN]]
  BY <1>1, <1>4, <1>6 DEF TypeInv
<1>8. ASSUME Fresh(s)' = <<>>, FlushedInv(s)', ~ Sent'
      PROVE  /\ StreamInv(s)' /\ (s \in Audio => SoundInv(s)') /\ (Full(s)' <=> Full(s))
             /\ \A t \in Streams : Ahead(t)' = Ahead(t)
  <2>1. \A t \in Streams : Ahead(t)' = Ahead(t)
    BY <1>1, <1>2, <1>3, <1>8, AheadSame
  <2>q. QED
    BY <1>1, <1>3, <1>4, <1>7, <1>8, <2>1, StreamReturned
<1>9. current \in Chosen
  BY <1>4
<1>10. CASE s \in direct
  <2>1. FlushesNext /\ mode' = mode
    BY <1>1, <1>10
  <2>2. /\ PhaseInv' /\ Busy' /\ ~ Collecting' /\ (AtStream' => current' \in Chosen)
        /\ pc' \in {"flush", "hand_out"}
    BY <1>1, <1>2, <2>1, NextFlushed
  <2>3. TypeInv'
    <3>1. frames' \in Seq(View)
      BY <1>1
    <3>q. QED
      BY <1>1, <1>3, <1>4, <1>7, <2>1, <2>2, <3>1 DEF TypeInv, Injective
  <2>4. Fresh(s)' = <<>> /\ ~ Sent'
    BY <2>2 DEF Fresh, Sent
  <2>5. FlushedInv(s)'
    <3>1. graph[s] = <<>>
      BY <1>4, <1>10 DEF StreamInv, OrderInv
    <3>q. QED
      BY <1>1, <1>3, <1>5, <3>1 DEF FlushedInv, Full
  <2>6. /\ StreamInv(s)' /\ (s \in Audio => SoundInv(s)')
        /\ \A t \in Streams : Ahead(t)' = Ahead(t)
    BY <1>8, <2>4, <2>5
  <2>q. QED
    BY <1>1, <1>2, <1>4, <1>7, <1>9, <2>2, <2>3, <2>6, OneStep
<1>11. CASE s \notin direct
  <2>1. pc' = "drain" /\ mode' = "graph" /\ current' = current
    BY <1>1, <1>11
  <2>2. Busy' /\ Collecting' /\ ~ Sent' /\ Flushing' /\ ~ Demuxing' /\ ~ AtPacket'
    BY <2>1 DEF Busy, Demuxing, Collecting, Sent, Flushing, AtPacket
  <2>3. TypeInv'
    <3>1. frames' \in Seq(View)
      BY <1>1
    <3>q. QED
      BY <1>1, <1>3, <1>4, <1>7, <2>1, <3>1 DEF TypeInv, Injective
  <2>4. Fresh(s)' = <<>> /\ FlushedInv(s)'
    BY <1>1, <2>1, <2>2 DEF Fresh, FlushedInv, Flushed
  <2>5. /\ StreamInv(s)' /\ (s \in Audio => SoundInv(s)') /\ (Full(s)' <=> Full(s))
        /\ \A t \in Streams : Ahead(t)' = Ahead(t)
    BY <1>8, <2>2, <2>4
  <2>6. PhaseInv'
    <3>1. next' > Len(packets') \/ AllFinished'
      BY <1>1, <1>2, <1>3, <1>4 DEF PhaseInv, AllFinished
    <3>2. /\ \A i, j \in DOMAIN order' : order'[i] = current' /\ j < i => draining'[order'[j]]
          /\ draining'[current']
      BY <1>1, <1>2, <1>3, <1>4, <2>1 DEF PhaseInv
    <3>3. (held[current] = {} \/ Full(current))'
      <4>1. held'[s] = {} \/ Full(s)'
        BY <1>1, <1>5, <2>5
      <4>2. current' = s
        BY <2>1
      <4>q. QED
        BY <4>1, <4>2 DEF Full
    <3>4. kept' <= Len(frames')
      BY <1>1
    <3>q. QED
      BY <2>1, <2>2, <3>1, <3>2, <3>3, <3>4 DEF PhaseInv
  <2>q. QED
    BY <1>1, <1>2, <1>4, <1>7, <1>9, <2>1, <2>2, <2>3, <2>5, <2>6, OneStep
<1>q. QED
  BY <1>10, <1>11

LEMMA HandOutStep == ASSUME IInv, HandOut PROVE IInv'
<1>1. /\ pc = "hand_out" /\ pc' = "done" /\ UNCHANGED settled
      /\ UNCHANGED <<next, finished, held, draining, graph, rows, decoded, start, current, mode,
                     frames, kept, all>>
  BY DEF HandOut, media, lists
<1>2. /\ Busy /\ ~ Collecting /\ Busy' /\ ~ Collecting' /\ ~ Demuxing' /\ ~ AtPacket' /\ ~ AtStream'
      /\ Flushing
  BY <1>1 DEF Busy, Demuxing, Flushing, Collecting, AtPacket, AtStream
<1>3. /\ UNCHANGED <<asked, packets, header, direct, order, plan, capacity>>
      /\ Chosen' = Chosen /\ Frames' = Frames /\ View' = View
  BY <1>1, SameSettled
<1>4. TypeInv /\ PhaseInv
  BY <1>2, BusyFacts
<1>5. TypeInv'
  BY <1>1, <1>3, <1>4 DEF TypeInv, Injective
<1>6. PlanInv' /\ EarlyInv'
  BY <1>1, <1>2, LoopKept
<1>7. \A s \in Chosen : StreamInv(s)' /\ (s \in Audio => SoundInv(s)')
  BY <1>1, <1>2, AllKept
<1>8. PhaseInv'
  BY <1>1, <1>2, <1>3, <1>4 DEF PhaseInv, AllFinished
<1>q. QED
  BY <1>3, <1>5, <1>6, <1>7, <1>8 DEF IInv, LoopInv

LEMMA StutterStep == ASSUME IInv, UNCHANGED vars PROVE IInv'
<1>1. /\ UNCHANGED settled
      /\ UNCHANGED <<asked, packets, header, direct, order, plan, capacity, next, finished, held,
                     draining, graph, rows, decoded, start, pc, current, mode, frames, kept, all>>
  BY DEF vars, settled
<1>2. /\ UNCHANGED given /\ Chosen' = Chosen /\ Frames' = Frames /\ View' = View /\ Limit' = Limit
      /\ window' = window
  BY <1>1, SameSettled, SameGiven DEF Limit
<1>3. TypeInv /\ PlanInv /\ EarlyInv
  BY DEF IInv
<1>4. TypeInv'
  BY <1>1, <1>2, <1>3 DEF TypeInv, Injective
<1>5. /\ (Early' <=> Early) /\ (Collecting' <=> Collecting) /\ (Demuxing' <=> Demuxing)
      /\ (Flushing' <=> Flushing) /\ (AtPacket' <=> AtPacket) /\ (AtStream' <=> AtStream)
  BY <1>1 DEF Early, Collecting, Demuxing, Flushing, AtPacket, AtStream
<1>6. (Busy' <=> Busy) /\ (Sent' <=> Sent)
  BY <1>1, <1>5 DEF Busy, Sent
<1>7. PlanInv'
  <2>1. \A s : PlanOk(s)' <=> PlanOk(s)
    BY <1>1, <1>2 DEF PlanOk
  <2>2. Known(window.start)' <=> Known(window.start)
    BY <1>2 DEF Known
  <2>q. QED
    BY <1>1, <1>2, <1>3, <1>5, <1>6, <2>1, <2>2 DEF PlanInv
<1>8. EarlyInv'
  BY <1>1, <1>2, <1>3, <1>5 DEF EarlyInv, Idle
<1>9. ASSUME Busy PROVE LoopInv'
  <2>1. /\ PhaseInv
        /\ \A s \in Chosen : s \in Streams /\ StreamInv(s) /\ (s \in Audio => SoundInv(s))
    BY <1>9, BusyFacts
  <2>2. ASSUME NEW s \in Chosen
        PROVE  /\ StreamInv(s)' /\ (s \in Audio => SoundInv(s)')
               /\ (Full(s)' <=> Full(s)) /\ (HasOutput(s)' <=> HasOutput(s))
    <3>1. Ahead(s)' = Ahead(s) /\ Fresh(s)' = Fresh(s) /\ (HasOutput(s)' <=> HasOutput(s))
      BY <1>1, <1>2, <1>5, <1>6, AheadSame DEF Fresh, HasOutput
    <3>2. Coming(s)' = Coming(s) /\ (Full(s)' <=> Full(s))
      BY <1>1, <3>1 DEF Coming, Full
    <3>3. HeldInv(s)' /\ FlushedInv(s)' /\ FinishedInv(s)'
      <4>1. \A g : Pts(g)' = Pts(g) /\ Of(g)' = Of(g) /\ (CutShort(g)' <=> CutShort(g))
        BY <1>2, SameFrames
      <4>2. HeldInv(s) /\ FlushedInv(s) /\ FinishedInv(s)
        BY <2>1 DEF StreamInv
      <4>q. QED
        BY <1>1, <1>2, <1>5, <3>1, <3>2, <4>1, <4>2
           DEF HeldInv, FinishedInv, FlushedInv, Flushed
    <3>q. QED
      BY <1>1, <1>2, <1>3, <2>1, <3>1, <3>2, <3>3, StreamKept
  <2>3. PhaseInv'
    <3>1. /\ AllFinished' <=> AllFinished
          /\ Of(next)' = Of(next)
          /\ current \in Chosen => (Full(current)' <=> Full(current))
      BY <1>1, <1>2, <2>2 DEF AllFinished, Of
    <3>2. AtStream => current \in Chosen
      BY <1>3 DEF PlanInv
    <3>3. \A s \in Chosen : (Full(s)' <=> Full(s)) /\ (HasOutput(s)' <=> HasOutput(s))
      BY <2>2
    <3>4. Collecting => AtStream
      BY DEF Collecting, AtStream
    <3>5. Full(current)' <=> Full(current)
      BY <1>1 DEF Full
    <3>q. QED
      BY <1>1, <1>2, <1>5, <2>1, <3>1, <3>3, <3>5 DEF PhaseInv
  <2>q. QED
    BY <1>2, <2>2, <2>3 DEF LoopInv
<1>q. QED
  BY <1>4, <1>6, <1>7, <1>8, <1>9 DEF IInv

LEMMA Inductive == IInv /\ [Next]_vars => IInv'
<1>1. SUFFICES ASSUME IInv, [Next]_vars PROVE IInv'
  OBVIOUS
<1>2. CASE Select
  BY <1>1, <1>2, SelectStep, NothingStep
<1>3. CASE PlanStream
  BY <1>1, <1>3, PlanStreamStep
<1>4. CASE Refuse
  BY <1>1, <1>4, EndStep DEF Refuse
<1>5. CASE HandOutPlans
  BY <1>1, <1>5, EndStep DEF HandOutPlans
<1>6. CASE Allocate
  BY <1>1, <1>6, AllocateStep
<1>7. CASE Seek
  BY <1>1, <1>7, SeekStep
<1>8. CASE ReadPacket
  BY <1>1, <1>8, ReadPacketStep
<1>9. CASE Error
  BY <1>1, <1>9, EndStep DEF Error
<1>10. CASE Send
  BY <1>1, <1>10, SendStep
<1>11. CASE SendRefused
  BY <1>1, <1>11, SendRefusedStep
<1>12. ASSUME NEW f \in DOMAIN packets,
              ReceiveDirect(f) \/ ReceiveFiltered(f) \/ DrainFrame(f) \/ NoStorageAvailable(f)
       PROVE  IInv'
  BY <1>1, <1>12, ReceiveDirectStep, ReceiveFilteredStep, DrainFrameStep, NoStorageAvailableStep
<1>13. CASE SinkEmpty
  BY <1>1, <1>13, SinkEmptyStep
<1>14. CASE PacketDone
  BY <1>1, <1>14, PacketDoneStep
<1>15. CASE RefusalDone
  BY <1>1, <1>15, RefusalDoneStep
<1>16. CASE LoopEnds
  BY <1>1, <1>16, LoopEndsStep
<1>17. CASE FlushDecoder
  BY <1>1, <1>17, FlushDecoderStep
<1>18. CASE DecoderFlushed
  BY <1>1, <1>18, DecoderFlushedStep
<1>19. CASE HandOut
  BY <1>1, <1>19, HandOutStep
<1>20. CASE Ended \/ UNCHANGED vars
  BY <1>1, <1>20, StutterStep DEF Ended
<1>q. QED
  BY <1>1, <1>2, <1>3, <1>4, <1>5, <1>6, <1>7, <1>8, <1>9, <1>10, <1>11, <1>12, <1>13, <1>14,
     <1>15, <1>16, <1>17, <1>18, <1>19, <1>20 DEF Next

-------------------------------------------------------------------------------
(* The results.                                                            *)

(* The invariant holds, whatever the file, the header, the request and     *)
(* FFmpeg's choices: in particular decode_packet never ends at "Decoder is *)
(* full but no frames could be drained".                                   *)
THEOREM DecodeInvariant == Spec => []IInv
<1>1. Init => IInv
  BY Initially
<1>2. IInv /\ [Next]_vars => IInv'
  BY Inductive
<1>q. QED
  BY <1>1, <1>2, PTL DEF Spec

(* No buffer exists before every stream selected has a plan, and no plan   *)
(* exceeds the limit of output bytes.                                      *)
LEMMA PlansFirstHolds == IInv => PlansFirst
<1>1. SUFFICES ASSUME IInv, NEW t \in Streams, capacity[t] # NoTime, NEW s \in Chosen
               PROVE  plan[s] # NoTime /\ plan[s] * Bytes[s] <= Limit
  BY DEF PlansFirst
<1>2. pc \notin {"select", "plan", "refused"}
  BY <1>1 DEF IInv, PlanInv
<1>3. PlanOk(s)
  BY <1>1, <1>2 DEF IInv, PlanInv
<1>4. NoTime \notin Nat
  BY <1>1, RequestFacts DEF IInv
<1>q. QED
  BY <1>3, <1>4 DEF PlanOk

THEOREM PlansComeFirst == Spec => []PlansFirst
<1>1. IInv => PlansFirst
  BY PlansFirstHolds
<1>q. QED
  BY <1>1, DecodeInvariant, PTL

(* At the end nothing is on its way any more.                              *)
LEMMA DoneFacts ==
  ASSUME IInv, pc = "done"
  PROVE  /\ TypeInv
         /\ \A s \in Chosen : /\ s \in Streams /\ StreamInv(s) /\ (s \in Audio => SoundInv(s))
                              /\ Fresh(s) = <<>>
                              /\ Full(s) \/ Coming(s) \union InGraph(s) = {}
<1>1. Busy /\ ~ Collecting
  BY DEF Busy, Flushing, Collecting
<1>2. ASSUME NEW s \in Chosen
      PROVE  /\ s \in Streams /\ StreamInv(s) /\ (s \in Audio => SoundInv(s))
             /\ Fresh(s) = <<>> /\ (Full(s) \/ Coming(s) \union InGraph(s) = {})
  <2>1. s \in Streams /\ StreamInv(s) /\ (s \in Audio => SoundInv(s)) /\ draining[s]
    BY <1>1, BusyFacts DEF PhaseInv
  <2>2. Ahead(s) = {} /\ Fresh(s) = <<>> /\ Flushed(s)
    BY <1>1, <2>1 DEF Ahead, Fresh, Flushed
  <2>3. Full(s) \/ (held[s] = {} /\ graph[s] = <<>>)
    BY <2>1, <2>2 DEF StreamInv, FlushedInv
  <2>q. QED
    BY <2>1, <2>2, <2>3 DEF Coming, InGraph
<1>q. QED
  BY <1>1, <1>2, BusyFacts

LEMMA WindowDeliveredHolds == IInv => WindowDelivered
<1>1. SUFFICES ASSUME IInv, pc = "done", NEW s \in Chosen
               PROVE  /\ \A f \in Frames : Of(f) = s /\ InWindow(f) => Delivered(s, f) \/ CutShort(f)
                      /\ \A k \in DOMAIN rows[s] : Of(rows[s][k]) = s /\ ~ BeforeStart(rows[s][k])
                      /\ InBlocks(s)
                      /\ Len(rows[s]) % Size(s) = 0 \/ Full(s)
                      /\ Len(rows[s]) <= capacity[s]
  BY DEF WindowDelivered
<1>2. /\ OrderInv(s) /\ CompleteInv(s) /\ RowsInv(s)
      /\ Full(s) \/ Coming(s) \union InGraph(s) = {}
  BY <1>1, DoneFacts DEF StreamInv
<1>3. \A f \in Frames : Of(f) = s /\ InWindow(f) => Delivered(s, f) \/ CutShort(f)
  BY <1>2, FullDelivers DEF CompleteInv
<1>4. \A k \in DOMAIN rows[s] : Of(rows[s][k]) = s
  BY <1>2 DEF OrderInv, Behind
<1>q. QED
  BY <1>2, <1>3, <1>4 DEF RowsInv

(* A decode that succeeds returns every frame of the window, in order and  *)
(* once, for every file, reorder depth, and choice of FFmpeg's, except the *)
(* last ones when the planned tensor is full.                              *)
THEOREM EveryFrameDelivered == Spec => []WindowDelivered
<1>1. IInv => WindowDelivered
  BY WindowDeliveredHolds
<1>q. QED
  BY <1>1, DecodeInvariant, PTL

(* Of a stream not selected there is nothing.                              *)
LEMMA Unselected ==
  ASSUME IInv, NEW s \in Streams, s \notin Chosen
  PROVE  rows[s] = <<>> /\ decoded[s] = <<>>
BY DEF IInv, EarlyInv, Idle

LEMMA AudioViewsTileHolds == IInv => AudioViewsTile
<1>1. SUFFICES ASSUME IInv, pc = "done", NEW s \in Audio
               PROVE  /\ \A i \in DOMAIN decoded[s] :
                           LET view == decoded[s][i]
                           IN /\ view.at = IF i = 1 THEN 0
                                           ELSE decoded[s][i - 1].at + decoded[s][i - 1].length
                              /\ \A k \in view.at + 1 .. view.at + view.length :
                                   rows[s][k] = view.frame
                      /\ \A k \in DOMAIN rows[s] : InWindow(rows[s][k]) =>
                           \E i \in DOMAIN decoded[s] : decoded[s][i].frame = rows[s][k]
  BY DEF AudioViewsTile
<1>2. s \in Streams
  BY PipelineAssumption
<1>3. CASE s \notin Chosen
  <2>1. rows[s] = <<>> /\ decoded[s] = <<>>
    BY <1>1, <1>2, <1>3, Unselected
  <2>q. QED
    BY <2>1
<1>4. CASE s \in Chosen
  <2>1. TypeInv /\ Fresh(s) = <<>> /\ DecodedInv(s) /\ GapInv(s)
    BY <1>1, <1>4, DoneFacts DEF SoundInv
  <2>2. FreshFrom(s) = Len(rows[s])
    BY <2>1 DEF FreshFrom
  <2>3. Len(rows[s]) \in Nat /\ DOMAIN rows[s] = 1 .. Len(rows[s]) /\ EndOf(decoded[s]) \in Nat
    <3>1. rows[s] \in Seq(Frames)
      BY <1>2, <2>1, StreamTyped
    <3>2. EndOf(decoded[s]) \in Nat
      <4>1. decoded[s] \in Seq(View)
        BY <1>2, <2>1, StreamTyped
      <4>2. CASE decoded[s] = <<>>
        BY <4>2 DEF EndOf
      <4>3. CASE decoded[s] # <<>>
        <5>1. decoded[s][Len(decoded[s])] \in View
          <6>1. Len(decoded[s]) \in 1 .. Len(decoded[s])
            BY <4>1, <4>3, LenProperties, EmptySeq
          <6>q. QED
            BY <4>1, <6>1, ElementOfSeq
        <5>q. QED
          BY <4>3, <5>1 DEF EndOf, View
      <4>q. QED
        BY <4>2, <4>3
    <3>q. QED
      BY <3>1, <3>2, LenProperties
  <2>4. ASSUME NEW k \in DOMAIN rows[s], InWindow(rows[s][k])
        PROVE  \E i \in DOMAIN decoded[s] : decoded[s][i].frame = rows[s][k]
    <3>1. k \in 1 .. EndOf(decoded[s]) \/ k \in EndOf(decoded[s]) + 1 .. Len(rows[s])
      BY <2>3
    <3>2. k \notin EndOf(decoded[s]) + 1 .. FreshFrom(s)
      BY <2>1, <2>4 DEF GapInv
    <3>q. QED
      BY <2>1, <2>2, <3>1, <3>2 DEF DecodedInv
  <2>q. QED
    BY <2>1, <2>4 DEF DecodedInv, ViewOk
<1>q. QED
  BY <1>3, <1>4

(* The views align_audio places sound with are all there, one after the    *)
(* other over the samples written up to the end of the window.             *)
THEOREM ViewsTileTheSound == Spec => []AudioViewsTile
<1>1. IInv => AudioViewsTile
  BY AudioViewsTileHolds
<1>q. QED
  BY <1>1, DecodeInvariant, PTL

LEMMA StartIsFirstSampleHolds == IInv => StartIsFirstSample
<1>1. SUFFICES ASSUME IInv, pc = "done", NEW s \in Audio, rows[s] # <<>>
               PROVE  start[s].output = Pts(rows[s][1]) /\ start[s].decoded <= start[s].output
  BY DEF StartIsFirstSample
<1>2. s \in Streams
  BY PipelineAssumption
<1>3. s \in Chosen
  BY <1>1, <1>2, Unselected
<1>4. TypeInv /\ Fresh(s) = <<>> /\ WroteInv(s) /\ BeginInv(s)
  BY <1>1, <1>3, DoneFacts DEF SoundInv
<1>5. start[s].output = Pts(rows[s][1])
  BY <1>1, <1>4 DEF WroteInv
<1>6. rows[s][1] \in Behind(s)
  <2>1. 1 \in DOMAIN rows[s]
    BY <1>1, <1>2, <1>4, StreamTyped, LenProperties, EmptySeq
  <2>q. QED
    BY <2>1 DEF Behind
<1>q. QED
  BY <1>1, <1>4, <1>5, <1>6 DEF BeginInv

(* A sound stream's output start is the timestamp of its first sample, and *)
(* no earlier than its first decoded frame.                                *)
THEOREM SoundStartsAtFirstSample == Spec => []StartIsFirstSample
<1>1. IInv => StartIsFirstSample
  BY StartIsFirstSampleHolds
<1>q. QED
  BY <1>1, DecodeInvariant, PTL
===============================================================================
