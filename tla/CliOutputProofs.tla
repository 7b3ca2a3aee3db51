---------------------------- MODULE CliOutputProofs ----------------------------
(***************************************************************************)
(* What CliOutput guarantees for every sequence of timestamps and          *)
(* durations, every offset, plan and output limit: rows and timestamps     *)
(* stay in step, views keep what they show, and the rows are frames in     *)
(* decode order, as FrameOutput promises.                                  *)
(*                                                                         *)
(* The invariant adds to the properties what is known of the row that a    *)
(* gap repeats: it holds the last frame decoded, or else the output has    *)
(* reached its limit, where no copy of it can be emitted any more.         *)
(*                                                                         *)
(* At the end, the same for the packets' timestamps before (DemuxFixup).   *)
(***************************************************************************)
EXTENDS CliOutput, DemuxFixup, SequenceTheorems, TLAPS

Syncs ==
  [skipInitialGap : BOOLEAN, nextSlot : Int, firstSlot : Int, emitted : Nat,
   history : [1 .. 3 -> Nat], lastPts : Int \union {NoPts}, lastDuration : Nat]

(* A frame lasts some time, even when its duration is not known.           *)
Spans == [at : Int, end : Int, skipped : BOOLEAN]

SpansTyped ==
  /\ spans \in Seq(Spans) /\ Len(spans) = frames
  /\ \A f \in 1 .. frames : spans[f].at < spans[f].end

TypeInv ==
  /\ sync \in Syncs
  /\ tensor \in Seq(Nat)
  /\ ptr \in Nat
  /\ pts \in Seq(Int)
  /\ previous \in Nat
  /\ grew \in BOOLEAN
  /\ \A view \in views : view.row \in 1 .. ptr
  /\ frames \in Nat
  /\ SpansTyped
  /\ phase \in {"open", "flushed", "done", "failed"}

(* Every row emitted shows a frame that was decoded.                       *)
RowsShowFrames ==
  phase # "failed" => \A row \in 1 .. ptr : tensor[row] \in 1 .. frames

(* What a gap would repeat.                                                *)
LastKept ==
  phase = "open" =>
    IF frames = 0
    THEN /\ previous = NoRow /\ ptr = 0
         /\ \A i \in 1 .. 3 : sync.history[i] = 0
    ELSE /\ previous \in 1 .. Len(tensor)
         /\ tensor[previous] = frames \/ ptr = MaxRows

IInv ==
  /\ TypeInv /\ RowsShowFrames /\ LastKept
  /\ TimestampsAreSlots /\ ViewsKeepTheirFrame /\ NeverTooEarly /\ OutputKeepsUp

-------------------------------------------------------------------------------
(* The decision.                                                           *)

(* Rounding is off by half a slot at most.                                 *)
LEMMA RoundBounds ==
  ASSUME NEW x \in Int
  PROVE  Round(x) \in Int /\ x - 10 <= 20 * Round(x) /\ 20 * Round(x) <= x + 10
<1>1. /\ x \div 20 \in Int /\ x % 20 \in 0 .. 19
      /\ x = 20 * (x \div 20) + (x % 20)
  OBVIOUS
<1> DEFINE q == x \div 20
           r == x % 20
<1>2. Round(x) = IF r < 10 \/ (r = 10 /\ q % 2 = 0) THEN q ELSE q + 1
  BY DEF Round, Slot
<1> HIDE DEF q, r
<1>3. q \in Int /\ r \in 0 .. 19 /\ x = 20 * q + r
  BY <1>1 DEF q, r
<1>4. CASE r < 10 \/ (r = 10 /\ q % 2 = 0)
  BY <1>2, <1>3, <1>4
<1>5. CASE ~ (r < 10 \/ (r = 10 /\ q % 2 = 0))
  BY <1>2, <1>3, <1>5
<1>q. QED
  BY <1>4, <1>5

(* A frame is shown until it is over, or will be within the next slot.     *)
LEMMA ShownBounds ==
  ASSUME NEW length \in Int
  PROVE  /\ Shown(length) \in Nat
         /\ length - 20 * Shown(length) <= 20
         /\ length >= 0 => length - 20 * Shown(length) <= 10
<1>1. Round(length) \in Int /\ length - 10 <= 20 * Round(length)
  BY RoundBounds
<1>q. QED
  BY <1>1 DEF Shown, Slot

(* Only copies of its predecessor start the rows of a frame that is more   *)
(* than 1.1 slots away.                                                    *)
LEMMA RepeatsBounds ==
  ASSUME NEW gap \in Int, NEW length \in Int, gap < length
  PROVE  /\ Repeats(gap, length) \in 0 .. Shown(length)
         /\ Repeats(gap, length) < Shown(length) => gap <= 20 * Repeats(gap, length) + 22
<1>1. /\ Round(gap - 12) \in Int
      /\ gap - 22 <= 20 * Round(gap - 12) /\ 20 * Round(gap - 12) <= gap - 2
  <2>1. gap - 12 \in Int
    OBVIOUS
  <2>q. QED
    BY <2>1, RoundBounds
<1>2. Shown(length) \in Nat
  BY ShownBounds
<1>3. CASE 10 * gap > 11 * Slot /\ 10 * length > 11 * Slot
  <2>1. Repeats(gap, length) = MinOf(Round(gap - 12), Shown(length))
    BY <1>3 DEF Repeats
  <2>2. Round(gap - 12) >= 0
    BY <1>1, <1>3 DEF Slot
  <2>q. QED
    BY <1>1, <1>2, <2>1, <2>2 DEF MinOf
<1>4. CASE ~ (10 * gap > 11 * Slot /\ 10 * length > 11 * Slot)
  <2>1. Repeats(gap, length) = 0
    BY <1>4 DEF Repeats
  <2>2. gap <= 22
    BY <1>4 DEF Slot
  <2>q. QED
    BY <1>2, <2>1, <2>2
<1>q. QED
  BY <1>3, <1>4

(* What a decision is made of.                                             *)
LEMMA TimesTyped ==
  ASSUME TypeInv, NEW stamp \in Timestamps, NEW duration \in Durations
  PROVE  /\ PtsOf(stamp) \in Int /\ At(PtsOf(stamp)) \in Int
         /\ LastDuration(PtsOf(stamp), duration) \in Nat
         /\ Lasting(duration) \in Nat \ {0}
<1> USE CliAssumption
<1>1. PtsOf(stamp) \in Int
  BY DEF PtsOf, TypeInv, Syncs, MaxOf, Tick
<1>2. At(PtsOf(stamp)) \in Int
  BY <1>1 DEF At, Nudged
<1>3. LastDuration(PtsOf(stamp), duration) \in Nat
  <2>1. duration \in Nat /\ sync.lastPts \in Int \union {NoPts}
    BY DEF TypeInv, Syncs
  <2>2. \A a, b \in Int : MaxOf(a - b, 2) \in Nat
    BY DEF MaxOf
  <2>q. QED
    BY <1>1, <2>1, <2>2 DEF LastDuration, Tick
<1>4. Lasting(duration) \in Nat \ {0}
  BY DEF Lasting, Slot
<1>q. QED
  BY <1>1, <1>2, <1>3, <1>4

(* What is decided about a frame, first of all that the counters agree;    *)
(* that its own rows do not begin more than 1.1 slots early; and that it   *)
(* is over a slot after the next slot begins.                              *)
Decided(d) ==
  /\ d.previous \in Nat /\ d.current \in Nat
  /\ d.sync \in Syncs
  /\ d.span \in Spans /\ d.span.at < d.span.end
  /\ d.sync.emitted = sync.emitted + d.previous + d.current
  /\ d.sync.nextSlot = d.sync.firstSlot + d.sync.emitted
  /\ d.sync.firstSlot = sync.firstSlot \/ (ptr = 0 /\ d.previous = 0)
  /\ d.span.skipped \/ d.span.end - 20 * d.sync.nextSlot <= 20

OwnRowsOnTime(d) ==
  d.span.skipped \/ d.current = 0
    \/ d.span.at <= 20 * (d.sync.firstSlot + ptr + d.previous) + 22

LEMMA PushFacts ==
  ASSUME TypeInv, TimestampsAreSlots, phase = "open",
         NEW stamp \in Timestamps, NEW duration \in Durations
  PROVE  Decided(Push(stamp, duration)) /\ OwnRowsOnTime(Push(stamp, duration))
<1> DEFINE p      == PtsOf(stamp)
           at     == At(p)
           late   == StartsLate(at)
           lasts  == Lasting(duration)
           length == IF late THEN lasts ELSE Gap(at) + lasts
           gap    == IF late THEN 0 ELSE Gap(at)
           total  == Shown(length)
           before == Repeats(gap, length)
           over   == total > MaxCopies
           shown  == IF over THEN 0 ELSE total
           ld     == LastDuration(p, duration)
           next   == (IF late THEN Round(at) ELSE sync.nextSlot) + shown
           first  == IF late THEN Round(at) ELSE sync.firstSlot
           past   == <<before, sync.history[1], sync.history[2]>>
           d      == Push(stamp, duration)
<1>1. /\ d.previous = (IF over THEN 0 ELSE before)
      /\ d.current = (IF over THEN 0 ELSE total - before)
      /\ d.span = [at |-> at, end |-> at + lasts, skipped |-> over]
      /\ d.sync = [skipInitialGap |-> sync.skipInitialGap, nextSlot |-> next,
                   firstSlot |-> first, emitted |-> sync.emitted + shown,
                   history |-> past, lastPts |-> p, lastDuration |-> ld]
  BY DEF Push
<1>2. p \in Int /\ at \in Int /\ ld \in Nat /\ lasts \in Nat \ {0}
  BY TimesTyped
<1>3. late => sync.emitted = 0
  BY DEF StartsLate
<1>4. ~ late => gap = at - sync.nextSlot * 20 /\ length = gap + lasts
  BY DEF Gap, Slot
<1>5. late => gap = 0 /\ length = lasts
  OBVIOUS
<1> HIDE DEF p, at, late, lasts, length, gap, d
<1>6. /\ sync.nextSlot \in Int /\ sync.firstSlot \in Int /\ sync.emitted \in Nat
      /\ ptr = sync.emitted /\ sync.nextSlot = sync.firstSlot + sync.emitted
      /\ \A i \in 1 .. 3 : sync.history[i] \in Nat
      /\ sync.skipInitialGap \in BOOLEAN
  BY DEF TypeInv, Syncs, TimestampsAreSlots
<1>7. gap \in Int /\ length \in Int /\ gap < length
  BY <1>2, <1>4, <1>5, <1>6
<1>8. /\ total \in Nat /\ length - 20 * total <= 20
      /\ length >= 0 => length - 20 * total <= 10
  BY <1>7, ShownBounds
<1>9. /\ before \in 0 .. total
      /\ before < total => gap <= 20 * before + 22
  BY <1>7, RepeatsBounds
<1>10. Round(at) \in Int /\ at - 10 <= 20 * Round(at)
  BY <1>2, RoundBounds
<1>11. late => before = 0
  BY <1>5 DEF Repeats, Slot
<1> HIDE DEF total, before
<1>12. past \in [1 .. 3 -> Nat]
  <2>1. before \in Nat /\ sync.history[1] \in Nat /\ sync.history[2] \in Nat
    BY <1>6, <1>8, <1>9
  <2>q. QED
    BY <2>1
<1> HIDE DEF past
<1>13. over \/ at + lasts - 20 * next <= 20
  <2>1. CASE late
    BY <1>2, <1>5, <1>8, <1>10, <2>1
  <2>2. CASE ~ late
    BY <1>2, <1>4, <1>6, <1>8, <2>2
  <2>q. QED
    BY <2>1, <2>2
<1>14. over \/ total - before = 0 \/ at <= 20 * (first + ptr + before) + 22
  <2>1. CASE late
    BY <1>2, <1>3, <1>6, <1>8, <1>9, <1>10, <1>11, <2>1
  <2>2. CASE ~ late
    BY <1>2, <1>4, <1>6, <1>8, <1>9, <2>2
  <2>q. QED
    BY <2>1, <2>2
<1>15. next \in Int /\ first \in Int /\ shown \in Nat /\ next = first + sync.emitted + shown
  BY <1>3, <1>6, <1>8, <1>10
<1>16. first = sync.firstSlot \/ (ptr = 0 /\ (over \/ before = 0))
  BY <1>3, <1>6, <1>11
<1>17. /\ d.previous \in Nat /\ d.current \in Nat
       /\ d.previous + d.current = shown
  BY <1>1, <1>8, <1>9
<1>18. over \in BOOLEAN
  OBVIOUS
<1> HIDE DEF next, first, shown, over, ld
<1>19. Decided(d)
  <2>1. /\ d.sync.nextSlot = next /\ d.sync.firstSlot = first
        /\ d.sync.emitted = sync.emitted + shown
        /\ d.span.at = at /\ d.span.end = at + lasts /\ d.span.skipped = over
    BY <1>1
  <2>2. /\ d.sync.emitted \in Nat
        /\ d.sync.emitted = sync.emitted + d.previous + d.current
        /\ d.sync.nextSlot = d.sync.firstSlot + d.sync.emitted
    BY <1>6, <1>15, <1>17, <2>1
  <2>3. /\ d.span \in Spans /\ d.span.at < d.span.end
        /\ d.span.skipped \/ d.span.end - 20 * d.sync.nextSlot <= 20
    <3>1. d.span \in Spans
      <4>1. \A a, b \in Int, c \in BOOLEAN : [at |-> a, end |-> b, skipped |-> c] \in Spans
        BY DEF Spans
      <4>2. at + lasts \in Int
        BY <1>2
      <4>3. [at |-> at, end |-> at + lasts, skipped |-> over] \in Spans
        BY <1>2, <1>18, <4>1, <4>2, Zenon
      <4>q. QED
        BY <1>1, <4>3, Zenon
    <3>2. d.span.at < d.span.end
      BY <1>2, <2>1
    <3>3. d.span.skipped \/ d.span.end - 20 * d.sync.nextSlot <= 20
      <4>1. CASE over
        BY <2>1, <4>1, Zenon
      <4>2. CASE at + lasts - 20 * next <= 20
        BY <1>2, <1>15, <2>1, <4>2
      <4>q. QED
        BY <1>13, <4>1, <4>2
    <3>q. QED
      BY <3>1, <3>2, <3>3
  <2>4. d.sync.firstSlot = sync.firstSlot \/ (ptr = 0 /\ d.previous = 0)
    BY <1>1, <1>16, <2>1
  <2>q. QED
    <3>1. d.sync \in Syncs
      <4>1. sync.emitted + shown \in Nat
        BY <1>6, <1>15
      <4>q. QED
        BY <1>1, <1>2, <1>6, <1>12, <1>15, <4>1, SMT DEF Syncs
    <3>q. QED
      BY <1>17, <2>2, <2>3, <2>4, <3>1 DEF Decided
<1>20. OwnRowsOnTime(d)
  BY <1>1, <1>14 DEF OwnRowsOnTime
<1>q. QED
  BY <1>19, <1>20 DEF d

(* Only a frame that has a predecessor may begin with copies of it.        *)
LEMMA DecisionFacts ==
  ASSUME TypeInv, LastKept, TimestampsAreSlots, phase = "open",
         NEW stamp \in Timestamps, NEW duration \in Durations
  PROVE  LET d == Decision(stamp, duration)
         IN /\ Decided(d)
            /\ frames = 0 => d.previous = 0
            /\ frames = 0 \/ OwnRowsOnTime(d)
<1> DEFINE e == Push(stamp, duration)
           d == Decision(stamp, duration)
<1>1. Decided(e) /\ OwnRowsOnTime(e)
  BY PushFacts
<1>2. previous = NoRow <=> frames = 0
  BY DEF LastKept, NoRow
<1>3. CASE previous # NoRow
  <2>1. d = e
    BY <1>3 DEF Decision
  <2>q. QED
    BY <1>1, <1>2, <1>3, <2>1
<1>4. CASE previous = NoRow
  <2>1. d = [e EXCEPT !.current = e.previous + e.current, !.previous = 0]
    BY <1>4 DEF Decision
  <2>2. /\ d.previous = 0 /\ d.current = e.previous + e.current
        /\ d.sync = e.sync /\ d.span = e.span
    <3>1. \E a, b, c, s : e = [previous |-> a, current |-> b, span |-> c, sync |-> s]
      BY DEF Push
    <3>q. QED
      BY <2>1, <3>1
  <2> HIDE DEF d, e
  <2>3. sync.emitted \in Nat
    BY DEF TypeInv, Syncs
  <2>4. /\ d.previous \in Nat /\ d.current \in Nat
        /\ sync.emitted + d.previous + d.current = sync.emitted + e.previous + e.current
        /\ e.previous = 0 => d.previous = 0
    BY <1>1, <2>2, <2>3 DEF Decided
  <2>5. Decided(d)
    BY <1>1, <2>2, <2>4 DEF Decided
  <2>q. QED
    BY <1>2, <1>4, <2>2, <2>5 DEF d
<1>q. QED
  BY <1>3, <1>4

-------------------------------------------------------------------------------
(* The output tensor.                                                      *)

(* A function on 1 .. n is a sequence of length n.                         *)
LEMMA FunctionIsSeq ==
  ASSUME NEW S, NEW n \in Nat, NEW f \in [1 .. n -> S]
  PROVE  f \in Seq(S) /\ Len(f) = n
<1>1. f \in Seq(S)
  BY SeqDef
<1>2. Len(f) \in Nat /\ 1 .. Len(f) = 1 .. n
  BY <1>1, LenProperties
<1>q. QED
  BY <1>1, <1>2

(* A tensor keeps its rows when it grows, as far as the limit at most.     *)
LEMMA GrownKeeps ==
  ASSUME NEW t \in Seq(Nat), Len(t) <= MaxRows, NEW needed \in Nat, NEW wanted \in Nat,
         Room(t, needed)
  PROVE  LET g == Grown(t, needed, wanted)
         IN /\ g \in Seq(Nat)
            /\ Len(t) <= Len(g) /\ needed <= Len(g) /\ Len(g) <= MaxRows
            /\ \A row \in 1 .. Len(t) : g[row] = t[row]
<1> USE CliAssumption
<1> DEFINE g == Grown(t, needed, wanted)
           n == GrownTo(Len(t), needed, wanted)
<1>1. Len(t) \in Nat /\ \A row \in 1 .. Len(t) : t[row] \in Nat
  BY ElementOfSeq, LenProperties
<1>2. CASE needed <= Len(t)
  BY <1>1, <1>2 DEF Grown
<1>3. CASE ~ (needed <= Len(t))
  <2>1. needed <= MaxRows
    BY <1>3 DEF Room
  <2>2. n \in Nat /\ Len(t) <= n /\ needed <= n /\ n <= MaxRows
    <3>1. Len(t) \div 4 \in Nat
      BY <1>1
    <3>2. MaxOf(Len(t) + Len(t) \div 4 + 1, wanted) \in Nat
          /\ Len(t) <= MaxOf(Len(t) + Len(t) \div 4 + 1, wanted)
      BY <1>1, <3>1 DEF MaxOf
    <3>q. QED
      BY <1>1, <2>1, <3>2 DEF GrownTo, MaxOf, MinOf
  <2> HIDE DEF n
  <2>3. g = [row \in 1 .. n |-> IF row <= Len(t) THEN t[row] ELSE Unwritten]
    BY <1>3 DEF Grown, n
  <2> HIDE DEF g
  <2>4. g \in [1 .. n -> Nat]
    BY <1>1, <2>2, <2>3 DEF Unwritten
  <2>5. g \in Seq(Nat) /\ Len(g) = n
    BY <2>2, <2>4, FunctionIsSeq
  <2>6. \A row \in 1 .. Len(t) : g[row] = t[row]
    BY <1>1, <2>2, <2>3
  <2>q. QED
    BY <2>2, <2>5, <2>6 DEF g
<1>q. QED
  BY <1>2, <1>3

(* Tensor u is what t was, with frame f in the n rows after the first p.   *)
Extended(t, u, p, n, f) ==
  /\ u \in Seq(Nat)
  /\ Len(t) <= Len(u) /\ p + n <= Len(u) /\ Len(u) <= MaxRows
  /\ \A row \in 1 .. p : u[row] = t[row]
  /\ \A row \in p + 1 .. p + n : u[row] = f

LEMMA CopiesExtend ==
  ASSUME NEW t \in Seq(Nat), Len(t) <= MaxRows, NEW p \in 0 .. Len(t), NEW n \in Nat,
         NEW f, n > 0 => f \in Nat /\ Room(t, p + n)
  PROVE  Extended(t, WithCopies(t, p, n, f), p, n, f)
<1>1. Len(t) \in Nat /\ p \in Nat /\ p <= Len(t)
  BY LenProperties
<1>2. CASE n = 0
  BY <1>1, <1>2 DEF Extended, WithCopies
<1>3. CASE n > 0
  <2> DEFINE g == Grown(t, p + n, p + n + 1)
             u == WithCopies(t, p, n, f)
  <2>1. /\ g \in Seq(Nat)
        /\ Len(t) <= Len(g) /\ p + n <= Len(g) /\ Len(g) <= MaxRows
        /\ \A row \in 1 .. Len(t) : g[row] = t[row]
    <3>1. p + n \in Nat /\ p + n + 1 \in Nat
      BY <1>1
    <3>q. QED
      BY <1>3, <3>1, GrownKeeps
  <2>2. u = [row \in 1 .. Len(g) |-> IF row \in p + 1 .. p + n THEN f ELSE g[row]]
    BY <1>3 DEF WithCopies
  <2> HIDE DEF g, u
  <2>3. Len(g) \in Nat /\ \A row \in 1 .. Len(g) : g[row] \in Nat
    BY <2>1, ElementOfSeq, LenProperties
  <2>4. u \in [1 .. Len(g) -> Nat]
    BY <1>3, <2>2, <2>3
  <2>5. u \in Seq(Nat) /\ Len(u) = Len(g)
    BY <2>3, <2>4, FunctionIsSeq
  <2>6. \A row \in 1 .. p : u[row] = t[row]
    BY <1>1, <2>1, <2>2, <2>3
  <2>7. \A row \in p + 1 .. p + n : u[row] = f
    BY <1>1, <2>1, <2>2, <2>3
  <2>q. QED
    BY <2>1, <2>5, <2>6, <2>7 DEF Extended, u
<1>q. QED
  BY <1>2, <1>3

LEMMA FrameExtends ==
  ASSUME NEW t \in Seq(Nat), Len(t) <= MaxRows, NEW p \in 0 .. Len(t), NEW f \in Nat,
         Room(t, p + 1)
  PROVE  Extended(t, WithFrame(t, p, f), p, 1, f)
<1>1. Len(t) \in Nat /\ p \in Nat /\ p <= Len(t)
  BY LenProperties
<1> DEFINE g == Grown(t, p + 1, p + 1)
           u == WithFrame(t, p, f)
<1>2. /\ g \in Seq(Nat)
      /\ Len(t) <= Len(g) /\ p + 1 <= Len(g) /\ Len(g) <= MaxRows
      /\ \A row \in 1 .. Len(t) : g[row] = t[row]
  <2>1. p + 1 \in Nat
    BY <1>1
  <2>q. QED
    BY <2>1, GrownKeeps
<1>3. u = [g EXCEPT ![p + 1] = f]
  BY DEF WithFrame
<1> HIDE DEF g, u
<1>4. Len(g) \in Nat /\ p + 1 \in 1 .. Len(g)
  BY <1>1, <1>2, LenProperties
<1>5. /\ u \in Seq(Nat) /\ Len(u) = Len(g)
      /\ \A row \in 1 .. Len(g) : u[row] = IF row = p + 1 THEN f ELSE g[row]
  BY <1>2, <1>3, <1>4, ExceptSeq
<1>6. \A row \in 1 .. p : u[row] = t[row]
  <2> TAKE row \in 1 .. p
  <2>1. row \in 1 .. Len(t) /\ row \in 1 .. Len(g) /\ row # p + 1
    BY <1>1, <1>2, <1>4
  <2>q. QED
    BY <1>2, <1>5, <2>1
<1>7. \A row \in p + 1 .. p + 1 : u[row] = f
  BY <1>1, <1>4, <1>5
<1>q. QED
  BY <1>2, <1>5, <1>6, <1>7 DEF Extended, u

(* Rows written after rows written: e in m rows, f in those up to the      *)
(* last.                                                                   *)
Continued(t, v, p, m, e, last, f) ==
  /\ v \in Seq(Nat)
  /\ Len(t) <= Len(v) /\ last <= Len(v) /\ Len(v) <= MaxRows
  /\ \A row \in 1 .. p : v[row] = t[row]
  /\ \A row \in p + 1 .. p + m : v[row] = e
  /\ \A row \in p + m + 1 .. last : v[row] = f

LEMMA ExtendedTwice ==
  ASSUME NEW t \in Seq(Nat), NEW u, NEW v, NEW p \in 0 .. Len(t), NEW m \in Nat, NEW n \in Nat,
         NEW e, NEW f, NEW q, q = p + m,
         Extended(t, u, p, m, e), Extended(u, v, q, n, f)
  PROVE  Continued(t, v, p, m, e, q + n, f)
<1>1. /\ Len(t) \in Nat /\ Len(u) \in Nat /\ Len(v) \in Nat /\ p \in Nat
  BY LenProperties DEF Extended
<1>2. \A row \in 1 .. p : v[row] = t[row]
  <2>1. \A row \in 1 .. p : row \in 1 .. p + m
    BY <1>1
  <2>q. QED
    BY <2>1 DEF Extended
<1>3. \A row \in p + 1 .. p + m : v[row] = e
  <2>1. \A row \in p + 1 .. p + m : row \in 1 .. p + m
    BY <1>1
  <2>q. QED
    BY <2>1 DEF Extended
<1>4. /\ v \in Seq(Nat)
      /\ Len(t) <= Len(v) /\ q + n <= Len(v) /\ Len(v) <= MaxRows
      /\ \A row \in p + m + 1 .. q + n : v[row] = f
  BY <1>1, CliAssumption DEF Extended
<1>q. QED
  BY <1>2, <1>3, <1>4 DEF Continued

-------------------------------------------------------------------------------
(* Steps.                                                                  *)

(* What a step adds to the output: rows that repeat the last frame, then   *)
(* rows of the new one, each with its slot's timestamp.                    *)
Adds(before, own) ==
  /\ ptr' = ptr + before + own
  /\ tensor' \in Seq(Nat) /\ ptr' <= Len(tensor') /\ Len(tensor') <= MaxRows
  /\ \A row \in 1 .. ptr : tensor'[row] = tensor[row]
  /\ \A row \in ptr + 1 .. ptr + before : tensor'[row] = frames
  /\ \A row \in ptr + before + 1 .. ptr' : tensor'[row] = frames + 1
  /\ pts' = pts \o Stamps(sync'.firstSlot, ptr, before + own)

(* The rows that repeat the frame before: where the limit leaves room for  *)
(* them, that is the last frame.                                           *)
LEMMA RepeatedExtends ==
  ASSUME TypeInv, LastKept, TimestampsAreSlots, phase = "open", NEW d, Decided(d),
         frames = 0 => d.previous = 0, RoomBefore(d)
  PROVE  Extended(tensor, Repeated(d), ptr, d.previous, frames)
<1>1. /\ tensor \in Seq(Nat) /\ Len(tensor) \in Nat /\ Len(tensor) <= MaxRows
      /\ ptr \in 0 .. Len(tensor) /\ d.previous \in Nat /\ frames \in Nat
  BY LenProperties DEF TypeInv, TimestampsAreSlots, Decided
<1>2. CASE d.previous = 0
  BY <1>1, <1>2 DEF Repeated, Extended
<1>3. CASE d.previous > 0
  <2>1. Room(tensor, ptr + d.previous)
    BY <1>3 DEF RoomBefore
  <2>2. ptr # MaxRows
    BY <1>1, <1>3, <2>1, CliAssumption DEF Room
  <2>3. tensor[previous] = frames
    BY <1>3, <2>2 DEF LastKept
  <2>4. Repeated(d) = WithCopies(tensor, ptr, d.previous, frames)
    BY <1>3, <2>3 DEF Repeated
  <2>q. QED
    BY <1>1, <2>1, <2>4, CopiesExtend
<1>q. QED
  BY <1>1, <1>2, <1>3

(* Rows counted one by one.                                                *)
LEMMA OneRowMore ==
  ASSUME NEW p \in Nat, NEW n \in Nat, n > 0
  PROVE  /\ n - 1 \in Nat /\ (p + 1) + (n - 1) = p + n
         /\ \A rows \in Nat : p + 1 <= rows => p + 1 \in 0 .. rows
         /\ \A row \in p + 1 .. p + n : row \in p + 1 .. p + 1 \/ row \in p + 1 + 1 .. p + n
OBVIOUS

(* Each way through the loop body adds the rows decided.                   *)
LEMMA EmittedAdds ==
  ASSUME TypeInv, LastKept, TimestampsAreSlots, NEW d, Decided(d),
         frames = 0 => d.previous = 0, FrameEmitted(d)
  PROVE  /\ Adds(d.previous, d.current)
         /\ previous' \in 1 .. Len(tensor') /\ tensor'[previous'] = frames + 1
         /\ views' = views \union {[row |-> ptr + d.previous + 1, frame |-> frames + 1]}
<1> DEFINE p == ptr + d.previous
           f == frames + 1
           r == Repeated(d)
           w == WithFrame(r, p, f)
           u == WithCopies(w, p + 1, d.current - 1, f)
<1>1. /\ phase = "open" /\ d.current > 0 /\ RoomBefore(d)
      /\ Room(r, p + 1) /\ Room(w, p + d.current)
      /\ tensor' = u /\ ptr' = p + d.current /\ previous' = p + d.current
      /\ sync' = d.sync
      /\ pts' = pts \o Stamps(d.sync.firstSlot, ptr, d.previous + d.current)
      /\ views' = views \union {[row |-> p + 1, frame |-> f]}
  BY DEF FrameEmitted, Received, NewViews
<1>2. /\ tensor \in Seq(Nat) /\ Len(tensor) \in Nat
      /\ ptr \in 0 .. Len(tensor) /\ d.previous \in Nat /\ d.current \in Nat /\ frames \in Nat
  BY <1>1, LenProperties DEF TypeInv, TimestampsAreSlots, Decided
<1>3. Extended(tensor, r, ptr, d.previous, frames)
  BY <1>1, RepeatedExtends
<1>4. p \in Nat /\ p = ptr + d.previous /\ f \in Nat /\ f = frames + 1
  BY <1>2
<1>c. d.current \in Nat /\ d.current > 0 /\ d.current - 1 \in Nat
  <2>1. d.current > 0
    BY <1>1
  <2>q. QED
    BY ONLY <1>2, <2>1
<1> HIDE DEF r, p, f
<1>5. r \in Seq(Nat) /\ p \in 0 .. Len(r) /\ Len(r) <= MaxRows
  <2>1. r \in Seq(Nat) /\ p <= Len(r) /\ Len(r) <= MaxRows
    BY <1>3, <1>4 DEF Extended
  <2>q. QED
    BY <1>4, <2>1, LenProperties
<1>6. Extended(r, w, p, 1, f)
  BY <1>1, <1>4, <1>5, FrameExtends
<1> HIDE DEF w
<1>7. Extended(w, u, p + 1, d.current - 1, f)
  <2>1. w \in Seq(Nat) /\ p + 1 <= Len(w) /\ Len(w) <= MaxRows
    BY <1>6 DEF Extended
  <2>2. /\ p + 1 \in 0 .. Len(w) /\ d.current - 1 \in Nat
        /\ (p + 1) + (d.current - 1) = p + d.current
    <3>1. Len(w) \in Nat
      BY <2>1, LenProperties
    <3>2. p \in Nat /\ p + 1 <= Len(w)
      BY <1>4, <2>1
    <3>3. d.current \in Nat /\ d.current > 0
      BY <1>c
    <3>q. QED
      BY ONLY <3>1, <3>2, <3>3, OneRowMore
  <2>q. QED
    BY <1>1, <1>4, <2>1, <2>2, CopiesExtend
<1> HIDE DEF u
<1>8. Extended(r, u, p, d.current, f)
  <2>1. Continued(r, u, p, 1, f, p + 1 + (d.current - 1), f)
    BY <1>4, <1>5, <1>6, <1>7, <1>c, ExtendedTwice
  <2>2. p \in Nat /\ d.current \in Nat /\ d.current > 0
    BY <1>4, <1>c
  <2>r. p + 1 + (d.current - 1) = p + d.current
    BY ONLY <2>2, OneRowMore
  <2>3. Continued(r, u, p, 1, f, p + d.current, f)
    BY ONLY <2>1, <2>r, Zenon
  <2>4. \A row \in p + 1 .. p + d.current : u[row] = f
    <3> TAKE row \in p + 1 .. p + d.current
    <3>1. row \in p + 1 .. p + 1 \/ row \in p + 1 + 1 .. p + d.current
      BY ONLY <2>2, OneRowMore
    <3>q. QED
      BY <2>3, <3>1 DEF Continued
  <2>q. QED
    BY <2>3, <2>4 DEF Extended, Continued
<1>9. Continued(tensor, u, ptr, d.previous, frames, p + d.current, f)
  BY <1>2, <1>3, <1>4, <1>8, ExtendedTwice
<1>10. Adds(d.previous, d.current)
  BY <1>1, <1>4, <1>9 DEF Adds, Continued
<1>11. p + d.current \in 1 .. Len(u) /\ u[p + d.current] = f
  <2>1. p + d.current \in ptr + d.previous + 1 .. p + d.current
    <3>1. p + d.current \in p + 1 .. p + d.current
      BY ONLY <1>4, <1>c
    <3>q. QED
      BY <1>4, <3>1
  <2>2. u \in Seq(Nat) /\ p + d.current <= Len(u) /\ u[p + d.current] = f
    BY <1>9, <2>1 DEF Continued
  <2>3. Len(u) \in Nat
    BY <2>2, LenProperties
  <2>q. QED
    BY <1>4, <1>c, <2>2, <2>3
<1>q. QED
  BY <1>1, <1>4, <1>10, <1>11

LEMMA DroppedAdds ==
  ASSUME TypeInv, LastKept, TimestampsAreSlots, NEW d, Decided(d),
         frames = 0 => d.previous = 0, FrameDropped(d)
  PROVE  /\ d.current = 0 /\ Adds(d.previous, 0)
         /\ previous' \in 1 .. Len(tensor') /\ tensor'[previous'] = frames + 1
         /\ views' = views
<1> DEFINE p == ptr + d.previous
           f == frames + 1
           r == Repeated(d)
           w == WithFrame(r, p, f)
<1>1. /\ phase = "open" /\ d.current = 0 /\ RoomBefore(d) /\ FitsLimit(p + 1)
      /\ tensor' = w /\ ptr' = p /\ previous' = p + 1
      /\ sync' = d.sync
      /\ pts' = pts \o Stamps(d.sync.firstSlot, ptr, d.previous)
      /\ views' = views
  BY DEF FrameDropped, Received, NewViews
<1>2. /\ tensor \in Seq(Nat) /\ Len(tensor) \in Nat
      /\ ptr \in 0 .. Len(tensor) /\ d.previous \in Nat /\ frames \in Nat
  BY <1>1, LenProperties DEF TypeInv, TimestampsAreSlots, Decided
<1>3. Extended(tensor, r, ptr, d.previous, frames)
  BY <1>1, RepeatedExtends
<1>4. p \in Nat /\ p = ptr + d.previous /\ f \in Nat /\ f = frames + 1
  BY <1>2
<1> HIDE DEF r, p, f
<1>5. r \in Seq(Nat) /\ p \in 0 .. Len(r) /\ Len(r) <= MaxRows
  <2>1. r \in Seq(Nat) /\ p <= Len(r) /\ Len(r) <= MaxRows
    BY <1>3, <1>4 DEF Extended
  <2>q. QED
    BY <1>4, <2>1, LenProperties
<1>6. Extended(r, w, p, 1, f)
  <2>1. Room(r, p + 1)
    BY <1>1 DEF FitsLimit, Room
  <2>q. QED
    BY <1>4, <1>5, <2>1, FrameExtends
<1> HIDE DEF w
<1>7. Continued(tensor, w, ptr, d.previous, frames, p + 1, f)
  BY <1>2, <1>3, <1>4, <1>6, ExtendedTwice
<1>8. p + 1 \in 1 .. Len(w) /\ w[p + 1] = f
  <2>1. p + 1 \in ptr + d.previous + 1 .. p + 1
    BY <1>2, <1>4
  <2>2. w \in Seq(Nat) /\ p + 1 <= Len(w) /\ w[p + 1] = f
    BY <1>7, <2>1 DEF Continued
  <2>3. Len(w) \in Nat
    BY <2>2, LenProperties
  <2>q. QED
    BY <1>4, <2>2, <2>3
<1>9. Adds(d.previous, 0)
  <2>1. ptr' = ptr + d.previous + 0 /\ d.previous + 0 = d.previous
    BY <1>1, <1>2, <1>4
  <2>2. p <= Len(w)
    BY <1>4, <1>8
  <2>3. \A row \in ptr + d.previous + 1 .. ptr' : FALSE
    BY <1>1, <1>2, <1>4
  <2>q. QED
    BY <1>1, <1>4, <1>7, <2>1, <2>2, <2>3 DEF Adds, Continued
<1>q. QED
  BY <1>1, <1>4, <1>8, <1>9

LEMMA ForgottenAdds ==
  ASSUME TypeInv, LastKept, TimestampsAreSlots, NEW d, Decided(d),
         frames = 0 => d.previous = 0, FrameForgotten(d)
  PROVE  /\ d.current = 0 /\ Adds(d.previous, 0)
         /\ previous' \in 1 .. Len(tensor') /\ ptr' = MaxRows
         /\ views' = views
<1> DEFINE p == ptr + d.previous
           r == Repeated(d)
<1>1. /\ phase = "open" /\ d.current = 0 /\ RoomBefore(d) /\ ~ FitsLimit(p + 1)
      /\ tensor' = r /\ ptr' = p
      /\ previous' = IF d.previous > 0 THEN p ELSE previous
      /\ sync' = d.sync
      /\ pts' = pts \o Stamps(d.sync.firstSlot, ptr, d.previous)
      /\ views' = views
  BY DEF FrameForgotten, Received
<1>2. /\ tensor \in Seq(Nat) /\ Len(tensor) \in Nat /\ Len(tensor) <= MaxRows
      /\ ptr \in 0 .. Len(tensor) /\ d.previous \in Nat /\ frames \in Nat
  BY <1>1, LenProperties DEF TypeInv, TimestampsAreSlots, Decided
<1>3. Extended(tensor, r, ptr, d.previous, frames)
  BY <1>1, RepeatedExtends
<1> HIDE DEF r
<1>4. /\ r \in Seq(Nat) /\ Len(r) \in Nat /\ Len(tensor) <= Len(r)
      /\ p <= Len(r) /\ Len(r) <= MaxRows /\ p \in Nat
  BY <1>2, <1>3, LenProperties DEF Extended
<1>5. p = MaxRows
  BY <1>1, <1>4, CliAssumption DEF FitsLimit
<1>6. frames # 0
  BY <1>1, <1>5, <1>2, CliAssumption DEF LastKept
<1>7. Adds(d.previous, 0)
  <2>1. /\ \A row \in 1 .. ptr : r[row] = tensor[row]
        /\ \A row \in ptr + 1 .. ptr + d.previous : r[row] = frames
    BY <1>3 DEF Extended
  <2>2. ptr' = ptr + d.previous + 0 /\ d.previous + 0 = d.previous
    BY <1>1, <1>2
  <2>3. \A row \in ptr + d.previous + 1 .. ptr' : FALSE
    BY <1>1, <1>2
  <2>q. QED
    BY <1>1, <1>4, <2>1, <2>2, <2>3 DEF Adds
<1>8. previous' \in 1 .. Len(r)
  <2>1. CASE d.previous > 0
    BY <1>1, <1>2, <1>4, <2>1
  <2>2. CASE d.previous = 0
    <3>1. previous \in 1 .. Len(tensor)
      BY <1>1, <1>6 DEF LastKept
    <3>q. QED
      BY <1>1, <1>2, <1>4, <2>2, <3>1
  <2>q. QED
    BY <1>2, <2>1, <2>2
<1>q. QED
  BY <1>1, <1>5, <1>7, <1>8

(* What goes with the rows added: the counters count them.                 *)
Counts(before, own) ==
  /\ before \in Nat /\ own \in Nat
  /\ frames = 0 => before = 0
  /\ (own = 0 /\ frames' = frames) \/ frames' = frames + 1
  /\ sync'.firstSlot \in Int
  /\ sync'.emitted = sync.emitted + before + own
  /\ sync'.nextSlot = sync'.firstSlot + sync'.emitted
  /\ sync'.firstSlot = sync.firstSlot \/ (ptr = 0 /\ before = 0)

(* Earlier rows keep their timestamps, and the rows added have the slots   *)
(* that follow.                                                            *)
LEMMA StampsAdded ==
  ASSUME TypeInv, TimestampsAreSlots, phase # "failed",
         NEW before, NEW own, Adds(before, own), Counts(before, own)
  PROVE  /\ pts' \in Seq(Int) /\ Len(pts') = ptr'
         /\ \A row \in 1 .. ptr : pts'[row] = pts[row]
         /\ \A row \in 1 .. ptr' : pts'[row] = sync'.firstSlot + row - 1
<1> DEFINE n == before + own
           first == sync'.firstSlot
           added == Stamps(first, ptr, n)
<1>1. /\ n \in Nat /\ ptr \in Nat /\ first \in Int /\ pts \in Seq(Int)
      /\ Len(pts) = ptr /\ ptr' = ptr + n
      /\ pts' = pts \o added
      /\ first = sync.firstSlot \/ ptr = 0
      /\ \A row \in 1 .. ptr : pts[row] = sync.firstSlot + row - 1
  BY DEF Counts, Adds, TypeInv, TimestampsAreSlots
<1>2. added = [i \in 1 .. n |-> first + ptr + i - 1]
  BY DEF Stamps
<1> HIDE DEF n, first, added
<1>3. added \in Seq(Int) /\ Len(added) = n
  <2>1. added \in [1 .. n -> Int]
    BY <1>1, <1>2
  <2>q. QED
    BY <1>1, <2>1, FunctionIsSeq
<1>4. /\ pts' \in Seq(Int) /\ Len(pts') = ptr + n
      /\ \A row \in 1 .. ptr + n : pts'[row] = IF row <= ptr THEN pts[row] ELSE added[row - ptr]
  <2>1. pts \in Seq(Int) /\ added \in Seq(Int) /\ pts' = pts \o added
    BY <1>1, <1>3
  <2>2. /\ pts' \in Seq(Int) /\ Len(pts') = Len(pts) + Len(added)
        /\ \A row \in 1 .. Len(pts) + Len(added) :
             pts'[row] = IF row <= Len(pts) THEN pts[row] ELSE added[row - Len(pts)]
    BY ONLY <2>1, ConcatProperties
  <2>3. Len(pts) = ptr /\ Len(added) = n
    BY <1>1, <1>3
  <2>q. QED
    BY ONLY <2>2, <2>3
<1>5. \A row \in 1 .. ptr : pts'[row] = pts[row]
  <2> TAKE row \in 1 .. ptr
  <2>1. row \in 1 .. ptr + n /\ row <= ptr
    BY <1>1
  <2>q. QED
    BY <1>4, <2>1
<1>6. \A row \in 1 .. ptr + n : pts'[row] = first + row - 1
  <2> TAKE row \in 1 .. ptr + n
  <2>1. CASE row <= ptr
    <3>1. row \in 1 .. ptr /\ ptr # 0
      BY <1>1, <2>1
    <3>q. QED
      BY <1>1, <1>5, <3>1
  <2>2. CASE ~ (row <= ptr)
    <3>1. row - ptr \in 1 .. n
      BY <1>1, <2>2
    <3>2. pts'[row] = added[row - ptr]
      BY <1>4, <2>2
    <3>q. QED
      BY <1>1, <1>2, <3>1, <3>2
  <2>q. QED
    BY <2>1, <2>2
<1>q. QED
  BY <1>1, <1>4, <1>5, <1>6 DEF first

LEMMA SlotsKept ==
  ASSUME TypeInv, TimestampsAreSlots, phase # "failed",
         NEW before, NEW own, Adds(before, own), Counts(before, own)
  PROVE  TimestampsAreSlots'
<1>1. /\ pts' \in Seq(Int) /\ Len(pts') = ptr'
      /\ \A row \in 1 .. ptr' : pts'[row] = sync'.firstSlot + row - 1
  BY StampsAdded
<1>2. ptr' = sync'.emitted
  BY DEF Adds, Counts, TimestampsAreSlots
<1>q. QED
  BY <1>1, <1>2 DEF Adds, Counts, TimestampsAreSlots

(* Which frame a row shows after the step.                                 *)
LEMMA RowsAre ==
  ASSUME TypeInv, RowsShowFrames, phase # "failed",
         NEW before, NEW own, Adds(before, own), Counts(before, own), NEW row \in 1 .. ptr'
  PROVE  \/ row \in 1 .. ptr /\ tensor'[row] = tensor[row] /\ tensor[row] \in 1 .. frames
         \/ row \in ptr + 1 .. ptr + before /\ tensor'[row] = frames /\ frames \in Nat \ {0}
         \/ /\ row \in ptr + before + 1 .. ptr' /\ own > 0 /\ frames' = frames + 1
            /\ tensor'[row] = frames + 1
<1>1. ptr \in Nat /\ before \in Nat /\ own \in Nat /\ ptr' = ptr + before + own /\ frames \in Nat
  BY DEF TypeInv, Adds, Counts
<1>2. CASE row \in 1 .. ptr
  BY <1>2 DEF Adds, RowsShowFrames
<1>3. CASE row \in ptr + 1 .. ptr + before
  <2>1. before # 0
    BY <1>1, <1>3
  <2>q. QED
    BY <1>1, <1>3, <2>1 DEF Adds, Counts
<1>4. CASE row \in ptr + before + 1 .. ptr'
  <2>1. own > 0
    BY <1>1, <1>4
  <2>2. frames' = frames + 1
    BY <1>1, <2>1 DEF Counts
  <2>q. QED
    BY <1>4, <2>1, <2>2 DEF Adds
<1>q. QED
  BY <1>1, <1>2, <1>3, <1>4

LEMMA FramesKept ==
  ASSUME TypeInv, RowsShowFrames, phase # "failed",
         NEW before, NEW own, Adds(before, own), Counts(before, own)
  PROVE  RowsShowFrames'
<1>1. frames \in Nat /\ frames' \in Nat /\ frames <= frames'
  BY DEF TypeInv, Counts
<1>2. ASSUME NEW row \in 1 .. ptr' PROVE tensor'[row] \in 1 .. frames'
  BY <1>1, RowsAre
<1>q. QED
  BY <1>2 DEF RowsShowFrames

(* Only rows past the last are written, where no view is.                  *)
LEMMA ViewsKept ==
  ASSUME TypeInv, ViewsKeepTheirFrame, phase # "failed",
         NEW before, NEW own, Adds(before, own), Counts(before, own),
         \/ views' = views
         \/ /\ own > 0
            /\ views' = views \union {[row |-> ptr + before + 1, frame |-> frames + 1]}
  PROVE  /\ ViewsKeepTheirFrame'
         /\ \A view \in views' : view.row \in 1 .. ptr'
<1>1. ptr \in Nat /\ before \in Nat /\ own \in Nat /\ ptr' = ptr + before + own
  BY DEF TypeInv, Adds, Counts
<1>2. ASSUME NEW view \in views
      PROVE  view.row \in 1 .. ptr' /\ tensor'[view.row] = view.frame
  <2>1. view.row \in 1 .. ptr /\ tensor[view.row] = view.frame
    BY DEF TypeInv, ViewsKeepTheirFrame
  <2>q. QED
    BY <1>1, <2>1 DEF Adds
<1>3. ASSUME own > 0, NEW view, view = [row |-> ptr + before + 1, frame |-> frames + 1]
      PROVE  view.row \in 1 .. ptr' /\ tensor'[view.row] = view.frame
  <2>1. view.row = ptr + before + 1 /\ view.frame = frames + 1
    BY <1>3
  <2>2. ptr + before + 1 \in ptr + before + 1 .. ptr' /\ ptr + before + 1 \in 1 .. ptr'
    BY <1>1, <1>3
  <2>q. QED
    BY <2>1, <2>2 DEF Adds
<1>4. \A view \in views' : view.row \in 1 .. ptr' /\ tensor'[view.row] = view.frame
  <2> TAKE view \in views'
  <2>1. view \in views \/ (own > 0 /\ view = [row |-> ptr + before + 1, frame |-> frames + 1])
    OBVIOUS
  <2>q. QED
    BY <1>2, <1>3, <2>1
<1>5. \A row \in 1 .. ptr' : row <= ptr'
  BY <1>1
<1>q. QED
  BY <1>4, <1>5 DEF ViewsKeepTheirFrame

(* The copies of a frame come after it is over, or nearly; so none is too  *)
(* early when the rows of the new frame are not.                           *)
LEMMA TimesKept ==
  ASSUME TypeInv, RowsShowFrames, TimestampsAreSlots, NeverTooEarly, OutputKeepsUp,
         phase = "open",
         NEW before, NEW own, Adds(before, own), Counts(before, own),
         \A f \in 1 .. frames : spans'[f] = spans[f],
         own > 0 /\ frames > 0 =>
           LET new == spans'[frames + 1]
           IN \/ new.skipped
              \/ /\ new.at \in Int
                 /\ new.at <= 20 * (sync'.firstSlot + ptr + before) + 22
  PROVE  NeverTooEarly'
<1> DEFINE InTime(f, row) ==
             \/ f = 1
             \/ spans'[f].skipped
             \/ 10 * (spans'[f].at - pts'[row] * Slot) <= 11 * Slot
<1> SUFFICES ASSUME NEW row \in 1 .. ptr' PROVE InTime(tensor'[row], row)
  BY DEF NeverTooEarly
<1>1. /\ ptr \in Nat /\ before \in Nat /\ own \in Nat /\ ptr' = ptr + before + own
      /\ frames \in Nat /\ row \in Int /\ sync'.firstSlot \in Int
  BY DEF TypeInv, Adds, Counts
<1>2. /\ pts'[row] = sync'.firstSlot + row - 1
      /\ row \in 1 .. ptr => pts'[row] = pts[row]
  BY StampsAdded
<1>3. CASE row \in 1 .. ptr /\ tensor'[row] = tensor[row] /\ tensor[row] \in 1 .. frames
  <2>1. spans'[tensor[row]] = spans[tensor[row]]
    BY <1>3
  <2>2. LET f == tensor[row]
        IN f = 1 \/ spans[f].skipped \/ 10 * (spans[f].at - pts[row] * Slot) <= 11 * Slot
    BY <1>3 DEF NeverTooEarly
  <2>q. QED
    BY <1>2, <1>3, <2>1, <2>2
<1>4. CASE row \in ptr + 1 .. ptr + before /\ tensor'[row] = frames /\ frames \in Nat \ {0}
  <2>1. /\ spans'[frames] = spans[frames]
        /\ spans[frames].at \in Int /\ spans[frames].end \in Int
        /\ spans[frames].at < spans[frames].end
    <3>1. frames \in 1 .. frames /\ spans[frames] \in Spans
      BY <1>1, <1>4, ElementOfSeq DEF TypeInv, SpansTyped
    <3>q. QED
      BY <3>1 DEF TypeInv, SpansTyped, Spans
  <2>2. spans[frames].skipped \/ spans[frames].end - sync.nextSlot * Slot <= Slot
    BY <1>4 DEF OutputKeepsUp
  <2>3. sync.nextSlot = sync'.firstSlot + ptr
    <3>1. before # 0
      BY <1>1, <1>4
    <3>q. QED
      BY <3>1 DEF Counts, TimestampsAreSlots
  <2>4. CASE spans[frames].skipped
    BY <1>4, <2>1, <2>4
  <2>5. CASE spans[frames].end - sync.nextSlot * Slot <= Slot
    <3>1. 10 * (spans[frames].at - pts'[row] * Slot) <= 11 * Slot
      BY <1>1, <1>2, <1>4, <2>1, <2>3, <2>5 DEF Slot
    <3>q. QED
      BY <1>4, <2>1, <3>1
  <2>q. QED
    BY <2>2, <2>4, <2>5
<1>5. CASE /\ row \in ptr + before + 1 .. ptr' /\ own > 0 /\ frames' = frames + 1
           /\ tensor'[row] = frames + 1
  <2>1. CASE frames = 0
    BY <1>5, <2>1
  <2>2. CASE spans'[frames + 1].skipped
    BY <1>5, <2>2
  <2>3. CASE /\ spans'[frames + 1].at \in Int
             /\ spans'[frames + 1].at <= 20 * (sync'.firstSlot + ptr + before) + 22
    <3>1. 10 * (spans'[frames + 1].at - pts'[row] * Slot) <= 11 * Slot
      BY <1>1, <1>2, <1>5, <2>3 DEF Slot
    <3>q. QED
      BY <1>5, <3>1
  <2>q. QED
    BY <1>1, <1>5, <2>1, <2>2, <2>3
<1>q. QED
  BY <1>3, <1>4, <1>5, RowsAre

(* A frame's time is noted, and the CfrSync is the one decided.            *)
LEMMA ReceivedFacts ==
  ASSUME TypeInv, NEW d, Decided(d), Received(d)
  PROVE  /\ sync' \in Syncs /\ SpansTyped' /\ frames' = frames + 1 /\ frames' \in Nat
         /\ \A f \in 1 .. frames : spans'[f] = spans[f]
         /\ spans'[frames + 1] = d.span
<1>1. /\ spans \in Seq(Spans) /\ Len(spans) = frames /\ frames \in Nat
      /\ frames' = frames + 1 /\ spans' = Append(spans, d.span) /\ d.span \in Spans
      /\ sync' = d.sync
  BY DEF Received, TypeInv, SpansTyped, Decided
<1>2. /\ spans' \in Seq(Spans) /\ Len(spans') = frames + 1
      /\ \A f \in 1 .. frames : spans'[f] = spans[f]
      /\ spans'[frames + 1] = d.span
  BY <1>1, AppendProperties
<1>3. \A f \in 1 .. frames + 1 : spans'[f].at < spans'[f].end
  <2> TAKE f \in 1 .. frames + 1
  <2>1. CASE f \in 1 .. frames
    BY <1>2, <2>1 DEF TypeInv, SpansTyped
  <2>2. CASE f = frames + 1
    BY <1>2, <2>2 DEF Decided
  <2>q. QED
    BY <1>1, <2>1, <2>2
<1>4. SpansTyped'
  BY <1>1, <1>2, <1>3 DEF SpansTyped
<1>5. sync' \in Syncs
  BY <1>1 DEF Decided
<1>q. QED
  BY <1>1, <1>2, <1>4, <1>5

(* The three ways a frame is dealt with, as one.                           *)
LEMMA FrameAdds ==
  ASSUME TypeInv, LastKept, TimestampsAreSlots, NEW d, Decided(d),
         frames = 0 => d.previous = 0,
         FrameEmitted(d) \/ FrameDropped(d) \/ FrameForgotten(d)
  PROVE  /\ Received(d) /\ phase' = "open" /\ phase = "open"
         /\ Adds(d.previous, d.current)
         /\ previous' \in 1 .. Len(tensor')
         /\ tensor'[previous'] = frames + 1 \/ ptr' = MaxRows
         /\ \/ views' = views
            \/ /\ d.current > 0
               /\ views' = views \union {[row |-> ptr + d.previous + 1, frame |-> frames + 1]}
         /\ grew' = (grew \/ Len(tensor') > Len(tensor))
<1>1. CASE FrameEmitted(d)
  BY <1>1, EmittedAdds DEF FrameEmitted, Received
<1>2. CASE FrameDropped(d)
  BY <1>2, DroppedAdds DEF FrameDropped, Received
<1>3. CASE FrameForgotten(d)
  BY <1>3, ForgottenAdds DEF FrameForgotten, Received
<1>q. QED
  BY <1>1, <1>2, <1>3

LEMMA FrameKeeps ==
  ASSUME IInv, NEW stamp \in Timestamps, NEW duration \in Durations,
         LET d == Decision(stamp, duration)
         IN FrameEmitted(d) \/ FrameDropped(d) \/ FrameForgotten(d)
  PROVE  IInv'
<1> DEFINE d == Decision(stamp, duration)
<1>1. /\ TypeInv /\ RowsShowFrames /\ LastKept
      /\ TimestampsAreSlots /\ ViewsKeepTheirFrame /\ NeverTooEarly /\ OutputKeepsUp
  BY DEF IInv
<1>2. phase = "open"
  BY DEF FrameEmitted, FrameDropped, FrameForgotten, Received
<1>3. /\ Decided(d)
      /\ frames = 0 => d.previous = 0
      /\ frames = 0 \/ OwnRowsOnTime(d)
  BY <1>1, <1>2, DecisionFacts
<1> HIDE DEF d
<1>4. FrameEmitted(d) \/ FrameDropped(d) \/ FrameForgotten(d)
  BY DEF d
<1>5. /\ Received(d) /\ phase' = "open"
      /\ Adds(d.previous, d.current)
      /\ previous' \in 1 .. Len(tensor')
      /\ tensor'[previous'] = frames + 1 \/ ptr' = MaxRows
      /\ \/ views' = views
         \/ /\ d.current > 0
            /\ views' = views \union {[row |-> ptr + d.previous + 1, frame |-> frames + 1]}
      /\ grew' = (grew \/ Len(tensor') > Len(tensor))
  BY <1>1, <1>3, <1>4, FrameAdds
<1>6. /\ sync' \in Syncs /\ SpansTyped' /\ frames' = frames + 1 /\ frames' \in Nat
      /\ \A f \in 1 .. frames : spans'[f] = spans[f]
      /\ spans'[frames + 1] = d.span
  BY <1>1, <1>3, <1>5, ReceivedFacts
<1>7. Counts(d.previous, d.current) /\ sync' = d.sync
  BY <1>3, <1>5, <1>6 DEF Counts, Decided, Received, Syncs
<1>8. RowsShowFrames'
  BY <1>1, <1>2, <1>5, <1>7, FramesKept
<1>9. TimestampsAreSlots' /\ pts' \in Seq(Int)
  BY <1>1, <1>2, <1>5, <1>7, SlotsKept, StampsAdded
<1>10. ViewsKeepTheirFrame' /\ \A view \in views' : view.row \in 1 .. ptr'
  BY <1>1, <1>2, <1>5, <1>7, ViewsKept
<1>11. NeverTooEarly'
  <2>1. d.current > 0 /\ frames > 0 =>
          \/ d.span.skipped
          \/ d.span.at \in Int /\ d.span.at <= 20 * (sync'.firstSlot + ptr + d.previous) + 22
    <3> SUFFICES ASSUME d.current > 0, frames > 0, ~ d.span.skipped
                 PROVE  d.span.at \in Int
                        /\ d.span.at <= 20 * (sync'.firstSlot + ptr + d.previous) + 22
      OBVIOUS
    <3>1. d.span.at \in Int
      BY <1>3 DEF Decided, Spans
    <3>q. QED
      BY <1>3, <1>7, <3>1 DEF OwnRowsOnTime
  <2>q. QED
    BY <1>1, <1>2, <1>5, <1>6, <1>7, <2>1, TimesKept
<1>12. OutputKeepsUp'
  <2>1. d.span.skipped \/ d.span.end - 20 * d.sync.nextSlot <= 20
    BY <1>3 DEF Decided
  <2>2. d.sync.nextSlot \in Int
    BY <1>3 DEF Decided, Syncs
  <2>3. d.sync.nextSlot * Slot = 20 * d.sync.nextSlot
    BY <2>2 DEF Slot
  <2>4. spans'[frames'] = d.span /\ sync'.nextSlot = d.sync.nextSlot
    BY <1>6, <1>7
  <2>q. QED
    BY <2>1, <2>3, <2>4 DEF OutputKeepsUp, Slot
<1>13. LastKept'
  <2>1. frames' # 0
    BY <1>1, <1>6 DEF TypeInv
  <2>2. tensor'[previous'] = frames' \/ ptr' = MaxRows
    BY <1>5, <1>6
  <2>3. previous' \in 1 .. Len(tensor')
    BY <1>5
  <2>q. QED
    BY <2>1, <2>2, <2>3 DEF LastKept
<1>14. TypeInv'
  <2>1. tensor' \in Seq(Nat) /\ ptr' \in Nat
    <3>1. tensor' \in Seq(Nat) /\ ptr' = ptr + d.previous + d.current
      BY <1>5 DEF Adds
    <3>2. ptr \in Nat /\ d.previous \in Nat /\ d.current \in Nat
      BY <1>1, <1>7 DEF TypeInv, Counts
    <3>q. QED
      BY <3>1, <3>2
  <2>2. previous' \in Nat
    BY <1>5
  <2>3. grew' \in BOOLEAN
    BY <1>5
  <2>q. QED
    BY <1>5, <1>6, <1>9, <1>10, <2>1, <2>2, <2>3 DEF TypeInv
<1>q. QED
  BY <1>8, <1>9, <1>10, <1>11, <1>12, <1>13, <1>14 DEF IInv

-------------------------------------------------------------------------------
(* The end of the stream.                                                  *)

(* One of three numbers lies between the other two.                        *)
LEMMA MedianIsOne ==
  ASSUME NEW h, \A i \in 1 .. 3 : h[i] \in Nat
  PROVE  Median(h) \in {h[1], h[2], h[3]}
<1> DEFINE Between(i, j, m) == i # j /\ h[i] <= m /\ m <= h[j] /\ m = h[6 - i - j]
<1>1. h[1] \in Nat /\ h[2] \in Nat /\ h[3] \in Nat
  OBVIOUS
<1>2. \E m \in {h[1], h[2], h[3]} : \E i, j \in 1 .. 3 : Between(i, j, m)
  <2>1. ASSUME h[1] <= h[2], h[2] <= h[3] PROVE Between(1, 3, h[2])
    BY <2>1
  <2>2. ASSUME h[3] <= h[2], h[2] <= h[1] PROVE Between(3, 1, h[2])
    BY <2>2
  <2>3. ASSUME h[2] <= h[1], h[1] <= h[3] PROVE Between(2, 3, h[1])
    BY <2>3
  <2>4. ASSUME h[3] <= h[1], h[1] <= h[2] PROVE Between(3, 2, h[1])
    BY <2>4
  <2>5. ASSUME h[1] <= h[3], h[3] <= h[2] PROVE Between(1, 2, h[3])
    BY <2>5
  <2>6. ASSUME h[2] <= h[3], h[3] <= h[1] PROVE Between(2, 1, h[3])
    BY <2>6
  <2>7. \/ h[1] <= h[2] /\ h[2] <= h[3]
        \/ h[3] <= h[2] /\ h[2] <= h[1]
        \/ h[2] <= h[1] /\ h[1] <= h[3]
        \/ h[3] <= h[1] /\ h[1] <= h[2]
        \/ h[1] <= h[3] /\ h[3] <= h[2]
        \/ h[2] <= h[3] /\ h[3] <= h[1]
    BY <1>1
  <2> HIDE DEF Between
  <2>8. 1 \in 1 .. 3 /\ 2 \in 1 .. 3 /\ 3 \in 1 .. 3
    OBVIOUS
  <2>q. QED
    BY <2>1, <2>2, <2>3, <2>4, <2>5, <2>6, <2>7, <2>8
<1>q. QED
  BY <1>2 DEF Median

LEMMA CopiesTyped ==
  ASSUME TypeInv
  PROVE  /\ FinalCopies \in Nat
         /\ (\A i \in 1 .. 3 : sync.history[i] = 0) => FinalCopies = 0
<1>1. Median(sync.history) \in {sync.history[1], sync.history[2], sync.history[3]}
  BY MedianIsOne DEF TypeInv, Syncs
<1>2. \A i \in {1, 2, 3} : i \in 1 .. 3
  OBVIOUS
<1>3. Median(sync.history) \in Nat
  BY <1>1, <1>2 DEF TypeInv, Syncs
<1>q. QED
  BY <1>1, <1>2, <1>3, CliAssumption DEF FinalCopies

LEMMA FinishAdds ==
  ASSUME TypeInv, LastKept, TimestampsAreSlots, Finish
  PROVE  /\ Adds(FinalCopies, 0) /\ Counts(FinalCopies, 0)
         /\ sync' \in Syncs /\ previous' \in Nat /\ grew' \in BOOLEAN
         /\ views' = views /\ frames' = frames /\ spans' = spans
         /\ phase = "open" /\ phase' = "flushed"
<1> DEFINE n == FinalCopies
<1>1. /\ phase = "open" /\ phase' = "flushed" /\ frames' = frames /\ spans' = spans
      /\ sync' = Finished(n)
  BY DEF Finish
<1>2. /\ n \in Nat
      /\ (\A i \in 1 .. 3 : sync.history[i] = 0) => n = 0
  BY CopiesTyped
<1>3. /\ tensor \in Seq(Nat) /\ Len(tensor) \in Nat /\ Len(tensor) <= MaxRows
      /\ ptr \in 0 .. Len(tensor) /\ pts \in Seq(Int) /\ frames \in Nat
      /\ sync.firstSlot \in Int /\ sync.nextSlot \in Int /\ sync.emitted \in Nat
      /\ sync.nextSlot = sync.firstSlot + sync.emitted
      /\ previous \in Nat /\ grew \in BOOLEAN
  BY <1>1, LenProperties DEF TypeInv, Syncs, TimestampsAreSlots
<1>4. frames = 0 => n = 0
  BY <1>1, <1>2 DEF LastKept
<1> HIDE DEF n
<1>5. /\ sync'.firstSlot = sync.firstSlot
      /\ sync'.nextSlot = sync.nextSlot + n /\ sync'.emitted = sync.emitted + n
      /\ sync' \in Syncs
  <2>1. sync' = [sync EXCEPT !.nextSlot = @ + n, !.emitted = @ + n]
    BY <1>1 DEF Finished
  <2>2. sync.nextSlot + n \in Int /\ sync.emitted + n \in Nat
    BY <1>2, <1>3
  <2>3. sync \in Syncs
    BY DEF TypeInv
  <2>q. QED
    BY <2>1, <2>2, <2>3 DEF Syncs
<1>6. Counts(n, 0)
  BY <1>1, <1>2, <1>3, <1>4, <1>5 DEF Counts
<1>7. CASE previous = NoRow \/ n = 0
  <2>1. tensor' = tensor /\ ptr' = ptr /\ pts' = pts /\ previous' = previous
        /\ grew' = grew /\ views' = views
    BY <1>7 DEF Finish, output, n
  <2>2. n = 0
    <3>1. CASE previous = NoRow
      <4>1. frames = 0
        BY <1>1, <1>3, <3>1 DEF LastKept, NoRow
      <4>q. QED
        BY <1>4, <4>1
    <3>q. QED
      BY <1>7, <3>1
  <2>3. pts \o Stamps(sync'.firstSlot, ptr, 0 + 0) = pts
    <3>1. Stamps(sync'.firstSlot, ptr, 0 + 0) = << >>
      BY DEF Stamps
    <3>q. QED
      BY <1>3, <3>1, ConcatEmptySeq
  <2>4. ptr + 0 + 0 = ptr /\ ptr + 0 = ptr
    BY <1>3
  <2>5. /\ \A row \in ptr + 1 .. ptr : FALSE
        /\ ptr <= Len(tensor)
    BY <1>3
  <2>6. Adds(0, 0)
    BY <1>3, <2>1, <2>3, <2>4, <2>5 DEF Adds
  <2>q. QED
    BY <1>1, <1>3, <1>5, <1>6, <2>1, <2>2, <2>6 DEF n
<1>8. CASE ~ (previous = NoRow \/ n = 0)
  <2> DEFINE u == WithCopies(tensor, ptr, n, tensor[previous])
  <2>1. /\ Room(tensor, ptr + n) /\ tensor' = u /\ ptr' = ptr + n /\ previous' = ptr + n
        /\ pts' = pts \o Stamps(sync.firstSlot, ptr, n)
        /\ grew' = (grew \/ Len(tensor') > Len(tensor)) /\ views' = views
    BY <1>8 DEF Finish, n
  <2>2. n > 0
    BY <1>2, <1>8
  <2>3. ptr # MaxRows
    <3>1. ptr + n <= MaxRows
      BY <1>2, <1>3, <2>1, CliAssumption DEF Room
    <3>q. QED
      BY <1>2, <1>3, <2>2, <3>1, CliAssumption
  <2>4. tensor[previous] = frames
    BY <1>1, <1>8, <1>4, <2>3 DEF LastKept
  <2>5. Extended(tensor, u, ptr, n, frames)
    BY <1>2, <1>3, <2>1, <2>4, CopiesExtend
  <2> HIDE DEF u
  <2>6. ptr + n + 0 = ptr + n /\ n + 0 = n /\ \A row \in ptr + n + 1 .. ptr + n : FALSE
    BY <1>2, <1>3
  <2>7. Adds(n, 0)
    BY <1>5, <2>1, <2>5, <2>6 DEF Adds, Extended
  <2>8. previous' \in Nat /\ grew' \in BOOLEAN
    BY <1>2, <1>3, <2>1
  <2>q. QED
    BY <1>1, <1>5, <1>6, <2>1, <2>7, <2>8 DEF n
<1>q. QED
  BY <1>7, <1>8

LEMMA FinishKeeps ==
  ASSUME IInv, Finish
  PROVE  IInv'
<1>1. /\ TypeInv /\ RowsShowFrames /\ LastKept
      /\ TimestampsAreSlots /\ ViewsKeepTheirFrame /\ NeverTooEarly /\ OutputKeepsUp
  BY DEF IInv
<1> DEFINE n == FinalCopies
<1>2. /\ Adds(n, 0) /\ Counts(n, 0)
      /\ sync' \in Syncs /\ previous' \in Nat /\ grew' \in BOOLEAN
      /\ views' = views /\ frames' = frames /\ spans' = spans
      /\ phase = "open" /\ phase' = "flushed"
  BY <1>1, FinishAdds
<1> HIDE DEF n
<1>3. phase # "failed"
  BY <1>2
<1>4. RowsShowFrames'
  BY <1>1, <1>2, <1>3, FramesKept
<1>5. TimestampsAreSlots' /\ pts' \in Seq(Int)
  BY <1>1, <1>2, <1>3, SlotsKept, StampsAdded
<1>6. ViewsKeepTheirFrame' /\ \A view \in views' : view.row \in 1 .. ptr'
  BY <1>1, <1>2, <1>3, ViewsKept
<1>7. NeverTooEarly'
  <2>1. \A f \in 1 .. frames : spans'[f] = spans[f]
    BY <1>2
  <2>q. QED
    BY <1>1, <1>2, <2>1, TimesKept
<1>8. OutputKeepsUp' /\ LastKept'
  BY <1>2 DEF OutputKeepsUp, LastKept
<1>9. TypeInv'
  <2>1. tensor' \in Seq(Nat) /\ ptr' \in Nat
    <3>1. tensor' \in Seq(Nat) /\ ptr' = ptr + n + 0
      BY <1>2 DEF Adds
    <3>2. ptr \in Nat /\ n \in Nat
      BY <1>1, <1>2 DEF TypeInv, Counts
    <3>q. QED
      BY <3>1, <3>2
  <2>2. SpansTyped' /\ frames' \in Nat
    BY <1>1, <1>2 DEF TypeInv, SpansTyped
  <2>q. QED
    BY <1>2, <1>5, <1>6, <2>1, <2>2 DEF TypeInv
<1>q. QED
  BY <1>4, <1>5, <1>6, <1>7, <1>8, <1>9 DEF IInv

(* What is cut off the tensor is past the rows and past every view.        *)
LEMMA HandOutKeeps ==
  ASSUME IInv, HandOut
  PROVE  /\ IInv' /\ SubSeq(tensor', 1, ptr) = SubSeq(tensor, 1, ptr)
<1>1. /\ TypeInv /\ RowsShowFrames /\ TimestampsAreSlots
      /\ ViewsKeepTheirFrame /\ NeverTooEarly
  BY DEF IInv
<1>2. /\ phase = "flushed" /\ phase' = "done" /\ sync' = sync /\ ptr' = ptr /\ pts' = pts
      /\ previous' = previous /\ grew' = grew /\ views' = views /\ frames' = frames
      /\ spans' = spans
      /\ tensor' = IF grew /\ ViewsInside THEN SubSeq(tensor, 1, ptr) ELSE tensor
  BY DEF HandOut
<1>3. /\ tensor \in Seq(Nat) /\ Len(tensor) \in Nat /\ Len(tensor) <= MaxRows
      /\ ptr \in 0 .. Len(tensor)
  BY <1>1, <1>2, LenProperties DEF TypeInv, TimestampsAreSlots
<1>4. /\ tensor' \in Seq(Nat) /\ ptr <= Len(tensor') /\ Len(tensor') <= MaxRows
      /\ \A row \in 1 .. ptr : tensor'[row] = tensor[row]
      /\ SubSeq(tensor', 1, ptr) = SubSeq(tensor, 1, ptr)
  <2>1. CASE tensor' = tensor
    BY <1>3, <2>1
  <2>2. CASE tensor' = SubSeq(tensor, 1, ptr)
    <3> DEFINE cut == SubSeq(tensor, 1, ptr)
    <3>1. /\ cut \in Seq(Nat) /\ Len(cut) = IF 1 <= ptr THEN ptr - 1 + 1 ELSE 0
          /\ \A i \in 1 .. ptr - 1 + 1 : cut[i] = tensor[1 + i - 1]
      BY <1>3, SubSeqProperties
    <3> HIDE DEF cut
    <3>2. Len(cut) = ptr
      BY <1>3, <3>1
    <3>3. \A row \in 1 .. ptr : cut[row] = tensor[row]
      <4> TAKE row \in 1 .. ptr
      <4>1. row \in 1 .. ptr - 1 + 1 /\ 1 + row - 1 = row
        BY <1>3
      <4>q. QED
        BY <3>1, <4>1
    <3>4. SubSeq(cut, 1, ptr) = cut
      BY <3>1, <3>2, SubSeqFull
    <3>5. ptr <= Len(cut) /\ Len(cut) <= MaxRows
      BY <1>3, <3>2, CliAssumption
    <3>q. QED
      BY <2>2, <3>1, <3>3, <3>4, <3>5 DEF cut
  <2>q. QED
    BY <1>2, <2>1, <2>2
<1>5. TypeInv'
  BY <1>1, <1>2, <1>4 DEF TypeInv, SpansTyped
<1>6. RowsShowFrames'
  BY <1>1, <1>2, <1>4 DEF RowsShowFrames
<1>7. TimestampsAreSlots'
  BY <1>1, <1>2, <1>4 DEF TimestampsAreSlots
<1>8. ViewsKeepTheirFrame'
  BY <1>1, <1>2, <1>4 DEF ViewsKeepTheirFrame, TypeInv
<1>9. NeverTooEarly'
  BY <1>1, <1>2, <1>4 DEF NeverTooEarly
<1>10. LastKept' /\ OutputKeepsUp'
  BY <1>2 DEF LastKept, OutputKeepsUp
<1>q. QED
  BY <1>4, <1>5, <1>6, <1>7, <1>8, <1>9, <1>10 DEF IInv

(* A decode that fails leaves all as it was.                               *)
LEMMA FailureKeeps ==
  ASSUME IInv, phase' = "failed", UNCHANGED <<sync, output, frames, spans>>
  PROVE  IInv'
<1>1. TypeInv'
  BY DEF IInv, TypeInv, SpansTyped, output
<1>q. QED
  BY <1>1 DEF IInv, RowsShowFrames, LastKept, TimestampsAreSlots, ViewsKeepTheirFrame,
              NeverTooEarly, OutputKeepsUp

LEMMA InitHolds == Init => IInv
<1> SUFFICES ASSUME Init PROVE IInv
  OBVIOUS
<1> USE CliAssumption
<1>1. /\ tensor \in Seq(Nat) /\ Len(tensor) = Planned
  <2>1. tensor \in [1 .. Planned -> Nat]
    BY DEF Init, Unwritten
  <2>q. QED
    BY <2>1, FunctionIsSeq
<1>2. sync \in Syncs
  <2>1. <<0, 0, 0>> \in [1 .. 3 -> Nat]
    OBVIOUS
  <2>q. QED
    BY <2>1 DEF Init, Syncs
<1>3. TypeInv
  <2>1. /\ ptr = 0 /\ pts = << >> /\ previous = 0 /\ grew = FALSE /\ views = {}
        /\ frames = 0 /\ spans = << >> /\ phase = "open"
    BY DEF Init, NoRow
  <2>2. SpansTyped
    BY <2>1 DEF SpansTyped
  <2>3. 0 \in Nat /\ << >> \in Seq(Int) /\ FALSE \in BOOLEAN
    OBVIOUS
  <2>q. QED
    BY ONLY <1>1, <1>2, <2>1, <2>2, <2>3 DEF TypeInv
<1>4. LastKept
  BY DEF Init, LastKept
<1>5. RowsShowFrames /\ ViewsKeepTheirFrame /\ NeverTooEarly /\ OutputKeepsUp
  BY DEF Init, RowsShowFrames, ViewsKeepTheirFrame, NeverTooEarly, OutputKeepsUp
<1>6. TimestampsAreSlots
  BY <1>1 DEF Init, TimestampsAreSlots
<1>q. QED
  BY <1>3, <1>4, <1>5, <1>6 DEF IInv

LEMMA StepHolds == IInv /\ [Next]_vars => IInv'
<1> SUFFICES ASSUME IInv, [Next]_vars PROVE IInv'
  OBVIOUS
<1>1. CASE Frame
  <2>1. PICK stamp \in Timestamps, duration \in Durations :
          LET d == Decision(stamp, duration)
          IN FrameEmitted(d) \/ FrameDropped(d) \/ FrameForgotten(d) \/ FrameOverflows(d)
    BY <1>1 DEF Frame
  <2>2. CASE FrameOverflows(Decision(stamp, duration))
    BY <2>2, FailureKeeps DEF FrameOverflows
  <2>q. QED
    BY <2>1, <2>2, FrameKeeps
<1>2. CASE DecodeError
  BY <1>2, FailureKeeps DEF DecodeError
<1>3. CASE Finish
  BY <1>3, FinishKeeps
<1>4. CASE FinishOverflows
  BY <1>4, FailureKeeps DEF FinishOverflows
<1>5. CASE HandOut
  BY <1>5, HandOutKeeps
<1>6. CASE UNCHANGED vars
  BY <1>6 DEF vars, IInv, TypeInv, SpansTyped, RowsShowFrames, LastKept, TimestampsAreSlots,
              ViewsKeepTheirFrame, NeverTooEarly, OutputKeepsUp
<1>q. QED
  BY <1>1, <1>2, <1>3, <1>4, <1>5, <1>6 DEF Next

(* Every frame the CLI branch of receive_and_filter_frames is given, and   *)
(* the end of the stream, keep the invariant, from setup_video_stream on.  *)
THEOREM InvariantHolds == Spec => []IInv
<1>1. Init => IInv
  BY InitHolds
<1>2. IInv /\ [Next]_vars => IInv'
  BY StepHolds
<1>q. QED
  BY <1>1, <1>2, PTL DEF Spec

(* No timestamp drifts from its row, whatever was dropped, repeated,       *)
(* skipped or forgotten, and the tensor stays in the output limit          *)
(* (CfrSync::push and pts_seconds_of, ensure_cli_capacity).                *)
THEOREM SlotsAlways == Spec => []TimestampsAreSlots
<1>1. IInv => TimestampsAreSlots
  BY DEF IInv
<1>q. QED
  BY <1>1, InvariantHolds, PTL

(* A frame handed out as a view keeps what it shows: the loop writes only  *)
(* rows past the last one emitted, and the trim at the end cuts no view.   *)
THEOREM ViewsAlways == Spec => []ViewsKeepTheirFrame
<1>1. IInv => ViewsKeepTheirFrame
  BY DEF IInv
<1>q. QED
  BY <1>1, InvariantHolds, PTL

(* No row shows a frame more than 1.1 slots early, its copies included:    *)
(* what cfr.rs emits of a frame begins late enough.                        *)
THEOREM TimesAlways == Spec => []NeverTooEarly
<1>1. IInv => NeverTooEarly
  BY DEF IInv
<1>q. QED
  BY <1>1, InvariantHolds, PTL

(* The output never falls a slot behind a frame that was dealt with.       *)
THEOREM PaceAlways == Spec => []OutputKeepsUp
<1>1. IInv => OutputKeepsUp
  BY DEF IInv
<1>q. QED
  BY <1>1, InvariantHolds, PTL

-------------------------------------------------------------------------------
(* The rows emitted as FrameOutput's.                                      *)

LEMMA PrefixFacts ==
  ASSUME NEW t \in Seq(Nat), NEW n \in 0 .. Len(t)
  PROVE  /\ SubSeq(t, 1, n) \in Seq(Nat) /\ Len(SubSeq(t, 1, n)) = n
         /\ \A i \in 1 .. n : SubSeq(t, 1, n)[i] = t[i]
<1> DEFINE cut == SubSeq(t, 1, n)
<1>1. Len(t) \in Nat /\ n \in Nat /\ n <= Len(t)
  BY LenProperties
<1>2. /\ cut \in Seq(Nat) /\ Len(cut) = IF 1 <= n THEN n - 1 + 1 ELSE 0
      /\ \A i \in 1 .. n - 1 + 1 : cut[i] = t[1 + i - 1]
  BY <1>1, SubSeqProperties
<1> HIDE DEF cut
<1>3. Len(cut) = n
  BY <1>1, <1>2
<1>4. \A i \in 1 .. n : cut[i] = t[i]
  <2> TAKE i \in 1 .. n
  <2>1. i \in 1 .. n - 1 + 1 /\ 1 + i - 1 = i
    BY <1>1
  <2>q. QED
    BY <1>2, <2>1
<1>q. QED
  BY <1>2, <1>3, <1>4 DEF cut

LEMMA CopiesFacts ==
  ASSUME NEW f \in Nat, NEW n \in Nat
  PROVE  /\ Promised!Copies(f, n) \in Seq(Nat) /\ Len(Promised!Copies(f, n)) = n
         /\ \A i \in 1 .. n : Promised!Copies(f, n)[i] = f
<1> DEFINE c == Promised!Copies(f, n)
<1>1. c = [i \in 1 .. n |-> f]
  BY DEF Promised!Copies
<1> HIDE DEF c
<1>2. c \in [1 .. n -> Nat]
  BY <1>1
<1>3. c \in Seq(Nat) /\ Len(c) = n
  BY <1>2, FunctionIsSeq
<1>q. QED
  BY <1>1, <1>3 DEF c

(* The rows added, as copies that follow the rows there were.              *)
LEMMA AddsShown ==
  ASSUME TypeInv, TimestampsAreSlots, phase # "failed",
         NEW before \in Nat, NEW own \in Nat, Adds(before, own)
  PROVE  /\ SubSeq(tensor', 1, ptr') =
              SubSeq(tensor, 1, ptr) \o Promised!Copies(frames, before)
                \o Promised!Copies(frames + 1, own)
         /\ Len(SubSeq(tensor', 1, ptr')) = ptr'
         /\ before \in 0 .. ptr' /\ own \in 0 .. ptr'
<1> DEFINE a == SubSeq(tensor, 1, ptr)
           b == Promised!Copies(frames, before)
           c == Promised!Copies(frames + 1, own)
           z == SubSeq(tensor', 1, ptr')
<1>1. /\ tensor \in Seq(Nat) /\ ptr \in 0 .. Len(tensor) /\ ptr \in Nat /\ frames \in Nat
      /\ Len(tensor) \in Nat
  BY LenProperties DEF TypeInv, TimestampsAreSlots
<1>2. /\ tensor' \in Seq(Nat) /\ ptr' = ptr + before + own /\ ptr' <= Len(tensor')
      /\ \A row \in 1 .. ptr : tensor'[row] = tensor[row]
      /\ \A row \in ptr + 1 .. ptr + before : tensor'[row] = frames
      /\ \A row \in ptr + before + 1 .. ptr' : tensor'[row] = frames + 1
  BY DEF Adds
<1>3. ptr' \in 0 .. Len(tensor')
  BY <1>1, <1>2, LenProperties
<1>4. /\ a \in Seq(Nat) /\ Len(a) = ptr
      /\ \A i \in 1 .. ptr : a[i] = tensor[i]
  BY <1>1, PrefixFacts
<1>5. /\ z \in Seq(Nat) /\ Len(z) = ptr'
      /\ \A i \in 1 .. ptr' : z[i] = tensor'[i]
  BY <1>2, <1>3, PrefixFacts
<1>6. /\ b \in Seq(Nat) /\ Len(b) = before
      /\ \A i \in 1 .. before : b[i] = frames
  BY <1>1, CopiesFacts
<1>7. /\ c \in Seq(Nat) /\ Len(c) = own
      /\ \A i \in 1 .. own : c[i] = frames + 1
  <2>1. frames + 1 \in Nat
    BY <1>1
  <2>q. QED
    BY <2>1, CopiesFacts
<1> HIDE DEF a, b, c, z
<1> DEFINE ab == a \o b
           abc == ab \o c
<1>8. /\ ab \in Seq(Nat) /\ Len(ab) = ptr + before
      /\ \A i \in 1 .. ptr + before : ab[i] = IF i <= ptr THEN a[i] ELSE b[i - ptr]
  <2>1. a \in Seq(Nat) /\ b \in Seq(Nat)
    BY <1>4, <1>6
  <2>2. /\ ab \in Seq(Nat) /\ Len(ab) = Len(a) + Len(b)
        /\ \A i \in 1 .. Len(a) + Len(b) :
             ab[i] = IF i <= Len(a) THEN a[i] ELSE b[i - Len(a)]
    BY ONLY <2>1, ConcatProperties
  <2> HIDE DEF ab
  <2>q. QED
    BY ONLY <1>4, <1>6, <2>2
<1> HIDE DEF ab
<1>9. /\ abc \in Seq(Nat) /\ Len(abc) = ptr + before + own
      /\ \A i \in 1 .. ptr + before + own :
           abc[i] = IF i <= ptr + before THEN ab[i] ELSE c[i - (ptr + before)]
  <2>1. /\ abc \in Seq(Nat) /\ Len(abc) = Len(ab) + Len(c)
        /\ \A i \in 1 .. Len(ab) + Len(c) :
             abc[i] = IF i <= Len(ab) THEN ab[i] ELSE c[i - Len(ab)]
    BY <1>7, <1>8, ConcatProperties
  <2>2. Len(ab) = ptr + before /\ Len(c) = own
    BY <1>7, <1>8
  <2> HIDE DEF abc
  <2>q. QED
    BY ONLY <2>1, <2>2
<1> HIDE DEF abc
<1>10. \A i \in 1 .. Len(z) : z[i] = abc[i]
  <2> SUFFICES ASSUME NEW i \in 1 .. ptr' PROVE z[i] = abc[i]
    BY <1>5
  <2>1. i \in 1 .. ptr + before + own /\ z[i] = tensor'[i]
    BY <1>2, <1>5
  <2>2. CASE i <= ptr
    <3>1. i \in 1 .. ptr /\ i \in 1 .. ptr + before /\ i <= ptr + before
      BY <1>1, <2>1, <2>2
    <3>2. abc[i] = ab[i]
      BY ONLY <1>9, <2>1, <3>1
    <3>3. ab[i] = a[i]
      BY ONLY <1>8, <2>2, <3>1
    <3>4. a[i] = tensor[i] /\ tensor'[i] = tensor[i]
      BY ONLY <1>2, <1>4, <3>1
    <3>q. QED
      BY ONLY <2>1, <3>2, <3>3, <3>4
  <2>3. CASE ~ (i <= ptr) /\ i <= ptr + before
    <3>1. i \in ptr + 1 .. ptr + before /\ i - ptr \in 1 .. before /\ i \in 1 .. ptr + before
      BY <1>1, <2>1, <2>3
    <3>q. QED
      BY <1>2, <1>6, <1>8, <1>9, <2>1, <2>3, <3>1
  <2>4. CASE ~ (i <= ptr + before)
    <3>1. i \in ptr + before + 1 .. ptr' /\ i - (ptr + before) \in 1 .. own
      BY <1>1, <1>2, <2>1, <2>4
    <3>q. QED
      BY <1>2, <1>7, <1>9, <2>1, <2>4, <3>1
  <2>q. QED
    BY <2>2, <2>3, <2>4
<1>11. z = abc
  <2>1. Len(z) = Len(abc)
    BY <1>2, <1>5, <1>9
  <2>q. QED
    BY <1>5, <1>9, <1>10, <2>1, SeqEqual
<1>12. before \in 0 .. ptr' /\ own \in 0 .. ptr'
  BY <1>1, <1>2
<1>q. QED
  BY <1>5, <1>11, <1>12 DEF a, b, c, z, ab, abc

(* The rows as FrameOutput sees them.                                      *)
Rows  == IF phase = "failed" THEN << >> ELSE SubSeq(tensor, 1, ptr)
Last  == IF phase = "failed" THEN 0 ELSE frames
Stage == IF phase = "flushed" THEN "done" ELSE phase

LEMMA FrameImplements ==
  ASSUME IInv, NEW stamp \in Timestamps, NEW duration \in Durations,
         LET d == Decision(stamp, duration)
         IN FrameEmitted(d) \/ FrameDropped(d) \/ FrameForgotten(d)
  PROVE  Promised!Frame
<1> DEFINE d == Decision(stamp, duration)
<1>1. TypeInv /\ LastKept /\ TimestampsAreSlots
  BY DEF IInv
<1>2. phase = "open"
  BY DEF FrameEmitted, FrameDropped, FrameForgotten, Received
<1>3. Decided(d) /\ (frames = 0 => d.previous = 0)
  BY <1>1, <1>2, DecisionFacts
<1> HIDE DEF d
<1>4. FrameEmitted(d) \/ FrameDropped(d) \/ FrameForgotten(d)
  BY DEF d
<1>5. Received(d) /\ phase' = "open" /\ Adds(d.previous, d.current)
  BY <1>1, <1>3, <1>4, FrameAdds
<1>6. frames' = frames + 1
  BY <1>5 DEF Received
<1>7. d.previous \in Nat /\ d.current \in Nat
  BY <1>3 DEF Decided
<1>8. /\ Rows' = Rows \o Promised!Copies(frames, d.previous)
                   \o Promised!Copies(frames + 1, d.current)
      /\ Len(Rows') = ptr'
      /\ d.previous \in 0 .. ptr' /\ d.current \in 0 .. ptr'
  <2>1. Rows = SubSeq(tensor, 1, ptr) /\ Rows' = SubSeq(tensor', 1, ptr')
    BY <1>2, <1>5 DEF Rows
  <2>q. QED
    BY <1>1, <1>2, <1>5, <1>7, <2>1, AddsShown
<1>9. Last = frames /\ Last' = frames + 1 /\ Stage = "open" /\ Stage' = "open"
  BY <1>2, <1>5, <1>6 DEF Last, Stage
<1>q. QED
  BY <1>3, <1>8, <1>9 DEF Promised!Frame, Rows, Last, Stage

LEMMA FinishImplements ==
  ASSUME IInv, Finish
  PROVE  Promised!End
<1>1. TypeInv /\ LastKept /\ TimestampsAreSlots
  BY DEF IInv
<1> DEFINE n == FinalCopies
<1>2. /\ Adds(n, 0) /\ Counts(n, 0) /\ frames' = frames
      /\ phase = "open" /\ phase' = "flushed"
  BY <1>1, FinishAdds
<1> HIDE DEF n
<1>3. n \in Nat /\ frames \in Nat
  BY <1>1, <1>2 DEF Counts, TypeInv
<1>4. /\ Rows' = Rows \o Promised!Copies(frames, n)
      /\ Len(Rows') = ptr' /\ n \in 0 .. ptr'
  <2>1. Rows = SubSeq(tensor, 1, ptr) /\ Rows' = SubSeq(tensor', 1, ptr')
    BY <1>2 DEF Rows
  <2> DEFINE b == Promised!Copies(frames, n)
             c == Promised!Copies(frames + 1, 0)
  <2>2. Rows' = Rows \o b \o c /\ Len(Rows') = ptr' /\ n \in 0 .. ptr'
    BY <1>1, <1>2, <1>3, <2>1, AddsShown
  <2>3. c = << >>
    BY DEF Promised!Copies
  <2>4. b \in Seq(Nat)
    BY <1>3, CopiesFacts
  <2>5. Rows \in Seq(Nat)
    BY <1>1, <1>2, <2>1, PrefixFacts, LenProperties DEF TypeInv, TimestampsAreSlots
  <2> HIDE DEF b, c
  <2>6. Rows \o b \in Seq(Nat)
    BY <2>4, <2>5, ConcatProperties
  <2>7. Rows \o b \o c = Rows \o b
    BY <2>3, <2>6, ConcatEmptySeq
  <2>q. QED
    BY <2>2, <2>7 DEF b
<1>5. Last = frames /\ Last' = frames /\ Stage = "open" /\ Stage' = "done"
  BY <1>2 DEF Last, Stage
<1>q. QED
  BY <1>4, <1>5 DEF Promised!End, Rows, Last, Stage

LEMMA FailureImplements ==
  ASSUME phase = "open", phase' = "failed"
  PROVE  Promised!Fail
BY DEF Promised!Fail

LEMMA InitImplements ==
  ASSUME Init PROVE Promised!Init
<1>1. ptr = 0 /\ frames = 0 /\ phase = "open"
  BY DEF Init
<1>2. tensor \in Seq(Nat)
  BY InitHolds DEF IInv, TypeInv
<1>3. SubSeq(tensor, 1, 0) = << >>
  BY <1>2, SubSeqEmpty
<1>q. QED
  BY <1>1, <1>3 DEF Promised!Init

LEMMA StepImplements ==
  ASSUME IInv, [Next]_vars
  PROVE  [Promised!Next]_(Promised!vars)
<1>1. CASE Frame
  <2>1. PICK stamp \in Timestamps, duration \in Durations :
          LET d == Decision(stamp, duration)
          IN FrameEmitted(d) \/ FrameDropped(d) \/ FrameForgotten(d) \/ FrameOverflows(d)
    BY <1>1 DEF Frame
  <2>2. CASE FrameOverflows(Decision(stamp, duration))
    <3>1. Promised!Fail
      BY <2>2, FailureImplements DEF FrameOverflows
    <3>q. QED
      BY <3>1 DEF Promised!Next
  <2>3. CASE ~ FrameOverflows(Decision(stamp, duration))
    <3>1. Promised!Frame
      BY <2>1, <2>3, FrameImplements
    <3>q. QED
      BY <3>1 DEF Promised!Next
  <2>q. QED
    BY <2>2, <2>3
<1>2. CASE DecodeError
  <2>1. Promised!Fail
    BY <1>2, FailureImplements DEF DecodeError
  <2>q. QED
    BY <2>1 DEF Promised!Next
<1>3. CASE Finish
  <2>1. Promised!End
    BY <1>3, FinishImplements
  <2>q. QED
    BY <2>1 DEF Promised!Next
<1>4. CASE FinishOverflows
  <2>1. Promised!Fail
    BY <1>4, FailureImplements DEF FinishOverflows
  <2>q. QED
    BY <2>1 DEF Promised!Next
<1>5. CASE HandOut
  <2>1. SubSeq(tensor', 1, ptr) = SubSeq(tensor, 1, ptr)
    BY <1>5, HandOutKeeps
  <2>2. ptr' = ptr /\ frames' = frames /\ phase = "flushed" /\ phase' = "done"
    BY <1>5 DEF HandOut
  <2>q. QED
    BY <2>1, <2>2 DEF Promised!vars
<1>6. CASE UNCHANGED vars
  BY <1>6 DEF vars, Promised!vars
<1>q. QED
  BY <1>1, <1>2, <1>3, <1>4, <1>5, <1>6 DEF Next

(* Whatever the timestamps, the limit and the growth of the tensor, the    *)
(* rows emitted are the frames in decode order, each for a run of rows,    *)
(* gaps filled with the last frame decoded, even one that was dropped; or  *)
(* the decode fails.                                                       *)
THEOREM Refinement == Spec => ImplementsFrameOutput
<1>1. Init => Promised!Init
  BY InitImplements
<1>2. IInv /\ [Next]_vars => [Promised!Next]_(Promised!vars)
  BY StepImplements
<1>q. QED
  BY <1>1, <1>2, InvariantHolds, PTL DEF Spec, ImplementsFrameOutput, Promised!Spec

-------------------------------------------------------------------------------
(* The timestamps in front of the output.  The packets of a stream decoded *)
(* in this mode were corrected by DemuxFixup before: for any stream, the   *)
(* shift in effect is one rounding away from the one a packet at a jump    *)
(* was given, and exactly that of the others, however many jumps came      *)
(* before.                                                                 *)

(* The distance a fixed packet was moved, compared to the shift so far.    *)
OffShift(p) == Magnitude((p.fixedDts - p.dts) - Ticks(discontOffset))
Jumped(p) == IF p.jump THEN 1 ELSE 0

FixupTyped ==
  /\ tsDiscont \in BOOLEAN /\ hasRate \in BOOLEAN
  /\ tsOffset \in Int /\ discontOffset \in Int
  /\ nextDts \in Int \union {None} /\ dts \in Int
  /\ nextDts # None => dts <= nextDts
  /\ read \in Nat

PacketInv ==
  read > 0 =>
    /\ packet.jump \in BOOLEAN
    /\ packet.jump => packet.fixedDts # None
    /\ packet.fixedDts # None =>
         packet.fixedDts \in Int /\ packet.dts \in Int /\ OffShift(packet) <= Jumped(packet)

(* It holds of the packet before as long as no other jump comes.           *)
AnchorInv ==
  anchor # None =>
    /\ read > 0
    /\ anchor.fixedDts \in Int /\ anchor.dts \in Int /\ anchor.jump \in BOOLEAN
    /\ ~ packet.jump => OffShift(anchor) <= Jumped(anchor)

FixupInv == FixupTyped /\ PacketInv /\ AnchorInv /\ Continuous /\ KeepsPace

-------------------------------------------------------------------------------
(* Rounding.                                                               *)
LEMMA DivBounds ==
  ASSUME NEW a \in Nat, NEW b \in Nat \ {0}
  PROVE  a \div b \in Nat /\ b * (a \div b) <= a /\ a < b * (a \div b) + b
BY SMTT(30)

(* What is rescaled is within half a unit of the new scale.                *)
LEMMA RescaleRounds ==
  ASSUME NEW x \in Int, NEW num \in Nat \ {0}, NEW den \in Nat \ {0}
  PROVE  /\ Rescale(x, num, den) \in Int
         /\ x >= 0 => Rescale(x, num, den) \in Nat
         /\ 2 * Magnitude(Rescale(x, num, den) * den - x * num) <= den
<1> DEFINE m == Magnitude(x) * num
           h == den \div 2
           q == (m + h) \div den
<1>1. Magnitude(x) \in Nat /\ m \in Nat /\ x * num \in Int
  BY DEF Magnitude
<1>2. x * num = IF x < 0 THEN -m ELSE m
  <2>1. CASE x < 0
    <3>1. Magnitude(x) = -x /\ (-x) * num = -(x * num)
      BY <2>1 DEF Magnitude
    <3>q. QED
      BY <1>1, <2>1, <3>1
  <2>2. CASE ~ (x < 0)
    BY <2>2 DEF Magnitude
  <2>q. QED
    BY <2>1, <2>2
<1>3. h \in Nat /\ (den = 2 * h \/ den = 2 * h + 1)
  OBVIOUS
<1>4. Rescale(x, num, den) = IF x < 0 THEN -q ELSE q
  BY DEF Rescale
<1> HIDE DEF m, h
<1>5. /\ q \in Nat /\ den * q <= m + h /\ m + h < den * q + den
  <2>1. m + h \in Nat
    BY <1>1, <1>3
  <2>q. QED
    BY ONLY <2>1, den \in Nat \ {0}, DivBounds
<1> HIDE DEF q
<1> DEFINE z == den * q
<1>6. z \in Int /\ q * den = z /\ (-q) * den = -z
  BY <1>5
<1>7. Rescale(x, num, den) * den = IF x < 0 THEN -z ELSE z
  BY <1>4, <1>6
<1>8. z <= m + h /\ m + h < z + den
  BY <1>5
<1>9. Rescale(x, num, den) \in Int /\ (x >= 0 => Rescale(x, num, den) \in Nat)
  BY <1>4, <1>5
<1> HIDE DEF z
<1>10. 2 * Magnitude(Rescale(x, num, den) * den - x * num) <= den
  <2>1. CASE x < 0
    BY <1>1, <1>2, <1>3, <1>6, <1>7, <1>8, <2>1 DEF Magnitude
  <2>2. CASE ~ (x < 0)
    BY <1>1, <1>2, <1>3, <1>6, <1>7, <1>8, <2>2 DEF Magnitude
  <2>q. QED
    BY <2>1, <2>2
<1>q. QED
  BY <1>9, <1>10

(* To ticks within half a tick, to microseconds within half of one.        *)
LEMMA RoundsToHalf ==
  ASSUME DemuxAssumption, NEW x \in Int
  PROVE  /\ Ticks(x) \in Int /\ Micros(x) \in Int
         /\ x >= 0 => Micros(x) \in Nat
         /\ 2 * Magnitude(Ticks(x) * TickNum - x * TickDen) <= TickNum
         /\ 2 * Magnitude(Micros(x) * TickDen - x * TickNum) <= TickDen
<1>1. TickNum \in Nat \ {0} /\ TickDen \in Nat \ {0}
  BY DEF DemuxAssumption
<1>q. QED
  BY <1>1, RescaleRounds DEF Ticks, Micros

(* Rounding a difference or the difference of what was rounded: at most a  *)
(* tick apart.                                                             *)
LEMMA RoundsApart ==
  ASSUME DemuxAssumption, NEW a \in Int, NEW d \in Int
  PROVE  Magnitude((Ticks(a) - Ticks(d)) - Ticks(a - d)) <= 1
<1> DEFINE n == (Ticks(a) - Ticks(d)) - Ticks(a - d)
<1>1. /\ Ticks(a) \in Int
      /\ 2 * Magnitude(Ticks(a) * TickNum - a * TickDen) <= TickNum
      /\ Ticks(d) \in Int
      /\ 2 * Magnitude(Ticks(d) * TickNum - d * TickDen) <= TickNum
      /\ Ticks(a - d) \in Int
      /\ 2 * Magnitude(Ticks(a - d) * TickNum - (a - d) * TickDen) <= TickNum
  <2>1. a - d \in Int
    OBVIOUS
  <2>2. \A x \in Int : Ticks(x) \in Int /\ 2 * Magnitude(Ticks(x) * TickNum - x * TickDen) <= TickNum
    BY RoundsToHalf
  <2> HIDE DEF n
  <2>q. QED
    BY ONLY <2>1, <2>2, a \in Int, d \in Int
<1>2. TickNum \in Nat \ {0} /\ TickDen \in Nat \ {0}
  BY DEF DemuxAssumption
<1>3. /\ n \in Int
      /\ n * TickNum = (Ticks(a) * TickNum - Ticks(d) * TickNum)
                            - Ticks(a - d) * TickNum
  BY <1>1, <1>2
<1>4. 2 * (n * TickNum) <= 3 * TickNum /\ -(3 * TickNum) <= 2 * (n * TickNum)
  <2> DEFINE ta == Ticks(a) * TickNum
             td == Ticks(d) * TickNum
             te == Ticks(a - d) * TickNum
             va == a * TickDen
             vd == d * TickDen
  <2>1. /\ ta \in Int /\ td \in Int /\ te \in Int /\ va \in Int /\ vd \in Int
        /\ (a - d) * TickDen = va - vd
    BY <1>1, <1>2
  <2>2. n * TickNum = (ta - td) - te
    BY <1>3
  <2>3. /\ 2 * Magnitude(ta - va) <= TickNum /\ 2 * Magnitude(td - vd) <= TickNum
        /\ 2 * Magnitude(te - (va - vd)) <= TickNum
    BY <1>1, <2>1
  <2> HIDE DEF ta, td, te, va, vd, n
  <2>q. QED
    BY <1>2, <2>1, <2>2, <2>3 DEF Magnitude
<1> HIDE DEF n
<1>5. n >= 2 => n * TickNum >= 2 * TickNum
  BY <1>2, <1>3
<1>6. n <= -2 => n * TickNum <= -(2 * TickNum)
  BY <1>2, <1>3
<1>7. n * TickNum \in Int
  BY <1>2, <1>3
<1>8. n < 2 /\ n > -2
  BY <1>2, <1>3, <1>4, <1>5, <1>6, <1>7
<1>9. Magnitude(n) <= 1
  BY <1>3, <1>8 DEF Magnitude
<1>q. QED
  BY <1>9 DEF n

-------------------------------------------------------------------------------
PacketStamp == Int \union {None}

(* What fix makes of the two timestamps of a packet.                       *)
LEMMA FixedStamps ==
  ASSUME DemuxAssumption, FixupTyped, NEW p \in PacketStamp, NEW d \in PacketStamp
  PROVE  /\ Shift \in Int /\ Correction(d) \in Int /\ Jumps(d) \in BOOLEAN
         /\ \A s \in {p, d} : Fixed(s, d) # None =>
              /\ s \in Int /\ Fixed(s, d) \in Int
              /\ Fixed(s, d) = s + (Shift - Correction(d))
         /\ d # None /\ tsDiscont => Fixed(d, d) # None
         /\ Jumps(d) => tsDiscont /\ d \in Int /\ nextDts \in Int /\ Delta(d) \in Int
                         /\ Correction(d) = Ticks(Delta(d))
         /\ ~ Jumps(d) => Correction(d) = 0
<1> USE DEF DemuxAssumption, PacketStamp
<1>1. Ticks(discontOffset) \in Int
  BY RoundsToHalf DEF FixupTyped
<1>2. Shift \in Int
  BY <1>1 DEF Shift, FixupTyped
<1>3. Jumps(d) => tsDiscont /\ d \in Int /\ nextDts \in Int
  BY DEF Jumps, FixupTyped
<1>4. Jumps(d) => Delta(d) \in Int
  BY <1>2, <1>3, RoundsToHalf DEF Delta
<1>5. Correction(d) \in Int /\ Jumps(d) \in BOOLEAN
  BY <1>4, RoundsToHalf DEF Correction, Jumps
<1>6. \A s \in {p, d} : Fixed(s, d) # None =>
        /\ s \in Int /\ Fixed(s, d) \in Int
        /\ Fixed(s, d) = s + (Shift - Correction(d))
  BY <1>2, <1>5 DEF Fixed, Plus
<1>7. ASSUME d # None, tsDiscont PROVE Fixed(d, d) # None
  <2>1. Fixed(d, d) = d + (Shift - Correction(d)) /\ d \in Int
    BY <1>7 DEF Fixed, Plus, Off
  <2>q. QED
    BY <1>2, <1>5, <2>1
<1>q. QED
  BY <1>2, <1>3, <1>4, <1>5, <1>6, <1>7 DEF Correction

(* At a jump the fixed dts is the predicted one, to half a tick and the two *)
(* roundings to microseconds.                                              *)
LEMMA JumpLandsAsPredicted ==
  ASSUME DemuxAssumption, FixupTyped, NEW d \in PacketStamp, Jumps(d)
  PROVE  2 * (TickDen * Magnitude(Micros(Fixed(d, d)) - nextDts)) <= TickNum + 2 * TickDen
<1> DEFINE e == d + Shift
           k == Ticks(Delta(d))
           f == Fixed(d, d)
           mf == Micros(f)
           me == Micros(e)
<1>1. /\ Shift \in Int /\ d \in Int /\ nextDts \in Int /\ Delta(d) \in Int
      /\ e \in Int /\ k \in Int /\ f \in Int /\ f = e - k
  <2>1. /\ Shift \in Int /\ d \in Int /\ nextDts \in Int /\ Delta(d) \in Int
        /\ f = d + (Shift - k)
    BY FixedStamps DEF PacketStamp, DemuxAssumption
  <2>2. k \in Int
    BY <2>1, RoundsToHalf
  <2>q. QED
    BY <2>1, <2>2
<1>2. Delta(d) = me - nextDts
  BY DEF Delta
<1>3. TickNum \in Nat \ {0} /\ TickDen \in Nat \ {0}
  BY DEF DemuxAssumption
<1>4. /\ mf \in Int /\ 2 * Magnitude(mf * TickDen - f * TickNum) <= TickDen
      /\ me \in Int /\ 2 * Magnitude(me * TickDen - e * TickNum) <= TickDen
      /\ 2 * Magnitude(k * TickNum - Delta(d) * TickDen) <= TickNum
  BY <1>1, RoundsToHalf
<1> HIDE DEF e, k, f, mf, me
<1> DEFINE en == e * TickNum
           kn == k * TickNum
           fd == mf * TickDen
           ed == me * TickDen
           nd == nextDts * TickDen
<1>5. /\ en \in Int /\ kn \in Int /\ fd \in Int /\ ed \in Int /\ nd \in Int
      /\ f * TickNum = en - kn /\ Delta(d) * TickDen = ed - nd
      /\ (mf - nextDts) * TickDen = fd - nd
  BY <1>1, <1>2, <1>3, <1>4
<1>6. /\ 2 * Magnitude(fd - (en - kn)) <= TickDen
      /\ 2 * Magnitude(ed - en) <= TickDen
      /\ 2 * Magnitude(kn - (ed - nd)) <= TickNum
  BY <1>4, <1>5
<1>7. TickDen * Magnitude(mf - nextDts) = Magnitude(fd - nd)
  <2>1. mf - nextDts \in Int /\ (-(mf - nextDts)) * TickDen = -((mf - nextDts) * TickDen)
    BY <1>1, <1>3, <1>4
  <2>2. mf - nextDts < 0 => fd - nd < 0
    BY <1>3, <1>5, <2>1
  <2>3. mf - nextDts >= 0 => fd - nd >= 0
    BY <1>3, <1>5, <2>1
  <2>q. QED
    BY <1>3, <1>5, <2>1, <2>2, <2>3 DEF Magnitude
<1> HIDE DEF en, kn, fd, ed, nd
<1>8. 2 * Magnitude(fd - nd) <= TickNum + 2 * TickDen
  BY <1>3, <1>5, <1>6 DEF Magnitude
<1>q. QED
  BY <1>7, <1>8 DEF f, mf

LEMMA FixupStart ==
  ASSUME DemuxAssumption, DemuxInit
  PROVE  FixupInv
<1> USE DEF DemuxAssumption, DemuxInit
<1>1. FixupTyped
  <2>1. tsOffset \in Int
    BY RoundsToHalf
  <2>q. QED
    BY <2>1 DEF FixupTyped
<1>2. PacketInv /\ AnchorInv /\ Continuous /\ KeepsPace
  BY DEF PacketInv, AnchorInv, Continuous, KeepsPace
<1>q. QED
  BY <1>1, <1>2 DEF FixupInv

LEMMA FixSafe ==
  ASSUME DemuxAssumption, FineTicks, FixupInv,
         NEW p \in PacketStamp, NEW d \in PacketStamp, NEW duration \in Nat, NEW fields \in Nat,
         Fix(p, d, duration, fields)
  PROVE  FixupInv'
<1> DEFINE f == Fixed(d, d)
           g == Fixed(p, d)
           c == Correction(d)
           moved == Ticks(discontOffset) - c
<1>0. FixupTyped /\ PacketInv /\ AnchorInv
  BY DEF FixupInv
<1>1. /\ Shift \in Int /\ c \in Int /\ Jumps(d) \in BOOLEAN
      /\ f # None => d \in Int /\ f \in Int /\ f = d + (Shift - c)
      /\ g # None => p \in Int /\ g \in Int /\ g = p + (Shift - c)
      /\ d # None /\ tsDiscont => f # None
      /\ Jumps(d) => tsDiscont /\ d \in Int /\ nextDts \in Int /\ Delta(d) \in Int
                      /\ c = Ticks(Delta(d))
      /\ ~ Jumps(d) => c = 0
  BY <1>0, FixedStamps
<1>2. /\ discontOffset' = IF Jumps(d) THEN discontOffset - Delta(d) ELSE discontOffset
      /\ UNCHANGED <<tsDiscont, hasRate, tsOffset>>
      /\ packet'.pts = p /\ packet'.dts = d /\ packet'.jump = Jumps(d)
      /\ packet'.previous = dts /\ packet'.predicted = nextDts
      /\ packet'.fixedPts = Plus(g, -tsOffset) /\ packet'.fixedDts = Plus(f, -tsOffset)
      /\ anchor' = IF read > 0 /\ packet.fixedDts # None THEN packet ELSE anchor
      /\ read \in Nat /\ read' = read + 1
  BY <1>0 DEF Fix, Shifted, FixupTyped
<1>3. /\ discontOffset \in Int /\ tsOffset \in Int /\ Ticks(discontOffset) \in Int
      /\ Shift = tsOffset + Ticks(discontOffset)
  BY <1>0, RoundsToHalf DEF FixupTyped, Shift, DemuxAssumption
<1>4. /\ packet'.fixedDts # None =>
           f # None /\ packet'.fixedDts \in Int /\ packet'.fixedDts = f - tsOffset
           /\ packet'.fixedDts = d + moved
      /\ packet'.fixedPts # None => g # None /\ packet'.fixedPts = p + moved
      /\ f # None => packet'.fixedDts # None
  <2>1. packet'.fixedDts # None => f # None
    BY <1>2 DEF Plus
  <2>2. packet'.fixedPts # None => g # None
    BY <1>2 DEF Plus
  <2>3. f # None => packet'.fixedDts = f - tsOffset /\ f - tsOffset \in Int
    BY <1>1, <1>2, <1>3 DEF Plus
  <2>4. g # None => packet'.fixedPts = g - tsOffset
    BY <1>1, <1>2, <1>3 DEF Plus
  <2>q. QED
    BY <1>1, <1>3, <2>1, <2>2, <2>3, <2>4 DEF DemuxAssumption
<1> HIDE DEF f, g, c
<1>5. FixupTyped'
  <2>1. discontOffset' \in Int
    BY <1>1, <1>2, <1>3
  <2>2. Current(p, d) \in Int
    <3>1. Fixed(d, d) # None => Micros(Fixed(d, d)) \in Int
      BY <1>1, RoundsToHalf DEF f
    <3>2. First(p, d) \in Int
      BY <1>0, <1>1, RoundsToHalf DEF g, First, FixupTyped
    <3>q. QED
      BY <1>0, <3>1, <3>2 DEF Current, FixupTyped
  <2>3. Length(duration, fields) \in Nat
    <3>1. Micros(duration) \in Nat
      BY RoundsToHalf
    <3>2. Rescale(fields, FieldNum, FieldDen) \in Nat
      BY RescaleRounds DEF DemuxAssumption
    <3>q. QED
      BY <3>1, <3>2 DEF Length
  <2>4. /\ dts' = Current(p, d)
        /\ nextDts' = Current(p, d) + Length(duration, fields)
    BY DEF Fix
  <2>q. QED
    BY <1>0, <1>2, <2>1, <2>2, <2>3, <2>4 DEF FixupTyped
<1>6. PacketInv'
  <2>1. Jumps(d) => packet'.fixedDts # None
    BY <1>1, <1>4 DEF DemuxAssumption
  <2>2. ASSUME packet'.fixedDts # None
        PROVE  /\ packet'.fixedDts \in Int /\ packet'.dts \in Int
               /\ OffShift(packet)' <= Jumped(packet)'
    <3>1. packet'.fixedDts \in Int /\ packet'.dts \in Int /\ packet'.fixedDts - packet'.dts = moved
      BY <1>1, <1>2, <1>3, <1>4, <2>2
    <3>2. OffShift(packet)' = Magnitude(moved - Ticks(discontOffset'))
      BY <3>1 DEF OffShift, Ticks, Rescale, Magnitude
    <3>3. CASE Jumps(d)
      BY <1>1, <1>2, <1>3, <3>1, <3>2, <3>3, RoundsApart DEF Jumped
    <3>4. CASE ~ Jumps(d)
      BY <1>1, <1>2, <1>3, <3>1, <3>2, <3>4 DEF Jumped, Magnitude
    <3>q. QED
      BY <1>1, <3>1, <3>3, <3>4
  <2>q. QED
    BY <1>1, <1>2, <2>1, <2>2 DEF PacketInv
<1>7. ASSUME anchor' # None
      PROVE  /\ anchor'.fixedDts \in Int /\ anchor'.dts \in Int /\ anchor'.jump \in BOOLEAN
             /\ ~ Jumps(d) =>
                  Magnitude((anchor'.fixedDts - anchor'.dts) - Ticks(discontOffset))
                                <= Jumped(anchor')
  <2>1. CASE read > 0 /\ packet.fixedDts # None
    BY <1>0, <1>2, <2>1 DEF PacketInv, OffShift, Jumped
  <2>2. CASE ~ (read > 0 /\ packet.fixedDts # None)
    BY <1>0, <1>2, <1>7, <2>2 DEF PacketInv, AnchorInv, OffShift, Jumped
  <2>q. QED
    BY <2>1, <2>2
<1>8. AnchorInv'
  BY <1>2, <1>7 DEF AnchorInv, OffShift, Jumped, Ticks, Rescale, Magnitude
<1>9. Continuous'
  <2> SUFFICES ASSUME tsDiscont, d # None, nextDts # None
               PROVE  LET off == Magnitude(Seen' - nextDts)
                      IN /\ off <= DtsDelta /\ Seen' + Behind >= dts
                         /\ (Jumps(d) => 2 * (TickDen * off) <= TickNum + 2 * TickDen)
    BY <1>2 DEF Continuous
  <2>1. d \in Int /\ nextDts \in Int /\ dts \in Int /\ dts <= nextDts
    BY <1>0 DEF FixupTyped, PacketStamp
  <2>2. Seen' = Micros(f) /\ f \in Int /\ Micros(f) \in Int
    <3>1. f \in Int /\ packet'.fixedDts + tsOffset' = f
      BY <1>1, <1>2, <1>3, <1>4
    <3>2. Micros(f) \in Int
      BY <3>1, RoundsToHalf
    <3>q. QED
      BY <3>1, <3>2 DEF Seen, Micros, Rescale, Magnitude
  <2>3. CASE Jumps(d)
    <3> DEFINE off == Magnitude(Micros(f) - nextDts)
    <3>1. 2 * (TickDen * off) <= TickNum + 2 * TickDen
      BY <1>0, <2>3, JumpLandsAsPredicted DEF f
    <3>2. off \in Nat /\ (TickDen \in Nat \ {0}) /\ DtsDelta \in Nat /\ Behind \in Nat
          /\ TickNum \in Nat
      BY <2>1, <2>2 DEF Magnitude, DemuxAssumption
    <3>3. off <= DtsDelta /\ off <= Behind
      <4> HIDE DEF off
      <4>1. \A bound \in Nat : TickDen * off <= TickDen * bound => off <= bound
        BY <3>2
      <4>2. /\ TickDen * off \in Nat /\ TickDen * DtsDelta \in Nat
            /\ TickDen * Behind \in Nat
        BY <3>2
      <4>q. QED
        BY <3>1, <3>2, <4>1, <4>2 DEF FineTicks
    <3>4. Micros(f) + Behind >= dts
      BY <2>1, <2>2, <3>2, <3>3 DEF Magnitude
    <3>q. QED
      BY <2>2, <3>1, <3>3, <3>4
  <2>4. CASE ~ Jumps(d)
    <3>1. f = d + Shift
      BY <1>1, <2>1, <2>2, <2>4 DEF DemuxAssumption
    <3>2. /\ ~ (Magnitude(Delta(d)) > DtsDelta)
          /\ ~ (Micros(d + Shift) + Behind < dts)
      BY <2>1, <2>4 DEF Jumps
    <3>3. Delta(d) = Micros(f) - nextDts
      BY <3>1 DEF Delta
    <3>q. QED
      BY <2>1, <2>2, <2>4, <3>1, <3>2, <3>3 DEF Magnitude, DemuxAssumption
  <2>q. QED
    BY <2>3, <2>4
<1>10. KeepsPace'
  <2>1. packet'.fixedDts # None /\ packet'.fixedPts # None =>
          packet'.fixedPts - packet'.fixedDts = packet'.pts - packet'.dts
    BY <1>1, <1>2, <1>3, <1>4
  <2>2. ASSUME packet'.fixedDts # None, anchor' # None, ~ packet'.jump
        PROVE  Magnitude((packet'.fixedDts - anchor'.fixedDts) - (packet'.dts - anchor'.dts))
                 <= Jumped(anchor')
    <3> DEFINE s == Ticks(discontOffset)
               e == (anchor'.fixedDts - anchor'.dts) - s
    <3>1. ~ Jumps(d) /\ d \in Int /\ packet'.fixedDts = d + s /\ packet'.dts = d /\ s \in Int
      BY <1>1, <1>2, <1>3, <1>4, <2>2
    <3>2. anchor'.fixedDts \in Int /\ anchor'.dts \in Int /\ Magnitude(e) <= Jumped(anchor')
          /\ Jumped(anchor') \in Int
      BY <1>7, <2>2, <3>1 DEF Jumped
    <3>3. (packet'.fixedDts - anchor'.fixedDts) - (packet'.dts - anchor'.dts) = -e /\ e \in Int
      BY <3>1, <3>2
    <3> HIDE DEF e
    <3>q. QED
      BY <3>2, <3>3 DEF Magnitude
  <2>q. QED
    BY <2>1, <2>2 DEF KeepsPace, Jumped, Magnitude
<1>q. QED
  BY <1>5, <1>6, <1>8, <1>9, <1>10 DEF FixupInv

LEMMA FixupStep ==
  ASSUME DemuxAssumption, FineTicks, FixupInv, [DemuxNext]_demuxVars
  PROVE  FixupInv'
<1>1. CASE UNCHANGED demuxVars \/ Done
  <2>1. /\ UNCHANGED <<tsDiscont, hasRate, tsOffset, discontOffset, nextDts, dts, read>>
        /\ UNCHANGED <<packet, anchor>>
    BY <1>1 DEF demuxVars, Done
  <2>2. FixupTyped'
    BY <2>1 DEF FixupInv, FixupTyped
  <2>3. PacketInv' /\ AnchorInv'
    BY <2>1 DEF FixupInv, PacketInv, AnchorInv, OffShift, Jumped, Ticks, Rescale, Magnitude
  <2>4. Continuous' /\ KeepsPace'
    BY <2>1 DEF FixupInv, Continuous, KeepsPace, Seen, Micros, Rescale, Magnitude
  <2>q. QED
    BY <2>2, <2>3, <2>4 DEF FixupInv
<1>2. ASSUME NEW d \in PacketStamps \union {None}, NEW duration \in PacketDurations,
             NEW fields \in Fields,
             NEW p,
             p = None \/ \E base \in IF d = None THEN PacketStamps ELSE {d} : p = base + Reorder,
             Fix(p, d, duration, fields)
      PROVE  FixupInv'
  <2>1. d \in PacketStamp /\ p \in PacketStamp /\ duration \in Nat /\ fields \in Nat
    BY <1>2 DEF PacketStamp, DemuxAssumption
  <2>q. QED
    BY <1>2, <2>1, FixSafe
<1>q. QED
  BY <1>1, <1>2 DEF DemuxNext

LEMMA FixupHolds == DemuxSpec => []FixupInv
<1>1. DemuxInit => FixupInv
  BY DemuxAssumption, FixupStart
<1>2. FixupInv /\ [DemuxNext]_demuxVars => FixupInv'
  BY DemuxAssumption, FineTicks, FixupStep
<1>q. QED
  BY <1>1, <1>2, PTL DEF DemuxSpec
-------------------------------------------------------------------------------
(* No jump is left, whatever jumps the format makes and however the shifts *)
(* round.                                                                  *)
THEOREM AlwaysContinuous == DemuxSpec => []Continuous
<1>1. FixupInv => Continuous
  BY DEF FixupInv
<1>2. DemuxSpec => []FixupInv
  BY FixupHolds
<1>q. QED
  BY <1>1, <1>2, PTL

(* And nothing but jumps is changed.                                       *)
THEOREM AlwaysKeepsPace == DemuxSpec => []KeepsPace
<1>1. FixupInv => KeepsPace
  BY DEF FixupInv
<1>2. DemuxSpec => []FixupInv
  BY FixupHolds
<1>q. QED
  BY <1>1, <1>2, PTL
================================================================================
