------------------------------- MODULE Resampler -------------------------------
(***************************************************************************)
(* The interpolating frame-rate conversion (motion.rs): from source frames *)
(* as they come it makes frames at a constant rate, each a copy of one     *)
(* source or synthesized from two.  Synthesis by motion needs padded       *)
(* copies of the two and the motion between them, which are cached under   *)
(* the sources' timestamps; timestamps may come again.                     *)
(*                                                                         *)
(* A source is its number in the order of arrival; a frame made shows the  *)
(* two sources its pixels are of (one twice when it is a copy), in the     *)
(* proportion alpha, and carries the two its motion was estimated from.    *)
(***************************************************************************)
EXTENDS CutDetector

CONSTANTS
  Rates,       \* source ticks and output frames per second
  Stamps,      \* timestamps of source frames, in ticks
  Durations,   \* their durations
  Pairs,       \* what the cut detector may measure of two frames
  MaxSources   \* source frames (a model bound)

ASSUME ResamplerAssumption ==
  /\ Rates \subseteq [in : Nat \ {0}, out : Nat \ {0}]
  /\ Stamps \subseteq Nat /\ Durations \subseteq Nat
  /\ \A pair \in Pairs : pair.diff \in Nat
  /\ None \notin Nat \union (Nat \X Nat)
  /\ MinHistory \in Nat /\ History \in Nat \ {0}
  /\ MaxSources \in Nat

VARIABLES
  rate,       \* in_tb and out_tb
  synthesis,  \* "blend" or "motion"
  detector,   \* the cut detector, or None
  sources,    \* what was pushed: its timestamp, whether the detector saw a
              \* cut before it, and (for the properties) what it compared
  prev,       \* the source to pair the next one with, 0 if there is none
  nextOut,    \* timestamp of the next frame to make, or None
  end,        \* where the last source ends
  pending,    \* frames that may lie past the end
  emitted,    \* frames handed on
  padded,     \* the padded copies: of which source, under which timestamp
  estimated,  \* the timestamps of the pair whose motion is known, or None
  field,      \* the sources it was estimated from
  phase

cache == <<padded, estimated, field>>
vars == <<rate, synthesis, detector, sources, prev, nextOut, end, pending, emitted,
          padded, estimated, field, phase>>

AlphaOne   == 256
BlendStart == 15
BlendEnd   == 240

(* in_time, out_time, and av_rescale_q_rnd to the output's time base.      *)
InTime(pts)  == pts * rate.out
OutTime(k)   == k * rate.in
Rounded(pts) == (2 * InTime(pts) + rate.in) \div (2 * rate.in)

Init ==
  /\ rate \in Rates
  /\ synthesis \in {"blend", "motion"}
  /\ detector \in {None, NewDetector}
  /\ sources = <<>>
  /\ prev = 0
  /\ nextOut = None
  /\ end = 0
  /\ pending = <<>>
  /\ emitted = <<>>
  /\ padded = <<[source |-> 0, pts |-> None], [source |-> 0, pts |-> None]>>
  /\ estimated = None
  /\ field = <<0, 0>>
  /\ phase = "open"

-------------------------------------------------------------------------------
(* Making a frame.                                                         *)

Copy(i, k) == [pts |-> k, from |-> <<i, i>>, motion |-> <<i, i>>, alpha |-> 0]

AlphaUnclamped(i, j, k) ==        \* mutant: a frame before the first source
  ((OutTime(k) - InTime(sources'[i].pts)) * AlphaOne)
     \div (InTime(sources'[j].pts) - InTime(sources'[i].pts))
Alpha(i, j, k) ==
  LET from == InTime(sources'[i].pts)
  IN (MaxOf(OutTime(k) - from, 0) * AlphaOne) \div (InTime(sources'[j].pts) - from)

(* The source that is repeated rather than mixed with the other, or 0.     *)
RepeatedFarther(i, j, alpha, cut) ==   \* mutant: the other side of a cut
  IF alpha = 0 THEN i
  ELSE IF cut THEN IF alpha > AlphaOne \div 2 THEN i ELSE j
  ELSE IF synthesis = "blend" /\ alpha < BlendStart THEN i
  ELSE IF synthesis = "blend" /\ alpha > BlendEnd THEN j
  ELSE 0
Repeated(i, j, alpha, cut) ==
  IF alpha = 0 THEN i
  ELSE IF cut THEN IF alpha > AlphaOne \div 2 THEN j ELSE i
  ELSE IF synthesis = "blend" /\ alpha < BlendStart THEN i
  ELSE IF synthesis = "blend" /\ alpha > BlendEnd THEN j
  ELSE 0

(* estimate: the pair's copies and its motion, unless it is cached.        *)
Pair(i, j) == <<sources'[i].pts, sources'[j].pts>>
Prepared(i, j) ==
  <<IF padded[2].pts = sources'[i].pts THEN padded[2]
    ELSE [source |-> i, pts |-> sources'[i].pts],
    [source |-> j, pts |-> sources'[j].pts]>>

Estimates(i, j) ==
  IF estimated = Pair(i, j) THEN UNCHANGED cache
  ELSE /\ padded' = Prepared(i, j)
       /\ estimated' = Pair(i, j)
       /\ field' = <<padded'[1].source, padded'[2].source>>

Mixed(i, j, k) ==
  IF synthesis = "motion"
  THEN [pts |-> k, from |-> <<padded'[1].source, padded'[2].source>>, motion |-> field',
        alpha |-> Alpha(i, j, k)]
  ELSE [pts |-> k, from |-> <<i, j>>, motion |-> <<i, j>>, alpha |-> Alpha(i, j, k)]

Output(i, j, k, cut) ==
  LET repeated == Repeated(i, j, Alpha(i, j, k), cut)
  IN IF repeated # 0 THEN Copy(repeated, k) ELSE Mixed(i, j, k)

(* release: the frames of pending up to the first that is not before the   *)
(* bound.                                                                  *)
Before(frames, bound) ==
  CHOOSE n \in 0 .. Len(frames) :
    /\ \A i \in 1 .. n : frames[i].pts < bound
    /\ n < Len(frames) => frames[n + 1].pts >= bound
Released(frames, bound) == SubSeq(frames, 1, Before(frames, bound))
Kept(frames, bound)     == SubSeq(frames, Before(frames, bound) + 1, Len(frames))

-------------------------------------------------------------------------------
(* push.  (A frame without a timestamp is dropped: not a step.)            *)

Arrives(pts, duration, cut, with, pair) ==
  /\ phase = "open"
  /\ Len(sources) < MaxSources
  /\ sources' = Append(sources, [pts |-> pts, cut |-> cut, with |-> with, pair |-> pair])
  /\ end' = pts + duration
  /\ nextOut' = IF nextOut = None THEN Rounded(pts) ELSE nextOut
  /\ prev' = Len(sources) + 1
  /\ UNCHANGED <<rate, synthesis, phase>>

(* push_cut_detector with the frame that arrives, if there is a detector.  *)
Detects(from, pair) ==
  IF detector = None THEN UNCHANGED detector
  ELSE detector' = Fed(from, Len(sources) + 1, pair.diff)
NoPair == [diff |-> 0, ncc |-> None]

PushFirst(pts, duration) ==
  /\ Arrives(pts, duration, FALSE, 0, NoPair)
  /\ prev = 0
  /\ Detects(detector, NoPair)
  /\ UNCHANGED <<pending, emitted, cache>>

(* A frame that does not come after the previous one replaces it.  What is *)
(* cached under timestamps is dropped, and the detector starts again.      *)
CachesKept == UNCHANGED cache     \* mutant: timestamps are thought unique
Invalidated ==
  /\ padded' = [slot \in 1 .. 2 |-> [padded[slot] EXCEPT !.pts = None]]
  /\ estimated' = None
  /\ UNCHANGED field

NotReset(it) == [it EXCEPT !.prev = 0]   \* mutant: the history stays
Reset(it) == NewDetector

PushBack(pts, duration) ==
  /\ Arrives(pts, duration, FALSE, 0, NoPair)
  /\ prev # 0 /\ pts <= sources[prev].pts
  /\ Invalidated
  /\ Detects(Reset(detector), NoPair)
  /\ UNCHANGED <<pending, emitted>>

(* The frames between the two are made.  Those before the rounded time of  *)
(* the new one are final.                                                  *)
BoundAtEnd(pts, duration) == Rounded(pts + duration)   \* mutant: its end, not its start
Bound(pts, duration) == Rounded(pts)

(* The first frame from the next on that is not before the source.         *)
Until(pts) ==
  CHOOSE k \in nextOut .. nextOut + InTime(pts) :
    OutTime(k) >= InTime(pts) /\ \A l \in nextOut .. k - 1 : OutTime(l) < InTime(pts)
CutBefore(pair) == detector # None /\ SeesCut(detector, pair.diff, pair.ncc)

(* What is made when source j comes, and whether any of it is synthesized. *)
MadeFor(j, pts, cut) ==
  [n \in 1 .. Until(pts) - nextOut |-> Output(prev, j, nextOut + n - 1, cut)]
Synthesizes(j, pts, cut) ==
  \E k \in nextOut .. Until(pts) - 1 : Repeated(prev, j, Alpha(prev, j, k), cut) = 0

PushNext(pts, duration, pair) ==
  LET j   == Len(sources) + 1
      cut == CutBefore(pair)
  IN /\ phase = "open" /\ Len(sources) < MaxSources
     /\ prev # 0 /\ pts > sources[prev].pts
     /\ IF detector = None THEN pair = NoPair ELSE pair \in Pairs
     /\ Detects(detector, pair)
     /\ sources' = Append(sources, [pts |-> pts, cut |-> cut, pair |-> pair,
                                    with |-> IF detector = None THEN 0 ELSE detector.prev])
     /\ end' = pts + duration
     /\ prev' = j
     /\ nextOut' = Until(pts)
     /\ IF synthesis = "motion" /\ Synthesizes(j, pts, cut) THEN Estimates(prev, j) ELSE UNCHANGED cache
     /\ \E made \in {pending \o MadeFor(j, pts, cut)} :
          /\ emitted' = emitted \o Released(made, Bound(pts, duration))
          /\ pending' = Kept(made, Bound(pts, duration))
     /\ UNCHANGED <<rate, synthesis, phase>>

(* A frame of another size or format, or that cannot be allocated.         *)
Fails ==
  /\ phase = "open"
  /\ phase' = "failed"
  /\ UNCHANGED <<rate, synthesis, detector, sources, prev, nextOut, end, pending, emitted, cache>>

(* finish: what is pending before the end, and repeats of the last source. *)
Finish ==
  /\ phase = "open"
  /\ LET until == Rounded(end)
         repeats == IF prev = 0 THEN 0 ELSE MaxOf(until - nextOut, 0)
     IN /\ emitted' = emitted \o Released(pending, until)
                        \o [n \in 1 .. repeats |-> Copy(prev, nextOut + n - 1)]
        /\ nextOut' = IF prev = 0 THEN nextOut ELSE nextOut + repeats
  /\ pending' = <<>>
  /\ prev' = 0
  /\ phase' = "done"
  /\ UNCHANGED <<rate, synthesis, detector, sources, end, cache>>

Done == phase \in {"done", "failed"} /\ UNCHANGED vars

Next ==
  \/ \E pts \in Stamps, duration \in Durations :
       \/ PushFirst(pts, duration)
       \/ PushBack(pts, duration)
       \/ \E pair \in Pairs \union {NoPair} : PushNext(pts, duration, pair)
  \/ Fails
  \/ Finish
  \/ Done

Spec == Init /\ [][Next]_vars

-------------------------------------------------------------------------------
(* Properties.                                                             *)

Made   == emitted \o pending
Rising == \A i \in 1 .. Len(sources) - 1 : sources[i].pts < sources[i + 1].pts

(* The frames have the timestamps FFmpeg's fps filter would give them: one *)
(* after the other from the first source's on, whatever becomes of the     *)
(* sources' own; of a stream whose timestamps rise, as far as its end and  *)
(* no further, and meanwhile all that the sources so far decide.           *)
TimedAsFps ==
  /\ \A i \in DOMAIN Made : Made[i].pts = Rounded(sources[1].pts) + i - 1
  /\ Rising /\ sources # <<>> =>
       LET until == IF phase = "done" THEN Rounded(end) ELSE Rounded(Last(sources).pts)
       IN phase # "failed" =>
            Len(emitted) = MaxOf(until - Rounded(sources[1].pts), 0)

(* A synthesized frame is of two consecutive sources, and its motion was   *)
(* estimated from these two: never from others that had their timestamps.  *)
OfOnePair ==
  \A i \in DOMAIN Made :
    LET a == Made[i].from[1]
        b == Made[i].from[2]
    IN /\ Made[i].motion = Made[i].from
       /\ a # b => b = a + 1 /\ sources[a].pts < sources[b].pts /\ ~ sources[b].cut

(* Of a stream whose timestamps rise, every frame shows its own time: two  *)
(* sources on either side of it, in proportion, or a copy of the nearest   *)
(* source (but for the rounding of alpha, at the middle of a cut).         *)
Distance(a, b) == MaxOf(a, b) - (IF a <= b THEN a ELSE b)
Between(frame, time, a, b) ==
  /\ a < time /\ time < b
  /\ frame.alpha * (b - a) <= (time - a) * AlphaOne
  /\ (time - a) * AlphaOne < (frame.alpha + 1) * (b - a)
Nearest(time, a, b) == (AlphaOne \div 2) * (Distance(time, a) - Distance(time, b)) <= Distance(a, b)
ShowsItsTime ==
  Rising =>
    \A i \in DOMAIN Made :
      LET a    == InTime(sources[Made[i].from[1]].pts)
          b    == InTime(sources[Made[i].from[2]].pts)
          time == OutTime(Made[i].pts)
      IN IF a # b THEN Between(Made[i], time, a, b)
         ELSE \A j \in DOMAIN sources : Nearest(time, a, InTime(sources[j].pts))

(* A cut is decided by the pair alone and by the differences before it     *)
(* since timestamps last went back: repeated frames "neither count as      *)
(* quiet history nor hide the next pair's spike" (scenecut.rs:22), and a   *)
(* dropped frame is not "the cut detector's previous frame"                *)
(* (motion.rs:770).                                                        *)
Since(i) ==
  Max({1} \union {b \in 2 .. i : sources[b].pts <= sources[b - 1].pts})
Recent(i) ==
  LET moved == SelectSeq([n \in 1 .. i - 1 - Since(i) |-> sources[Since(i) + n].pair.diff],
                         LAMBDA d : d >= RepeatDiff)
  IN SubSeq(moved, MaxOf(Len(moved) - History, 0) + 1, Len(moved))
CutsFromRecentMotion ==
  detector # None =>
    \A i \in DOMAIN sources : i > Since(i) =>
      /\ sources[i].with = i - 1
      /\ sources[i].cut = IsCut(Recent(i), sources[i].pair.diff, sources[i].pair.ncc)
===============================================================================
