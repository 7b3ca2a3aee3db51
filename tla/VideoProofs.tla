------------------------------ MODULE VideoProofs ------------------------------
(***************************************************************************)
(* What a video's frames go through on their way into a tensor's rows.     *)
(*                                                                         *)
(* First the filter graphs (FilterChain, VideoPath): whatever is asked for,*)
(* of whatever stream, no filter refuses a frame whose colours it can      *)
(* convert, and one that comes through has the size, the way up, the rate  *)
(* and the colours that were planned.  Then the ways without a graph,      *)
(* where a scaler is kept from frame to frame and a GPU works behind the   *)
(* decoding thread.  Last the motion interpolator (MotionSearch,           *)
(* PairFrames): its borders, buffers and 16-bit sums are enough for planes *)
(* of every size, every vector the search may find and every phase.        *)
(***************************************************************************)
EXTENDS VideoPath, PairFrames, SequenceTheorems, WellFoundedInduction, TLAPS

-------------------------------------------------------------------------------
(* The filter graphs of a video (FilterChain, VideoPath).  The chain is    *)
(* read from each of its parts on: what is still to come, and what is true *)
(* of a frame that has come so far.                                        *)

(* What comes from each part on.                                           *)
ToFormat(to)   == [op |-> "format", to |-> to]
FromFormat(c)  == <<ToFormat(c.format)>>
FromPlanar(c)  == When(c.format = Rgb("rgb24"), ToFormat(Rgb("gbrp"))) \o FromFormat(c)
ZimgRgb(c)     == Zscale(FALSE, IF c.tonemaps THEN None ELSE c.size, DefaultMatrix(c), FALSE)
FromZimg(c)    == <<ZimgRgb(c)>> \o FromPlanar(c)
FromRgb(c)     == AccurateRgb(c) \o FromFormat(c)
To709          == Zscale(FALSE, None, None, TRUE)
From709(c)     == <<To709>> \o FromRgb(c)
FromTonemap(c) == <<[op |-> "tonemap"]>> \o From709(c)
FromFloat(c)   == <<ToFormat(Rgb("gbrpf32le"))>> \o FromTonemap(c)
Linear(c)      == Zscale(TRUE, IF Accurate(c) THEN c.size ELSE None, None, FALSE)
FromLinear(c)  == <<Linear(c)>> \o FromFloat(c)
FromTone(c)    == ToneMapping(c) \o FromRgb(c)
FromScale(c)   == Scale(c) \o FromTone(c)
FromTurn(c)    == c.rotate \o FromScale(c)
FromFps(c)     == Fps(c) \o FromTurn(c)
FromHdr(c)     == HdrDefaults(c) \o FromFps(c)

(* The size, the way up and the rate of a frame at each part.              *)
SizeOf(f)      == <<f.w, f.h>>
SourceSize(c)  == <<c.source.w, c.source.h>>
TurnedSize(c)  == IF SwapsDimensions(c.rotate) THEN Swapped(SourceSize(c)) ELSE SourceSize(c)
ScaledSize(c)  == IF Accurate(c) THEN TurnedSize(c) ELSE Given(c.size, TurnedSize(c))
WayUp          == IF request.autorotate THEN stream.display ELSE Upright
FirstWayUp     == IF behind THEN WayUp ELSE Upright
FirstRate      == IF behind THEN request.rate ELSE None
RateOf(c)      == IF c.rate # None /\ c.fps = "nearest" THEN c.rate ELSE FirstRate

(* Its format: the source's, until the whole chroma is made.               *)
KeptFormat(c, f) ==
  \/ /\ f.format = c.source.format
     /\ Subsampled(f.format) /\ SwapsDimensions(c.rotate) => f.format.sub[1] = f.format.sub[2]
  \/ c.source.format.kind = "yuv" /\ f.format.kind = "yuv" /\ f.format.sub = Whole
ZimgReady(f) == Subsampled(f.format) => Aligned(f.format, f.w, f.h)

(* Its colours: the matrix it is tagged with once defaults are set, and    *)
(* how far tone mapping is.                                                *)
Tagged(c)  == IF c.hdr THEN Given(c.matrix, "bt2020nc") ELSE c.matrix
Readable(f) == ~ IsRgb(f.format) => f.encoded = Given(f.matrix, "bt601")
Toned(f)   == /\ f.toned = IF config.tonemaps THEN 1 ELSE 0
              /\ f.signal = IF config.tonemaps THEN "bt709" ELSE stream.trc
Untoned(f) == /\ f.toned = IF behind /\ config.tonemaps THEN 1 ELSE 0
              /\ f.signal = IF behind /\ config.tonemaps THEN "bt709" ELSE stream.trc
Coloured(c, f) == Untoned(f) /\ f.matrix = Tagged(c) /\ (c.hdr => f.primaries # None)

(* What is never otherwise: a frame has a frame's fields, and nothing has  *)
(* read it wrong.                                                          *)
IsWhole(f) ==
  f = [w |-> f.w, h |-> f.h, format |-> f.format, on |-> f.on, matrix |-> f.matrix,
       primaries |-> f.primaries, signal |-> f.signal, encoded |-> f.encoded, right |-> f.right,
       turned |-> f.turned, rate |-> f.rate, toned |-> f.toned, by |-> f.by]
ByZimg(f) == IsRgb(f.format) /\ ~ IsRgb(stream.format) /\ Accurate(config) => f.by = "zscale"
Good(f)   == /\ IsWhole(f) /\ IsFormat(f.format)
             /\ f.right = TRUE /\ f.on = "cpu" /\ ByZimg(f)

(* Where a frame f is when the filters s are still to come.                *)
AtHdr(c, s, f) ==
  /\ s = FromHdr(c) /\ Good(f) /\ Untoned(f)
  /\ SizeOf(f) = SourceSize(c) /\ f.format = c.source.format
  /\ f.turned = FirstWayUp /\ f.rate = FirstRate
  /\ f.matrix = c.matrix /\ (c.hdr => f.primaries = c.primaries)
  /\ ~ IsRgb(f.format) => f.encoded = Given(Tagged(c), "bt601")
AtFps(c, s, f) ==
  /\ s = FromFps(c) /\ Good(f) /\ Readable(f) /\ Coloured(c, f)
  /\ SizeOf(f) = SourceSize(c) /\ f.format = c.source.format
  /\ f.turned = FirstWayUp /\ f.rate = FirstRate
AtTurn(c, s, f) ==
  /\ s = FromTurn(c) /\ Good(f) /\ Readable(f) /\ Coloured(c, f)
  /\ SizeOf(f) = SourceSize(c) /\ f.format = c.source.format
  /\ f.turned = FirstWayUp /\ f.rate = RateOf(c)
AtFlip(c, s, f) ==
  /\ s = <<Rotate("vflip")>> \o FromScale(c) /\ c.rotate = <<Rotate("hflip"), Rotate("vflip")>>
  /\ Good(f) /\ Readable(f) /\ Coloured(c, f)
  /\ SizeOf(f) = SourceSize(c) /\ f.format = c.source.format
  /\ f.turned = Turn["hflip"] /\ WayUp = <<-1, 0, 0, -1>> /\ f.rate = RateOf(c)
Placed(c, f) == Good(f) /\ f.turned = WayUp /\ f.rate = RateOf(c)
AtScale(c, s, f) ==
  /\ s = FromScale(c) /\ Placed(c, f) /\ Readable(f) /\ Coloured(c, f) /\ KeptFormat(c, f)
  /\ SizeOf(f) = TurnedSize(c)
AtTone(c, s, f) ==
  /\ s = FromTone(c) /\ Placed(c, f) /\ Readable(f) /\ Coloured(c, f) /\ KeptFormat(c, f)
  /\ SizeOf(f) = ScaledSize(c)
AtLinear(c, s, f) ==
  /\ s = FromLinear(c) /\ c.tonemaps
  /\ Placed(c, f) /\ Readable(f) /\ Coloured(c, f) /\ f.format # Gray /\ ZimgReady(f)
  /\ SizeOf(f) = ScaledSize(c)
InLinear(c, f) ==
  /\ c.tonemaps /\ Placed(c, f) /\ f.signal = "linear" /\ f.primaries # None
  /\ IsRgb(f.format) /\ SizeOf(f) = planned
AtFloat(c, s, f)   == s = FromFloat(c) /\ InLinear(c, f) /\ f.toned = 0
AtTonemap(c, s, f) == s = FromTonemap(c) /\ InLinear(c, f) /\ f.toned = 0
At709(c, s, f)     == s = From709(c) /\ InLinear(c, f) /\ f.toned = 1
AtRgb(c, s, f) ==
  /\ s = FromRgb(c) /\ Placed(c, f) /\ Readable(f) /\ Toned(f)
  /\ IF c.tonemaps
     THEN /\ SizeOf(f) = planned /\ f.matrix = "bt709"
          /\ IsRgb(f.format) \/ (~ Accurate(c) /\ f.format = c.format)
     ELSE SizeOf(f) = ScaledSize(c) /\ KeptFormat(c, f) /\ f.matrix = Tagged(c)
AtZimg(c, s, f) ==
  /\ s = FromZimg(c) /\ Accurate(c) /\ Placed(c, f) /\ Readable(f) /\ Toned(f) /\ ZimgReady(f)
  /\ IF c.tonemaps
     THEN SizeOf(f) = planned /\ f.matrix = "bt709" /\ IsRgb(f.format)
     ELSE SizeOf(f) = ScaledSize(c) /\ f.format.kind = c.source.format.kind /\ f.matrix = Tagged(c)
Converted(c, f) ==
  /\ Placed(c, f) /\ Readable(f) /\ Toned(f) /\ SizeOf(f) = planned
  /\ c.tonemaps => f.matrix = "bt709"
AtPlanar(c, s, f) ==
  s = FromPlanar(c) /\ Accurate(c) /\ Converted(c, f) /\ (IsRgb(c.format) => IsRgb(f.format))
AtFormat(c, s, f) ==
  /\ s = FromFormat(c) /\ Converted(c, f)
  /\ Accurate(c) /\ IsRgb(c.format) => IsRgb(f.format)
  /\ ~ c.tonemaps /\ ~ Accurate(c) =>
       f.matrix = Tagged(c) /\ (IsRgb(f.format) <=> IsRgb(c.source.format))

(* The matrix between the graphs of a stream with a motion stage, and the  *)
(* configuration of the graph at work.                                     *)
MatrixBetween ==
  IF config.tonemaps THEN "bt709"
  ELSE IF IsRgb(stream.format) /\ Tagged(config) = "gbr" THEN None ELSE Tagged(config)
Between == [w |-> planned[1], h |-> planned[2], format |-> MotionWorkingFormat(config, stream),
            matrix |-> MatrixBetween]
Work == IF ~ UsesMotionStage(config) THEN config
        ELSE IF behind THEN MotionOutput(config, Between) ELSE MotionInput(config, stream)
AtEnd(c, s, f) ==
  /\ s = <<>> /\ Placed(c, f) /\ Readable(f) /\ Toned(f)
  /\ SizeOf(f) = planned /\ f.format = c.format
  /\ UsesMotionStage(config) /\ ~ behind => f.matrix = MatrixBetween

Stage(c, s, f) ==
  \/ AtHdr(c, s, f) \/ AtFps(c, s, f) \/ AtTurn(c, s, f) \/ AtFlip(c, s, f) \/ AtScale(c, s, f)
  \/ AtTone(c, s, f) \/ AtLinear(c, s, f) \/ AtFloat(c, s, f) \/ AtTonemap(c, s, f)
  \/ At709(c, s, f) \/ AtRgb(c, s, f) \/ AtZimg(c, s, f) \/ AtPlanar(c, s, f)
  \/ AtFormat(c, s, f) \/ AtEnd(c, s, f)

(* What of a configuration the chain's parts rely on.                      *)
TurnsAre(c) ==
  \/ c.rotate = <<>> /\ FirstWayUp = WayUp
  \/ /\ FirstWayUp = Upright
     /\ \/ \E t \in DOMAIN Turn : c.rotate = <<Rotate(t)>> /\ WayUp = Turn[t]
        \/ c.rotate = <<Rotate("hflip"), Rotate("vflip")>> /\ WayUp = <<-1, 0, 0, -1>>
ConfigOk(c) ==
  /\ Given(c.size, TurnedSize(c)) = planned
  /\ TurnsAre(c)
  /\ IsFormat(c.source.format) /\ IsFormat(c.format)
  /\ c.tonemaps = (config.tonemaps /\ ~ behind)
  /\ c.tonemaps => c.hdr /\ c.source.format # Gray
  /\ IF IsRgb(c.format) THEN Accurate(c) <=> Accurate(config) ELSE Accurate(c) => c.tonemaps
  /\ IsRgb(c.format) <=> ~ (UsesMotionStage(config) /\ ~ behind)
  /\ ~ behind => c.source.format = stream.format /\ Tagged(c) = Tagged(config)
  /\ Convertible => Tagged(c) \in ScaleMatrices

(* What leaves the first graph, at the rate asked for.                     *)
LeavesFirst(f) ==
  /\ Good(f) /\ Readable(f) /\ Toned(f)
  /\ SizeOf(f) = planned /\ f.format = MotionWorkingFormat(config, stream)
  /\ f.turned = WayUp /\ f.matrix = MatrixBetween /\ f.rate = request.rate

Asks == CaseAssumption(request, stream) /\ ~ Refused(request, stream, zscale) /\ ~ request.device
Staged == \E c \in {Work}, s \in {graphs}, f \in {frame} : Stage(c, s, f)

GraphInv ==
  /\ CaseAssumption(request, stream)
  /\ behind => UsesMotionStage(config)
  /\ way = "undecided" => phase = "decoding"
  /\ phase = "decoding" => frame = None /\ ~ behind
  /\ way # "graph" => frame = None
  /\ way \in {"direct", "cuda"} => way = Way
  /\ way = "graph" =>
       /\ Way = "graph"
       /\ phase \in {"decoding", "filtering", "done", "failed"}
       /\ phase = "decoding" => graphs = Chain(Work)
       /\ phase # "decoding" => Staged
       /\ phase = "done" => graphs = <<>> /\ (UsesMotionStage(config) => behind)

-------------------------------------------------------------------------------
(* Sequences of filters, whatever a filter is.                             *)
ASeq(s) == \E S : s \in Seq(S)

LEMMA ConcatIsASeq ==
  ASSUME NEW s, NEW t, ASeq(s), ASeq(t)
  PROVE  ASeq(s \o t) /\ \E S : s \in Seq(S) /\ t \in Seq(S) /\ s \o t \in Seq(S)
<1>1. PICK S : s \in Seq(S)
  BY DEF ASeq
<1>2. PICK T : t \in Seq(T)
  BY DEF ASeq
<1>3. s \in Seq(S \union T) /\ t \in Seq(S \union T)
  BY <1>1, <1>2
<1>q. QED
  BY <1>3, ConcatProperties DEF ASeq

Seqs(s, t, u) == ASeq(s) /\ ASeq(t) /\ ASeq(u)
LEMMA ConcatAssociates ==
  ASSUME NEW s, NEW t, NEW u, Seqs(s, t, u)
  PROVE  (s \o t) \o u = s \o (t \o u)
<1>1. PICK S : s \in Seq(S) /\ t \in Seq(S)
  BY ConcatIsASeq DEF Seqs
<1>2. PICK T : u \in Seq(T)
  BY DEF ASeq, Seqs
<1>3. s \in Seq(S \union T) /\ t \in Seq(S \union T) /\ u \in Seq(S \union T)
  BY <1>1, <1>2
<1>q. QED
  BY <1>3, ConcatAssociative

(* The first filter of a part, what follows it, and the one after it.      *)
NextOf(s) == IF Len(s) > 1 THEN s[2] ELSE [op |-> "sink"]
LEMMA FirstOfPart ==
  ASSUME NEW a, NEW s, NEW t, ASeq(t), s = <<a>> \o t
  PROVE  /\ s # <<>> /\ Head(s) = a /\ Tail(s) = t
         /\ t # <<>> => NextOf(s) = t[1]
<1>1. ASeq(<<a>>)
  <2>1. <<a>> \in Seq({a})
    OBVIOUS
  <2>q. QED
    BY <2>1 DEF ASeq
<1>2. PICK S : <<a>> \in Seq(S) /\ t \in Seq(S) /\ s \in Seq(S)
  BY <1>1, ConcatIsASeq
<1>3. /\ Len(s) = 1 + Len(t) /\ Len(t) \in Nat
      /\ \A i \in 1 .. 1 + Len(t) : s[i] = IF i <= 1 THEN a ELSE t[i - 1]
  BY <1>2, ConcatProperties, LenProperties
<1>4. s # <<>> /\ Head(s) = a
  <2>1. Head(s) = s[1]
    OBVIOUS
  <2>q. QED
    BY <1>2, <1>3, <2>1, EmptySeq
<1>5. Tail(s) = t
  <2>1. /\ Tail(s) \in Seq(S) /\ Len(Tail(s)) = Len(t)
        /\ \A i \in 1 .. Len(t) : Tail(s)[i] = s[i + 1]
    BY <1>2, <1>3, <1>4, HeadTailProperties
  <2>2. \A i \in 1 .. Len(t) : Tail(s)[i] = t[i]
    BY <1>3, <2>1
  <2>q. QED
    BY <1>2, <2>1, <2>2, SeqEqual
<1>6. t # <<>> => NextOf(s) = t[1]
  BY <1>2, <1>3, EmptySeq DEF NextOf
<1>q. QED
  BY <1>4, <1>5, <1>6

(* A part of several filters, one after the other.                         *)
LEMMA OneIsASeq == ASSUME NEW a PROVE ASeq(<<a>>)
<1>1. <<a>> \in Seq({a})
  OBVIOUS
<1>q. QED
  BY <1>1 DEF ASeq

LEMMA NoneAhead == ASSUME NEW t, ASeq(t) PROVE <<>> \o t = t
BY ConcatEmptySeq DEF ASeq

LEMMA OneAhead == ASSUME NEW a, NEW t, ASeq(t) PROVE ASeq(<<a>> \o t)
BY OneIsASeq, ConcatIsASeq

LEMMA Joined ==
  ASSUME NEW a, NEW b, NEW c
  PROVE  <<a>> \o <<b>> = <<a, b>> /\ <<a>> \o <<b, c>> = <<a, b, c>>
<1>1. /\ <<a>> \in Seq({a, b, c}) /\ <<b>> \in Seq({a, b, c}) /\ <<b, c>> \in Seq({a, b, c})
      /\ <<a, b>> \in Seq({a, b, c}) /\ <<a, b, c>> \in Seq({a, b, c})
  OBVIOUS
<1>2. <<a>> \o <<b>> = <<a, b>>
  <2>1. /\ <<a>> \o <<b>> \in Seq({a, b, c}) /\ Len(<<a>> \o <<b>>) = 2
        /\ \A i \in 1 .. 2 : (<<a>> \o <<b>>)[i] = IF i <= 1 THEN <<a>>[i] ELSE <<b>>[i - 1]
    BY <1>1, ConcatProperties
  <2>2. \A i \in 1 .. 2 : (<<a>> \o <<b>>)[i] = <<a, b>>[i]
    BY <2>1
  <2>q. QED
    BY <1>1, <2>1, <2>2, SeqEqual
<1>3. <<a>> \o <<b, c>> = <<a, b, c>>
  <2>1. /\ <<a>> \o <<b, c>> \in Seq({a, b, c}) /\ Len(<<a>> \o <<b, c>>) = 3
        /\ \A i \in 1 .. 3 : (<<a>> \o <<b, c>>)[i] = IF i <= 1 THEN <<a>>[i] ELSE <<b, c>>[i - 1]
    BY <1>1, ConcatProperties
  <2>2. \A i \in 1 .. 3 : (<<a>> \o <<b, c>>)[i] = <<a, b, c>>[i]
    BY <2>1
  <2>q. QED
    BY <1>1, <2>1, <2>2, SeqEqual
<1>q. QED
  BY <1>2, <1>3

LEMMA TwoAhead ==
  ASSUME NEW a, NEW b, NEW t, ASeq(t)
  PROVE  ASeq(<<a, b>>) /\ <<a, b>> \o t = <<a>> \o (<<b>> \o t)
<1>0. <<a, b>> = <<a>> \o <<b>>
  BY Joined
<1>1. <<a, b>> \in Seq({a, b})
  OBVIOUS
<1>2. Seqs(<<a>>, <<b>>, t)
  BY OneIsASeq DEF Seqs
<1>3. (<<a>> \o <<b>>) \o t = <<a>> \o (<<b>> \o t)
  BY <1>2, ConcatAssociates
<1>q. QED
  BY <1>0, <1>1, <1>3 DEF ASeq

LEMMA HeadAhead ==
  ASSUME NEW q, NEW a, NEW r, NEW t, ASeq(r), ASeq(t), q = <<a>> \o r
  PROVE  q \o t = <<a>> \o (r \o t)
<1>1. Seqs(<<a>>, r, t)
  BY OneIsASeq DEF Seqs
<1>q. QED
  BY <1>1, ConcatAssociates

LEMMA FourAhead ==
  ASSUME NEW a, NEW b, NEW c, NEW d, NEW t, ASeq(t)
  PROVE  /\ ASeq(<<a, b, c, d>>)
         /\ <<a, b, c, d>> \o t = <<a>> \o (<<b>> \o (<<c>> \o (<<d>> \o t)))
<1> DEFINE q == <<a, b, c, d>>
           r == <<b, c, d>>
           u == <<c, d>>
           v == <<d>>
<1>1. q = <<a>> \o r
  <2>1. q \in Seq({a, b, c, d}) /\ <<a>> \in Seq({a, b, c, d}) /\ r \in Seq({a, b, c, d})
    OBVIOUS
  <2>2. /\ Len(<<a>> \o r) = 4 /\ <<a>> \o r \in Seq({a, b, c, d})
        /\ \A i \in 1 .. 4 : (<<a>> \o r)[i] = IF i <= 1 THEN a ELSE r[i - 1]
    BY <2>1, ConcatProperties
  <2>3. \A i \in 1 .. 4 : q[i] = (<<a>> \o r)[i]
    BY <2>2
  <2>q. QED
    BY <2>1, <2>2, <2>3, SeqEqual
<1>2. r = <<b>> \o u
  BY Joined
<1>3. u = <<c>> \o v
  BY Joined
<1>4. ASeq(q) /\ ASeq(r) /\ ASeq(u) /\ ASeq(v)
  <2>1. q \in Seq({a, b, c, d}) /\ r \in Seq({a, b, c, d}) /\ u \in Seq({a, b, c, d})
        /\ v \in Seq({a, b, c, d})
    OBVIOUS
  <2>q. QED
    BY <2>1 DEF ASeq
<1> HIDE DEF q, r, u, v
<1>5. q \o t = <<a>> \o (r \o t)
  BY <1>1, <1>4, HeadAhead
<1>6. r \o t = <<b>> \o (u \o t)
  BY <1>2, <1>4, HeadAhead
<1>7. u \o t = <<c>> \o (v \o t)
  BY <1>3, <1>4, HeadAhead
<1>q. QED
  BY <1>4, <1>5, <1>6, <1>7 DEF q, v

-------------------------------------------------------------------------------
(* What a filter makes of a frame.                                         *)
Passed(s, f) == Filtered(f, Head(s), NextOf(s))

LEMMA ParamsApply ==
  ASSUME NEW f, NEW m, NEW p, NEW n
  PROVE  Filtered(f, [op |-> "setparams", matrix |-> m, primaries |-> p], n) =
           [f EXCEPT !.matrix = Given(m, @), !.primaries = Given(p, @)]
BY DEF Filtered

LEMMA FpsApplies ==
  ASSUME NEW f, NEW rate, NEW n
  PROVE  Filtered(f, [op |-> "fps", rate |-> rate], n) = [f EXCEPT !.rate = rate]
BY DEF Filtered

LEMMA TurnApplies ==
  ASSUME NEW f, NEW turn, NEW n
  PROVE  Filtered(f, Rotate(turn), n) = Turned(f, turn)
BY DEF Filtered, Rotate

LEMMA ScaleApplies ==
  ASSUME NEW f, NEW size, NEW n
  PROVE  Filtered(f, [op |-> "scale", size |-> size], n) =
           [f EXCEPT !.w = size[1], !.h = size[2]]
BY DEF Filtered

LEMMA FormatApplies ==
  ASSUME NEW f, NEW to, NEW n
  PROVE  Filtered(f, ToFormat(to), n) = Formatted(f, to)
BY DEF Filtered, ToFormat

LEMMA TonemapApplies ==
  ASSUME NEW f, NEW n
  PROVE  Filtered(f, [op |-> "tonemap"], n) =
           [f EXCEPT !.toned = @ + 1]
BY DEF Filtered

LEMMA ZscaleApplies ==
  ASSUME NEW f, NEW filter, filter.op = "zscale", NEW n
  PROVE  Filtered(f, filter, n) = Zscaled(f, filter, n)
BY DEF Filtered

(* What a filter refuses.  A frame is taken on by the filter it came to    *)
(* unless its stream's colours cannot be converted.                        *)
Taken(s, f) == s # <<>> /\ (Convertible => ~ Refuses(f, Head(s)))

LEMMA ParamsTake ==
  ASSUME NEW f, NEW m, NEW p
  PROVE  ~ Refuses(f, [op |-> "setparams", matrix |-> m, primaries |-> p])
BY DEF Refuses

LEMMA FpsTakes ==
  ASSUME NEW f, NEW rate
  PROVE  ~ Refuses(f, [op |-> "fps", rate |-> rate])
BY DEF Refuses

LEMMA TurnTakes ==
  ASSUME NEW f, NEW turn, ~ ScaleRefuses(f) \/ turn \notin Transposes
  PROVE  ~ Refuses(f, Rotate(turn))
BY DEF Refuses, Rotate, MadeWhole

LEMMA ScaleTakes ==
  ASSUME NEW f, NEW size, ~ ScaleRefuses(f)
  PROVE  ~ Refuses(f, [op |-> "scale", size |-> size])
BY DEF Refuses

LEMMA FormatTakes ==
  ASSUME NEW f, NEW to, ~ ScaleRefuses(f)
  PROVE  ~ Refuses(f, ToFormat(to))
BY DEF Refuses, ToFormat

LEMMA TonemapTakes ==
  ASSUME NEW f, f.signal = "linear"
  PROVE  ~ Refuses(f, [op |-> "tonemap"])
BY DEF Refuses

LEMMA ZscaleTakes ==
  ASSUME NEW f, NEW filter, filter.op = "zscale", ~ ZimgRefuses(f, filter)
  PROVE  ~ Refuses(f, filter)
BY DEF Refuses

LEMMA RgbTakes ==
  ASSUME NEW f, IsRgb(f.format)
  PROVE  ~ ScaleRefuses(f)
BY DEF ScaleRefuses, IsRgb

(* The scale filter knows the matrix of a frame on its way.                *)
LEMMA TaggedTakes ==
  ASSUME NEW c, NEW f, ConfigOk(c), f.matrix = Tagged(c), Convertible
  PROVE  ~ ScaleRefuses(f)
BY DEF ScaleRefuses, ConfigOk

-------------------------------------------------------------------------------
(* The chain is its parts.                                                 *)
LEMMA WhenIsASeq == ASSUME NEW b, NEW a PROVE ASeq(When(b, a))
<1>1. <<>> \in Seq({})
  OBVIOUS
<1>q. QED
  BY <1>1, OneIsASeq DEF ASeq, When

LEMMA PartsAreSeqs ==
  ASSUME NEW c, ASeq(c.rotate)
  PROVE  /\ ASeq(FromFormat(c)) /\ ASeq(FromPlanar(c)) /\ ASeq(FromZimg(c)) /\ ASeq(FromRgb(c))
         /\ ASeq(From709(c)) /\ ASeq(FromTonemap(c)) /\ ASeq(FromFloat(c)) /\ ASeq(FromLinear(c))
         /\ ASeq(FromTone(c)) /\ ASeq(FromScale(c)) /\ ASeq(FromTurn(c)) /\ ASeq(FromFps(c))
         /\ ASeq(HdrDefaults(c)) /\ ASeq(Fps(c)) /\ ASeq(Scale(c)) /\ ASeq(ToneMapping(c))
         /\ ASeq(AccurateRgb(c))
<1>0. ASeq(<<>>)
  BY WhenIsASeq DEF When
<1>1. ASeq(FromFormat(c))
  BY OneIsASeq DEF FromFormat
<1>2. ASeq(FromPlanar(c))
  BY <1>1, WhenIsASeq, ConcatIsASeq DEF FromPlanar
<1>3. ASeq(FromZimg(c))
  BY <1>2, OneAhead DEF FromZimg
<1>4. ASeq(AccurateRgb(c))
  <2>1. ASeq(IF c.tonemaps THEN <<>> ELSE UpsampleFor(c.source.format, c.source.w, c.source.h))
    BY <1>0, WhenIsASeq DEF UpsampleFor
  <2>2. ASeq(<<Zscale(FALSE, IF c.tonemaps THEN None ELSE c.size, DefaultMatrix(c), FALSE)>>)
    BY OneIsASeq
  <2>3. ASeq(When(c.format = Rgb("rgb24"), [op |-> "format", to |-> Rgb("gbrp")]))
    BY WhenIsASeq
  <2>q. QED
    BY <1>0, <2>1, <2>2, <2>3, ConcatIsASeq DEF AccurateRgb
<1>5. ASeq(FromRgb(c))
  BY <1>1, <1>4, ConcatIsASeq DEF FromRgb
<1>6. ASeq(From709(c))
  BY <1>5, OneAhead DEF From709
<1>7. ASeq(FromTonemap(c))
  BY <1>6, OneAhead DEF FromTonemap
<1>8. ASeq(FromFloat(c))
  BY <1>7, OneAhead DEF FromFloat
<1>9. ASeq(FromLinear(c))
  BY <1>8, OneAhead DEF FromLinear
<1>10. ASeq(ToneMapping(c))
  <2> DEFINE size == IF Accurate(c) THEN <<c.source.w, c.source.h>>
                     ELSE Given(c.size, <<c.source.w, c.source.h>>)
             wide == UpsampleFor(c.source.format, size[1], size[2])
             four == <<Linear(c), ToFormat(Rgb("gbrpf32le")), [op |-> "tonemap"], To709>>
  <2>1. ASeq(wide)
    BY WhenIsASeq DEF UpsampleFor
  <2>2. ASeq(four)
    BY <1>0, FourAhead
  <2>3. ToneMapping(c) = IF ~ c.tonemaps THEN <<>> ELSE wide \o four
    BY DEF ToneMapping, Linear, To709, ToFormat
  <2> HIDE DEF wide, four
  <2>q. QED
    BY <1>0, <2>1, <2>2, <2>3, ConcatIsASeq
<1>11. ASeq(FromTone(c))
  BY <1>5, <1>10, ConcatIsASeq DEF FromTone
<1>12. ASeq(Scale(c)) /\ ASeq(Fps(c)) /\ ASeq(HdrDefaults(c))
  BY WhenIsASeq DEF Scale, Fps, HdrDefaults
<1>13. ASeq(FromScale(c))
  BY <1>11, <1>12, ConcatIsASeq DEF FromScale
<1>14. ASeq(FromTurn(c))
  BY <1>13, ConcatIsASeq DEF FromTurn
<1>15. ASeq(FromFps(c))
  BY <1>12, <1>14, ConcatIsASeq DEF FromFps
<1>q. QED
  BY <1>1, <1>2, <1>3, <1>4, <1>5, <1>6, <1>7, <1>8, <1>9, <1>10, <1>11, <1>12, <1>13, <1>14,
     <1>15

LEMMA ChainIsItsParts ==
  ASSUME NEW c, ASeq(c.rotate)
  PROVE  Chain(c) = FromHdr(c)
<1> DEFINE P2 == HdrDefaults(c) \o Fps(c)
           P3 == P2 \o c.rotate
           P4 == P3 \o Scale(c)
           P5 == P4 \o ToneMapping(c)
           P6 == P5 \o AccurateRgb(c)
<1>1. Chain(c) = P6 \o FromFormat(c)
  BY DEF Chain, FromFormat, ToFormat
<1> HIDE DEF P2, P3, P4, P5, P6
<1>2. ASeq(P2)
  BY PartsAreSeqs, ConcatIsASeq DEF P2
<1>3. ASeq(P3)
  BY <1>2, ConcatIsASeq DEF P3
<1>4. ASeq(P4)
  BY <1>3, PartsAreSeqs, ConcatIsASeq DEF P4
<1>5. ASeq(P5)
  BY <1>4, PartsAreSeqs, ConcatIsASeq DEF P5
<1>6. P6 \o FromFormat(c) = P5 \o FromRgb(c)
  <2>1. Seqs(P5, AccurateRgb(c), FromFormat(c))
    BY <1>5, PartsAreSeqs DEF Seqs
  <2>2. FromRgb(c) = AccurateRgb(c) \o FromFormat(c)
    BY DEF FromRgb
  <2>q. QED
    BY <2>1, <2>2, ConcatAssociates DEF P6
<1>7. P5 \o FromRgb(c) = P4 \o FromTone(c)
  <2>1. Seqs(P4, ToneMapping(c), FromRgb(c))
    BY <1>4, PartsAreSeqs DEF Seqs
  <2>2. FromTone(c) = ToneMapping(c) \o FromRgb(c)
    BY DEF FromTone
  <2>q. QED
    BY <2>1, <2>2, ConcatAssociates DEF P5
<1>8. P4 \o FromTone(c) = P3 \o FromScale(c)
  <2>1. Seqs(P3, Scale(c), FromTone(c))
    BY <1>3, PartsAreSeqs DEF Seqs
  <2>2. FromScale(c) = Scale(c) \o FromTone(c)
    BY DEF FromScale
  <2>q. QED
    BY <2>1, <2>2, ConcatAssociates DEF P4
<1>9. P3 \o FromScale(c) = P2 \o FromTurn(c)
  <2> DEFINE R == c.rotate
  <2>1. Seqs(P2, R, FromScale(c))
    BY <1>2, PartsAreSeqs DEF Seqs
  <2>2. FromTurn(c) = R \o FromScale(c) /\ P3 = P2 \o R
    BY DEF FromTurn, P3
  <2> HIDE DEF R
  <2>q. QED
    BY <2>1, <2>2, ConcatAssociates
<1>10. P2 \o FromTurn(c) = HdrDefaults(c) \o FromFps(c)
  <2>1. Seqs(HdrDefaults(c), Fps(c), FromTurn(c))
    BY PartsAreSeqs DEF Seqs
  <2>2. FromFps(c) = Fps(c) \o FromTurn(c)
    BY DEF FromFps
  <2>q. QED
    BY <2>1, <2>2, ConcatAssociates DEF P2
<1>q. QED
  BY <1>1, <1>6, <1>7, <1>8, <1>9, <1>10 DEF FromHdr

-------------------------------------------------------------------------------
(* One part after the other.  A frame that came to a part has come to the  *)
(* next one when the part is empty; otherwise its filter takes it there.   *)
LEMMA OneHead ==
  ASSUME NEW a, NEW s, NEW t, ASeq(t), s = <<a>> \o t, NEW f
  PROVE  /\ s # <<>> /\ Head(s) = a /\ Tail(s) = t /\ Passed(s, f) = Filtered(f, a, NextOf(s))
         /\ t # <<>> => NextOf(s) = t[1]
BY FirstOfPart DEF Passed

LEMMA TurnsAreASeq == ASSUME NEW c, TurnsAre(c) PROVE ASeq(c.rotate)
<1>1. ASeq(<<>>)
  BY WhenIsASeq DEF When
<1>2. \A t : ASeq(<<Rotate(t)>>)
  BY OneIsASeq
<1>3. ASeq(<<Rotate("hflip"), Rotate("vflip")>>)
  BY <1>1, TwoAhead
<1>q. QED
  BY <1>1, <1>2, <1>3 DEF TurnsAre

LEMMA HdrStep ==
  ASSUME NEW c, NEW s, NEW f, ConfigOk(c), AtHdr(c, s, f)
  PROVE  AtFps(c, s, f) \/ (Taken(s, f) /\ AtFps(c, Tail(s), Passed(s, f)))
<1> DEFINE m == IF c.matrix = None THEN "bt2020nc" ELSE None
           p == IF c.primaries = None THEN "bt2020" ELSE None
           a == [op |-> "setparams", matrix |-> m, primaries |-> p]
           g == [f EXCEPT !.matrix = Given(m, @), !.primaries = Given(p, @)]
<1>1. ASeq(FromFps(c))
  BY TurnsAreASeq, PartsAreSeqs DEF ConfigOk
<1>2. "bt2020nc" # None /\ "bt2020" # None
  BY VideoPathAssumption
<1>3. CASE c.hdr /\ (c.matrix = None \/ c.primaries = None)
  <2>1. s = <<a>> \o FromFps(c)
    BY <1>3 DEF AtHdr, FromHdr, HdrDefaults, When
  <2>2. Filtered(f, a, NextOf(s)) = g
    <3> DEFINE n == NextOf(s)
    <3> HIDE DEF m, p, n
    <3>1. Filtered(f, a, n) = g
      BY ParamsApply
    <3>q. QED
      BY <3>1 DEF n
  <2>3. s # <<>> /\ Head(s) = a /\ Tail(s) = FromFps(c) /\ Passed(s, f) = g
    <3> HIDE DEF a, g
    <3>q. QED
      BY <1>1, <2>1, <2>2, OneHead
  <2>4. Good(g) /\ Untoned(g) /\ SizeOf(g) = SizeOf(f) /\ g.format = f.format
        /\ g.turned = f.turned /\ g.rate = f.rate /\ g.encoded = f.encoded
    <3> DEFINE x == Given(m, f.matrix)
               y == Given(p, f.primaries)
    <3>1. IsWhole(f)
      BY DEF AtHdr, Good
    <3>2. g = [f EXCEPT !.matrix = x, !.primaries = y]
      OBVIOUS
    <3> HIDE DEF g, x, y
    <3>3. IsWhole(g)
      BY <3>1, <3>2 DEF IsWhole
    <3>4. /\ g.w = f.w /\ g.h = f.h /\ g.format = f.format /\ g.on = f.on /\ g.signal = f.signal
          /\ g.encoded = f.encoded /\ g.right = f.right /\ g.turned = f.turned /\ g.rate = f.rate
          /\ g.toned = f.toned /\ g.by = f.by
      BY <3>1, <3>2 DEF IsWhole
    <3>q. QED
      BY <3>3, <3>4 DEF AtHdr, Good, ByZimg, Untoned, SizeOf
  <2>5. g.matrix = Given(m, f.matrix) /\ g.primaries = Given(p, f.primaries)
    BY DEF AtHdr, Good, IsWhole
  <2>6. g.matrix = Tagged(c) /\ g.primaries # None
    BY <1>2, <1>3, <2>5 DEF AtHdr, Tagged, Given
  <2> HIDE DEF g
  <2>7. AtFps(c, FromFps(c), g)
    BY <1>3, <2>4, <2>6 DEF AtHdr, AtFps, Coloured, Readable
  <2>8. Taken(s, f)
    BY <2>3, ParamsTake DEF Taken
  <2>q. QED
    BY <2>3, <2>7, <2>8
<1>4. CASE ~ (c.hdr /\ (c.matrix = None \/ c.primaries = None))
  <2>1. s = FromFps(c)
    BY <1>1, <1>4, NoneAhead DEF AtHdr, FromHdr, HdrDefaults, When
  <2>q. QED
    BY <1>2, <1>4, <2>1 DEF AtHdr, AtFps, Coloured, Readable, Tagged, Given
<1>q. QED
  BY <1>3, <1>4

LEMMA FpsStep ==
  ASSUME NEW c, NEW s, NEW f, ConfigOk(c), AtFps(c, s, f)
  PROVE  AtTurn(c, s, f) \/ (Taken(s, f) /\ AtTurn(c, Tail(s), Passed(s, f)))
<1> DEFINE a == [op |-> "fps", rate |-> c.rate]
           g == [f EXCEPT !.rate = c.rate]
<1>1. ASeq(FromTurn(c))
  BY TurnsAreASeq, PartsAreSeqs DEF ConfigOk
<1>2. CASE c.rate # None /\ c.fps = "nearest"
  <2>1. s = <<a>> \o FromTurn(c)
    BY <1>2 DEF AtFps, FromFps, Fps, When
  <2>2. Filtered(f, a, NextOf(s)) = g
    BY FpsApplies
  <2>3. s # <<>> /\ Head(s) = a /\ Tail(s) = FromTurn(c) /\ Passed(s, f) = g
    <3> HIDE DEF a, g
    <3>q. QED
      BY <1>1, <2>1, <2>2, OneHead
  <2>4. Good(g) /\ Coloured(c, g) /\ Readable(g) /\ SizeOf(g) = SizeOf(f) /\ g.format = f.format
        /\ g.turned = f.turned /\ g.rate = c.rate
    BY DEF AtFps, Good, IsWhole, ByZimg, Untoned, SizeOf, Coloured, Readable
  <2> HIDE DEF g
  <2>5. AtTurn(c, FromTurn(c), g)
    BY <1>2, <2>4 DEF AtFps, AtTurn, RateOf
  <2>6. Taken(s, f)
    BY <2>3, FpsTakes DEF Taken
  <2>q. QED
    BY <2>3, <2>5, <2>6
<1>3. CASE ~ (c.rate # None /\ c.fps = "nearest")
  <2>1. s = FromTurn(c)
    BY <1>1, <1>3, NoneAhead DEF AtFps, FromFps, Fps, When
  <2>q. QED
    BY <1>3, <2>1 DEF AtFps, AtTurn, RateOf
<1>q. QED
  BY <1>2, <1>3

-------------------------------------------------------------------------------
(* Turning.                                                                *)
LEMMA TurnNames ==
  DOMAIN Turn = {"clock", "cclock", "cclock_flip", "clock_flip", "hflip", "vflip"}
BY DEF Turn

LEMMA TurnsCompose ==
  /\ \A t \in DOMAIN Turn : After(Turn[t], Upright) = Turn[t]
  /\ After(Turn["vflip"], Turn["hflip"]) = <<-1, 0, 0, -1>>
<1>1. /\ Turn["clock"] = <<0, 1, -1, 0>> /\ Turn["cclock"] = <<0, -1, 1, 0>>
      /\ Turn["cclock_flip"] = <<0, 1, 1, 0>> /\ Turn["clock_flip"] = <<0, -1, -1, 0>>
      /\ Turn["hflip"] = <<-1, 0, 0, 1>> /\ Turn["vflip"] = <<1, 0, 0, -1>>
  BY DEF Turn
<1>2. /\ After(Turn["clock"], Upright) = Turn["clock"]
      /\ After(Turn["cclock"], Upright) = Turn["cclock"]
      /\ After(Turn["cclock_flip"], Upright) = Turn["cclock_flip"]
      /\ After(Turn["clock_flip"], Upright) = Turn["clock_flip"]
      /\ After(Turn["hflip"], Upright) = Turn["hflip"]
      /\ After(Turn["vflip"], Upright) = Turn["vflip"]
  BY <1>1 DEF After, Upright
<1>3. After(Turn["vflip"], Turn["hflip"]) = <<-1, 0, 0, -1>>
  BY <1>1 DEF After
<1>q. QED
  BY <1>2, <1>3, TurnNames

LEMMA FormatShape ==
  ASSUME NEW x, IsFormat(x)
  PROVE  /\ x.kind = "yuv" => x = Yuv(x.sub, x.full, x.deep) /\ x.sub \in Nat \X Nat
         /\ x.kind \in {"yuv", "gray", "rgb24", "gbrp", "gbrpf32le"}
         /\ x.kind = "gray" => x = Gray
         /\ IsRgb(x) => x = Rgb(x.kind)
BY DEF IsFormat, Yuv, Rgb, Gray, IsRgb

LEMMA WholeIsYuv ==
  ASSUME NEW full, NEW deep
  PROVE  /\ ~ Subsampled(Yuv(Whole, full, deep))
         /\ Yuv(Whole, full, deep).kind = "yuv" /\ Yuv(Whole, full, deep).sub = Whole
         /\ ~ IsRgb(Yuv(Whole, full, deep)) /\ Yuv(Whole, full, deep) # Gray
BY DEF Yuv, Whole, Subsampled, IsRgb, Gray

LEMMA YuvIsFormat ==
  ASSUME NEW sub \in Nat \X Nat, NEW full \in BOOLEAN, NEW deep \in BOOLEAN, ~ (full /\ deep)
  PROVE  IsFormat(Yuv(sub, full, deep)) /\ ~ IsRgb(Yuv(sub, full, deep))
BY DEF IsFormat, Yuv, IsRgb

LEMMA WholeIsFormat ==
  ASSUME NEW x, IsFormat(x), x.kind = "yuv"
  PROVE  IsFormat(Yuv(Whole, x.full, x.deep))
<1>1. x.full \in BOOLEAN /\ x.deep \in BOOLEAN /\ ~ (x.full /\ x.deep)
  BY DEF IsFormat, Gray, Rgb
<1>2. Whole \in Nat \X Nat
  BY DEF Whole
<1>q. QED
  BY <1>1, <1>2, YuvIsFormat

LEMMA TurnKeeps ==
  ASSUME NEW f, IsWhole(f), IsFormat(f.format), NEW turn
  PROVE  LET g == Turned(f, turn)
             whole == MadeWhole(f, turn)
         IN  /\ IsWhole(g)
             /\ g.on = f.on /\ g.matrix = f.matrix /\ g.primaries = f.primaries
             /\ g.signal = f.signal /\ g.encoded = f.encoded /\ g.right = f.right
             /\ g.rate = f.rate /\ g.toned = f.toned /\ g.by = f.by
             /\ g.turned = After(Turn[turn], f.turned)
             /\ SizeOf(g) = IF turn \in Transposes THEN Swapped(SizeOf(f)) ELSE SizeOf(f)
             /\ g.format = IF whole THEN Yuv(Whole, f.format.full, f.format.deep) ELSE f.format
<1> DEFINE whole == MadeWhole(f, turn)
           x == IF whole THEN [f EXCEPT !.format.sub = Whole] ELSE f
           o == IF whole THEN Yuv(Whole, f.format.full, f.format.deep) ELSE f.format
           w == IF turn \in Transposes THEN f.h ELSE f.w
           h == IF turn \in Transposes THEN f.w ELSE f.h
           m == After(Turn[turn], f.turned)
           g == Turned(f, turn)
<1>1. g = [x EXCEPT !.w = w, !.h = h, !.turned = m]
  <2>1. x.turned = f.turned
    BY DEF IsWhole
  <2>q. QED
    BY <2>1 DEF Turned
<1>2. x = [f EXCEPT !.format = o]
  <2>1. CASE whole
    <3>1. f.format = Yuv(f.format.sub, f.format.full, f.format.deep)
      BY <2>1, FormatShape DEF MadeWhole
    <3>2. [f.format EXCEPT !.sub = Whole] = Yuv(Whole, f.format.full, f.format.deep)
      BY <3>1 DEF Yuv
    <3>3. x = [f EXCEPT !.format = [f.format EXCEPT !.sub = Whole]]
      BY <2>1
    <3>q. QED
      BY <2>1, <3>2, <3>3
  <2>2. CASE ~ whole
    BY <2>2 DEF IsWhole
  <2>q. QED
    BY <2>1, <2>2
<1> HIDE DEF x, o, w, h, m, g
<1>3. IsWhole(x)
  BY <1>2 DEF IsWhole
<1>4. /\ x.format = o /\ x.w = f.w /\ x.h = f.h /\ x.on = f.on /\ x.matrix = f.matrix
      /\ x.primaries = f.primaries /\ x.signal = f.signal /\ x.encoded = f.encoded
      /\ x.right = f.right /\ x.rate = f.rate /\ x.toned = f.toned /\ x.by = f.by
  BY <1>2 DEF IsWhole
<1>5. IsWhole(g)
  BY <1>1, <1>3 DEF IsWhole
<1>6. /\ g.format = x.format /\ g.w = w /\ g.h = h /\ g.turned = m /\ g.on = x.on
      /\ g.matrix = x.matrix
      /\ g.primaries = x.primaries /\ g.signal = x.signal /\ g.encoded = x.encoded
      /\ g.right = x.right /\ g.rate = x.rate /\ g.toned = x.toned /\ g.by = x.by
  BY <1>1, <1>3 DEF IsWhole
<1>7. SizeOf(g) = IF turn \in Transposes THEN Swapped(SizeOf(f)) ELSE SizeOf(f)
  BY <1>6 DEF SizeOf, Swapped, w, h
<1>q. QED
  BY <1>4, <1>5, <1>6, <1>7 DEF g, m, o

(* What a turn leaves as it was, of a frame on its way.                    *)
LEMMA TurnLeaves ==
  ASSUME NEW c, NEW f, NEW turn, Good(f), Coloured(c, f), Readable(f)
  PROVE  /\ Good(Turned(f, turn)) /\ Coloured(c, Turned(f, turn)) /\ Readable(Turned(f, turn))
         /\ Turned(f, turn).rate = f.rate /\ Turned(f, turn).turned = After(Turn[turn], f.turned)
         /\ SizeOf(Turned(f, turn)) = IF turn \in Transposes THEN Swapped(SizeOf(f)) ELSE SizeOf(f)
         /\ \/ /\ Turned(f, turn).format = f.format
               /\ Subsampled(f.format) /\ turn \in Transposes
                    => f.format.sub[1] = f.format.sub[2]
            \/ /\ f.format.kind = "yuv" /\ Turned(f, turn).format.kind = "yuv"
               /\ Turned(f, turn).format.sub = Whole
<1> DEFINE g == Turned(f, turn)
           whole == MadeWhole(f, turn)
<1>1. /\ IsWhole(g)
      /\ g.on = f.on /\ g.matrix = f.matrix /\ g.primaries = f.primaries
      /\ g.signal = f.signal /\ g.encoded = f.encoded /\ g.right = f.right
      /\ g.rate = f.rate /\ g.toned = f.toned /\ g.by = f.by
      /\ g.turned = After(Turn[turn], f.turned)
      /\ SizeOf(g) = IF turn \in Transposes THEN Swapped(SizeOf(f)) ELSE SizeOf(f)
      /\ g.format = IF whole THEN Yuv(Whole, f.format.full, f.format.deep) ELSE f.format
  BY TurnKeeps DEF Good
<1> HIDE DEF g
<1>2. CASE whole
  <2>1. g.format = Yuv(Whole, f.format.full, f.format.deep)
    BY <1>1, <1>2
  <2>2. IsFormat(g.format) /\ ~ IsRgb(g.format) /\ g.format.kind = "yuv" /\ g.format.sub = Whole
    <3>1. IsFormat(f.format) /\ f.format.kind = "yuv"
      BY <1>2 DEF Good, MadeWhole
    <3>q. QED
      BY <2>1, <3>1, WholeIsFormat, WholeIsYuv
  <2>3. ~ IsRgb(f.format)
    BY <1>2 DEF MadeWhole, IsRgb
  <2>4. Good(g) /\ Coloured(c, g) /\ Readable(g)
    BY <1>1, <2>2, <2>3 DEF Good, Coloured, Untoned, Readable, ByZimg
  <2>q. QED
    BY <1>1, <1>2, <2>2, <2>4 DEF g, MadeWhole
<1>3. CASE ~ whole
  <2>1. g.format = f.format
    BY <1>1, <1>3
  <2>2. Good(g) /\ Coloured(c, g) /\ Readable(g)
    BY <1>1, <2>1 DEF Good, Coloured, Untoned, Readable, ByZimg
  <2>q. QED
    BY <1>1, <1>3, <2>1, <2>2 DEF g, Subsampled, MadeWhole
<1>q. QED
  BY <1>2, <1>3

LEMMA TurnStep ==
  ASSUME NEW c, NEW s, NEW f, ConfigOk(c), AtTurn(c, s, f)
  PROVE  \/ AtScale(c, s, f)
         \/ Taken(s, f) /\ AtScale(c, Tail(s), Passed(s, f))
         \/ Taken(s, f) /\ AtFlip(c, Tail(s), Passed(s, f))
<1>1. ASeq(FromScale(c)) /\ s = c.rotate \o FromScale(c)
  BY TurnsAreASeq, PartsAreSeqs DEF ConfigOk, AtTurn, FromTurn
<1>2. CASE c.rotate = <<>> /\ FirstWayUp = WayUp
  <2>1. s = FromScale(c)
    BY <1>1, <1>2, NoneAhead
  <2>2. ~ SwapsDimensions(c.rotate)
    BY <1>2 DEF SwapsDimensions
  <2>q. QED
    BY <1>2, <2>1, <2>2 DEF AtTurn, AtScale, Placed, KeptFormat, TurnedSize
<1>3. ASSUME NEW t \in DOMAIN Turn, FirstWayUp = Upright,
             c.rotate = <<Rotate(t)>>, WayUp = Turn[t]
      PROVE  Taken(s, f) /\ AtScale(c, Tail(s), Passed(s, f))
  <2> DEFINE g == Turned(f, t)
             a == Rotate(t)
  <2>1. s = <<a>> \o FromScale(c)
    BY <1>1, <1>3
  <2>2. Filtered(f, a, NextOf(s)) = g
    BY TurnApplies
  <2>3. s # <<>> /\ Head(s) = a /\ Tail(s) = FromScale(c) /\ Passed(s, f) = g
    <3> HIDE DEF a, g
    <3>q. QED
      BY <1>1, <2>1, <2>2, OneHead
  <2>4. SwapsDimensions(c.rotate) <=> t \in Transposes
    BY <1>3 DEF SwapsDimensions, Rotate
  <2>5. g.turned = WayUp /\ g.rate = RateOf(c) /\ Good(g) /\ Coloured(c, g) /\ Readable(g)
    BY <1>3, TurnLeaves, TurnsCompose DEF AtTurn
  <2>6. SizeOf(g) = TurnedSize(c) /\ KeptFormat(c, g)
    BY <2>4, TurnLeaves DEF AtTurn, TurnedSize, KeptFormat
  <2>7. Convertible => ~ Refuses(f, a)
    BY TaggedTakes, TurnTakes DEF AtTurn, Coloured
  <2> HIDE DEF g, a
  <2>8. Taken(s, f)
    BY <2>3, <2>7 DEF Taken
  <2>q. QED
    BY <2>3, <2>5, <2>6, <2>8 DEF AtScale, Placed
<1>4. ASSUME FirstWayUp = Upright, c.rotate = <<Rotate("hflip"), Rotate("vflip")>>,
             WayUp = <<-1, 0, 0, -1>>
      PROVE  Taken(s, f) /\ AtFlip(c, Tail(s), Passed(s, f))
  <2> DEFINE g == Turned(f, "hflip")
             a == Rotate("hflip")
             u == <<Rotate("vflip")>> \o FromScale(c)
  <2>1. ASeq(u) /\ s = <<a>> \o u
    <3>1. <<Rotate("hflip"), Rotate("vflip")>> \o FromScale(c) = <<a>> \o u
      <4> DEFINE b == Rotate("vflip")
                 v == FromScale(c)
      <4>1. ASeq(v)
        BY <1>1
      <4> HIDE DEF a, b, v
      <4>2. <<a, b>> \o v = <<a>> \o (<<b>> \o v)
        BY <4>1, TwoAhead
      <4>q. QED
        BY <4>2 DEF a, b, v
    <3>q. QED
      BY <1>1, <1>4, <3>1, OneAhead
  <2>2. Filtered(f, a, NextOf(s)) = g
    BY TurnApplies
  <2>3. s # <<>> /\ Head(s) = a /\ Tail(s) = u /\ Passed(s, f) = g
    <3> HIDE DEF a, g, u
    <3>q. QED
      BY <2>1, <2>2, OneHead
  <2>4. "hflip" \notin Transposes
    BY DEF Transposes
  <2>5. g.turned = Turn["hflip"] /\ g.rate = RateOf(c) /\ Good(g) /\ Coloured(c, g) /\ Readable(g)
    <3>1. After(Turn["hflip"], f.turned) = Turn["hflip"]
      BY <1>4, TurnsCompose, TurnNames DEF AtTurn
    <3>q. QED
      BY <3>1, TurnLeaves DEF AtTurn
  <2>6. SizeOf(g) = SourceSize(c)
    BY <2>4, TurnLeaves DEF AtTurn
  <2>7. g.format = c.source.format
    BY <2>4, TurnKeeps DEF AtTurn, Good, MadeWhole
  <2>8. ~ Refuses(f, a)
    BY <2>4, TurnTakes
  <2> HIDE DEF g, a
  <2>9. Taken(s, f)
    BY <2>3, <2>8 DEF Taken
  <2>q. QED
    BY <1>4, <2>3, <2>5, <2>6, <2>7, <2>9 DEF AtFlip
<1>q. QED
  BY <1>2, <1>3, <1>4 DEF ConfigOk, TurnsAre

LEMMA FlipStep ==
  ASSUME NEW c, NEW s, NEW f, ConfigOk(c), AtFlip(c, s, f)
  PROVE  Taken(s, f) /\ AtScale(c, Tail(s), Passed(s, f))
<1> DEFINE g == Turned(f, "vflip")
           a == Rotate("vflip")
<1>1. ASeq(FromScale(c)) /\ s = <<a>> \o FromScale(c)
  BY TurnsAreASeq, PartsAreSeqs DEF ConfigOk, AtFlip
<1>2. Filtered(f, a, NextOf(s)) = g
  BY TurnApplies
<1>3. s # <<>> /\ Head(s) = a /\ Tail(s) = FromScale(c) /\ Passed(s, f) = g
  <2> HIDE DEF a, g
  <2>q. QED
    BY <1>1, <1>2, OneHead
<1>4. "vflip" \notin Transposes
  BY DEF Transposes
<1>5. ~ SwapsDimensions(c.rotate)
  <2>1. c.rotate[1].turn = "hflip"
    BY DEF AtFlip, Rotate
  <2>q. QED
    BY <2>1 DEF SwapsDimensions, Transposes
<1>6. g.turned = WayUp /\ g.rate = RateOf(c) /\ Good(g) /\ Coloured(c, g) /\ Readable(g)
  <2>1. After(Turn["vflip"], f.turned) = WayUp
    BY TurnsCompose DEF AtFlip
  <2>q. QED
    BY <2>1, TurnLeaves DEF AtFlip
<1>7. SizeOf(g) = TurnedSize(c) /\ KeptFormat(c, g)
  <2>1. SizeOf(g) = SizeOf(f) /\ g.format = f.format
    BY <1>4, TurnKeeps DEF AtFlip, Good, MadeWhole
  <2>q. QED
    BY <1>5, <2>1 DEF AtFlip, TurnedSize, KeptFormat
<1>8. ~ Refuses(f, a)
  BY <1>4, TurnTakes
<1> HIDE DEF g, a
<1>9. Taken(s, f)
  BY <1>3, <1>8 DEF Taken
<1>q. QED
  BY <1>3, <1>6, <1>7, <1>9 DEF AtScale, Placed

-------------------------------------------------------------------------------
(* Sizes.                                                                  *)
LEMMA PlannedIsAPair == planned = <<planned[1], planned[2]>>
<1>1. \A size : size = <<size[1], size[2]>> =>
        ResolveOutputSize(size, request)
          = <<ResolveOutputSize(size, request)[1], ResolveOutputSize(size, request)[2]>>
  BY DEF ResolveOutputSize
<1>2. Displayed(request, stream) = <<Displayed(request, stream)[1], Displayed(request, stream)[2]>>
  BY DEF Displayed, Swapped
<1>q. QED
  BY <1>1, <1>2 DEF planned, PlannedSize

LEMMA ScaleStep ==
  ASSUME NEW c, NEW s, NEW f, ConfigOk(c), AtScale(c, s, f)
  PROVE  AtTone(c, s, f) \/ (Taken(s, f) /\ AtTone(c, Tail(s), Passed(s, f)))
<1> DEFINE a == [op |-> "scale", size |-> c.size]
           g == [f EXCEPT !.w = c.size[1], !.h = c.size[2]]
<1>1. ASeq(FromTone(c))
  BY TurnsAreASeq, PartsAreSeqs DEF ConfigOk
<1>2. CASE c.size # None /\ ~ Accurate(c)
  <2>1. s = <<a>> \o FromTone(c)
    BY <1>2 DEF AtScale, FromScale, Scale, When
  <2>2. Filtered(f, a, NextOf(s)) = g
    BY ScaleApplies
  <2>3. s # <<>> /\ Head(s) = a /\ Tail(s) = FromTone(c) /\ Passed(s, f) = g
    <3> HIDE DEF a, g
    <3>q. QED
      BY <1>1, <2>1, <2>2, OneHead
  <2>4. c.size = <<c.size[1], c.size[2]>> /\ c.size = ScaledSize(c)
    BY <1>2, PlannedIsAPair DEF ConfigOk, Given, ScaledSize
  <2>5. IsWhole(f)
    BY DEF AtScale, Placed, Good
  <2>6. IsWhole(g) /\ SizeOf(g) = <<c.size[1], c.size[2]>>
    <3> DEFINE x == c.size[1]
               y == c.size[2]
    <3>1. g = [f EXCEPT !.w = x, !.h = y]
      OBVIOUS
    <3> HIDE DEF g, x, y
    <3>2. IsWhole(g) /\ SizeOf(g) = <<x, y>>
      BY <2>5, <3>1 DEF IsWhole, SizeOf
    <3>q. QED
      BY <3>2 DEF x, y
  <2>7. /\ g.format = f.format /\ g.on = f.on /\ g.matrix = f.matrix
        /\ g.primaries = f.primaries /\ g.signal = f.signal /\ g.encoded = f.encoded
        /\ g.right = f.right /\ g.turned = f.turned /\ g.rate = f.rate /\ g.toned = f.toned
        /\ g.by = f.by
    BY <2>5 DEF IsWhole
  <2> HIDE DEF g
  <2>9. Taken(s, f)
    BY <2>3, TaggedTakes, ScaleTakes DEF Taken, AtScale, Coloured
  <2>8. Placed(c, g) /\ Readable(g) /\ Coloured(c, g) /\ KeptFormat(c, g)
    BY <2>6, <2>7 DEF AtScale, Placed, Good, ByZimg, Readable, Coloured, Untoned, KeptFormat
  <2>q. QED
    BY <2>3, <2>4, <2>6, <2>8, <2>9 DEF AtTone
<1>3. CASE ~ (c.size # None /\ ~ Accurate(c))
  <2>1. s = FromTone(c)
    BY <1>1, <1>3, NoneAhead DEF AtScale, FromScale, Scale, When
  <2>q. QED
    BY <1>3, <2>1 DEF AtScale, AtTone, ScaledSize, Given
<1>q. QED
  BY <1>2, <1>3

(* A frame whose subsampled chroma does not fit its size is made whole     *)
(* before zimg sees it, whichever way it was turned.                       *)
Made(f, x) == [f EXCEPT !.format = x]
LEMMA FormatSet ==
  ASSUME NEW f, IsWhole(f), NEW x
  PROVE  LET g == Made(f, x)
         IN  /\ IsWhole(g) /\ SizeOf(g) = SizeOf(f)
             /\ g.format = x /\ g.on = f.on /\ g.matrix = f.matrix
             /\ g.primaries = f.primaries /\ g.signal = f.signal /\ g.encoded = f.encoded
             /\ g.right = f.right /\ g.turned = f.turned /\ g.rate = f.rate /\ g.toned = f.toned
             /\ g.by = f.by
BY DEF IsWhole, SizeOf, Made

Upsamples(c, s, f, t, w, h) ==
  /\ ASeq(t) /\ s = UpsampleFor(c.source.format, w, h) \o t
  /\ IsFormat(c.source.format) /\ IsFormat(f.format) /\ KeptFormat(c, f)
  /\ SizeOf(f) = <<w, h>> \/ (SizeOf(f) = <<h, w>> /\ SwapsDimensions(c.rotate))
LEMMA UpsampleStep ==
  ASSUME NEW c, NEW s, NEW f, NEW t, NEW w, NEW h, Upsamples(c, s, f, t, w, h)
  PROVE  \/ s = t /\ ZimgReady(f)
         \/ /\ s # <<>> /\ Tail(s) = t /\ (~ ScaleRefuses(f) => ~ Refuses(f, Head(s)))
            /\ c.source.format.kind = "yuv"
            /\ Passed(s, f) = Made(f, Yuv(Whole, c.source.format.full, c.source.format.deep))
<1> DEFINE x == c.source.format
           to == Yuv(Whole, x.full, x.deep)
           a == ToFormat(to)
           g == Made(f, to)
<1>0. /\ ASeq(t) /\ s = UpsampleFor(x, w, h) \o t
      /\ IsFormat(x) /\ IsFormat(f.format) /\ KeptFormat(c, f)
      /\ SizeOf(f) = <<w, h>> \/ (SizeOf(f) = <<h, w>> /\ SwapsDimensions(c.rotate))
  BY DEF Upsamples
<1>1. CASE Subsampled(x) /\ ~ Aligned(x, w, h)
  <2>1. s = <<a>> \o t
    BY <1>0, <1>1 DEF UpsampleFor, When, ToFormat
  <2>2. ~ IsRgb(f.format) /\ x.kind = "yuv"
    BY <1>0, <1>1 DEF KeptFormat, Subsampled, IsRgb
  <2>3. Filtered(f, a, NextOf(s)) = Formatted(f, to)
    BY FormatApplies
  <2>4. Formatted(f, to) = g
    BY <2>2, WholeIsYuv DEF Formatted, ToYuv, Made
  <2>5. s # <<>> /\ Head(s) = a /\ Tail(s) = t /\ Passed(s, f) = g
    <3> HIDE DEF a, g, to
    <3>q. QED
      BY <1>0, <2>1, <2>3, <2>4, OneHead
  <2>6. ~ ScaleRefuses(f) => ~ Refuses(f, a)
    BY FormatTakes
  <2>q. QED
    BY <2>2, <2>5, <2>6
<1>2. CASE ~ (Subsampled(x) /\ ~ Aligned(x, w, h))
  <2>1. s = t
    BY <1>0, <1>2, NoneAhead DEF UpsampleFor, When
  <2>2. ZimgReady(f)
    <3>1. CASE f.format = x /\ Subsampled(x)
      <4>1. SwapsDimensions(c.rotate) => x.sub[1] = x.sub[2]
        BY <1>0, <3>1 DEF KeptFormat, Subsampled
      <4>2. \/ f.w = w /\ f.h = h
            \/ f.w = h /\ f.h = w /\ x.sub[1] = x.sub[2]
        BY <1>0, <4>1 DEF SizeOf
      <4>q. QED
        BY <1>2, <3>1, <4>2 DEF ZimgReady, Aligned
    <3>2. CASE ~ (f.format = x /\ Subsampled(x))
      BY <1>0, <3>2 DEF ZimgReady, KeptFormat, Subsampled
    <3>q. QED
      BY <3>1, <3>2
  <2>q. QED
    BY <2>1, <2>2
<1>q. QED
  BY <1>1, <1>2

(* The tone mapping's four filters.                                        *)
LEMMA ToneStep ==
  ASSUME NEW c, NEW s, NEW f, ConfigOk(c), AtTone(c, s, f)
  PROVE  AtRgb(c, s, f) \/ AtLinear(c, s, f) \/ (Taken(s, f) /\ AtLinear(c, Tail(s), Passed(s, f)))
<1>0. /\ ASeq(FromRgb(c)) /\ ASeq(FromLinear(c))
      /\ IsFormat(c.source.format) /\ IsFormat(f.format) /\ KeptFormat(c, f) /\ IsWhole(f)
  BY TurnsAreASeq, PartsAreSeqs DEF ConfigOk, AtTone, Placed, Good
<1>1. CASE ~ c.tonemaps
  <2>1. s = FromRgb(c)
    BY <1>0, <1>1, NoneAhead DEF AtTone, FromTone, ToneMapping
  <2>2. Toned(f)
    BY <1>1 DEF AtTone, Coloured, Untoned, Toned, ConfigOk
  <2>q. QED
    BY <1>1, <2>1, <2>2 DEF AtTone, AtRgb, Coloured
<1>2. CASE c.tonemaps
  <2> DEFINE size == IF Accurate(c) THEN <<c.source.w, c.source.h>>
                     ELSE Given(c.size, <<c.source.w, c.source.h>>)
             four == <<Linear(c), ToFormat(Rgb("gbrpf32le")), [op |-> "tonemap"], To709>>
             wide == UpsampleFor(c.source.format, size[1], size[2])
             to == Yuv(Whole, c.source.format.full, c.source.format.deep)
             g == Made(f, to)
  <2>1. s = wide \o FromLinear(c)
    <3>1. s = (wide \o four) \o FromRgb(c)
      BY <1>2 DEF AtTone, FromTone, ToneMapping, Linear, To709, ToFormat
    <3>2. Seqs(wide, four, FromRgb(c))
      BY WhenIsASeq, FourAhead, <1>0 DEF UpsampleFor, Seqs
    <3>3. FromLinear(c) = four \o FromRgb(c)
      BY <1>0, FourAhead DEF FromLinear, FromFloat, FromTonemap, From709
    <3> HIDE DEF wide, four
    <3>q. QED
      BY <3>1, <3>2, <3>3, ConcatAssociates
  <2>2. SizeOf(f) = <<size[1], size[2]>>
        \/ (SizeOf(f) = <<size[2], size[1]>> /\ SwapsDimensions(c.rotate))
    <3>1. c.size # None => c.size = <<c.size[1], c.size[2]>>
      BY PlannedIsAPair DEF ConfigOk, Given
    <3>q. QED
      BY <3>1 DEF AtTone, ScaledSize, TurnedSize, SourceSize, Swapped, Given
  <2>3. Coloured(c, f) /\ Readable(f) /\ SizeOf(f) = ScaledSize(c) /\ Placed(c, f)
    BY DEF AtTone
  <2>4. CASE s = FromLinear(c) /\ ZimgReady(f)
    <3>1. f.format # Gray
      BY <1>2 DEF AtTone, KeptFormat, ConfigOk, Gray
    <3>q. QED
      BY <1>2, <2>3, <2>4, <3>1 DEF AtLinear
  <2>5. CASE Taken(s, f) /\ Tail(s) = FromLinear(c) /\ c.source.format.kind = "yuv"
             /\ Passed(s, f) = g
    <3>1. /\ IsFormat(to) /\ ~ Subsampled(to) /\ ~ IsRgb(to) /\ to # Gray
      BY <2>5, WholeIsFormat, WholeIsYuv DEF ConfigOk
    <3>2. /\ IsWhole(g) /\ SizeOf(g) = SizeOf(f)
          /\ g.format = to /\ g.on = f.on /\ g.matrix = f.matrix
          /\ g.primaries = f.primaries /\ g.signal = f.signal /\ g.encoded = f.encoded
          /\ g.right = f.right /\ g.turned = f.turned /\ g.rate = f.rate /\ g.toned = f.toned
          /\ g.by = f.by
      BY <1>0, FormatSet
    <3>3. ~ IsRgb(f.format)
      BY <1>0, <2>5 DEF KeptFormat, IsRgb
    <3> HIDE DEF g, to
    <3>4. Placed(c, g) /\ Readable(g) /\ Coloured(c, g) /\ ZimgReady(g)
      BY <2>3, <3>1, <3>2, <3>3
      DEF Placed, Good, ByZimg, Readable, Coloured, Untoned, ZimgReady
    <3>q. QED
      BY <1>2, <2>3, <2>5, <3>1, <3>2, <3>4 DEF AtLinear
  <2>6. \/ s = FromLinear(c) /\ ZimgReady(f)
        \/ Taken(s, f) /\ Tail(s) = FromLinear(c) /\ c.source.format.kind = "yuv"
           /\ Passed(s, f) = g
    <3> DEFINE w == size[1]
               h == size[2]
    <3>1. /\ s = UpsampleFor(c.source.format, w, h) \o FromLinear(c)
          /\ SizeOf(f) = <<w, h>> \/ (SizeOf(f) = <<h, w>> /\ SwapsDimensions(c.rotate))
      BY <2>1, <2>2
    <3>2. ASeq(FromLinear(c)) /\ IsFormat(c.source.format) /\ IsFormat(f.format) /\ KeptFormat(c, f)
      BY <1>0
    <3> HIDE DEF w, h, size, g, to
    <3>3. Upsamples(c, s, f, FromLinear(c), w, h)
      BY <3>1, <3>2 DEF Upsamples
    <3>4. \/ s = FromLinear(c) /\ ZimgReady(f)
          \/ /\ s # <<>> /\ Tail(s) = FromLinear(c)
             /\ ~ ScaleRefuses(f) => ~ Refuses(f, Head(s))
             /\ c.source.format.kind = "yuv"
             /\ Passed(s, f) = Made(f, Yuv(Whole, c.source.format.full, c.source.format.deep))
      BY <3>3, UpsampleStep
    <3>5. Convertible => ~ ScaleRefuses(f)
      BY <2>3, TaggedTakes DEF Coloured
    <3>q. QED
      BY <3>4, <3>5 DEF g, to, Taken
  <2>q. QED
    BY <2>4, <2>5, <2>6
<1>q. QED
  BY <1>1, <1>2

LEMMA RgbIsFormat ==
  ASSUME NEW kind, kind \in {"rgb24", "gbrp", "gbrpf32le"}
  PROVE  IsFormat(Rgb(kind)) /\ IsRgb(Rgb(kind)) /\ ~ Subsampled(Rgb(kind)) /\ Rgb(kind).kind = kind
BY DEF IsFormat, Rgb, IsRgb, Subsampled, Gray

(* What zscale makes of a frame, and what it refuses.                      *)
LEMMA ZscaleKeeps ==
  ASSUME NEW f, IsWhole(f), NEW filter, NEW next
  PROVE  LET to == IF next.op = "format" /\ next.to # Rgb("rgb24") THEN next.to
                   ELSE Rgb("gbrpf32le")
             matrix == IF filter.to709 THEN "bt709" ELSE f.matrix
             g == Zscaled(f, filter, next)
         IN  /\ IsWhole(g) /\ g.format = to
             /\ g.w = Given(filter.size, SizeOf(f))[1] /\ g.h = Given(filter.size, SizeOf(f))[2]
             /\ g.on = f.on /\ g.turned = f.turned /\ g.rate = f.rate /\ g.toned = f.toned
             /\ g.signal = IF filter.to709 THEN "bt709"
                           ELSE IF filter.linear THEN "linear" ELSE f.signal
             /\ g.primaries = IF filter.to709 THEN "bt709" ELSE f.primaries
             /\ IF IsRgb(to) /\ ~ IsRgb(f.format)
                THEN g.by = "zscale"
                     /\ g.right = (f.right /\ (f.format = Gray \/ ZimgMatrix(f, filter) = f.encoded))
                ELSE g.by = f.by /\ g.right = f.right
             /\ IF ~ IsRgb(to) /\ IsRgb(f.format)
                THEN /\ g.encoded = IF matrix \in {None, "gbr"} THEN "bt601" ELSE matrix
                     /\ g.matrix = IF matrix = "gbr" THEN None ELSE matrix
                ELSE g.encoded = f.encoded /\ g.matrix = matrix
<1> DEFINE to == IF next.op = "format" /\ next.to # Rgb("rgb24") THEN next.to
                 ELSE Rgb("gbrpf32le")
           matrix == IF filter.to709 THEN "bt709" ELSE f.matrix
           w == Given(filter.size, <<f.w, f.h>>)[1]
           h == Given(filter.size, <<f.w, f.h>>)[2]
           x == [f EXCEPT !.w = w, !.h = h, !.matrix = matrix]
           right == f.right /\ (f.format = Gray \/ ZimgMatrix(f, filter) = f.encoded)
           encoded == IF matrix \in {None, "gbr"} THEN "bt601" ELSE matrix
           tag == IF matrix = "gbr" THEN None ELSE matrix
           done == IF IsRgb(to) THEN ToRgb(x, to, ZimgMatrix(f, filter), "zscale") ELSE ToYuv(x, to)
           g == IF filter.to709 THEN [done EXCEPT !.primaries = "bt709", !.signal = "bt709"]
                ELSE IF filter.linear THEN [done EXCEPT !.signal = "linear"]
                ELSE done
<1>1. g = Zscaled(f, filter, next)
  BY DEF Zscaled
<1> HIDE DEF to, matrix, w, h, right, encoded, tag
<1>b. x = [f EXCEPT !.w = w, !.h = h, !.matrix = matrix]
  OBVIOUS
<1> HIDE DEF x
<1>a. IsWhole(x)
  BY <1>b DEF IsWhole
<1>2. /\ IsWhole(x)
      /\ x.w = w /\ x.h = h /\ x.matrix = matrix /\ x.format = f.format
      /\ x.on = f.on /\ x.primaries = f.primaries /\ x.signal = f.signal /\ x.encoded = f.encoded
      /\ x.right = f.right /\ x.turned = f.turned /\ x.rate = f.rate /\ x.toned = f.toned
      /\ x.by = f.by
  BY <1>a, <1>b DEF IsWhole
<1>3. done = IF IsRgb(to)
             THEN IF IsRgb(x.format) THEN [x EXCEPT !.format = to]
                  ELSE [x EXCEPT !.format = to, !.by = "zscale", !.right = right]
             ELSE IF IsRgb(x.format) THEN [x EXCEPT !.format = to, !.encoded = encoded, !.matrix = tag]
                  ELSE [x EXCEPT !.format = to]
  BY <1>2 DEF ToRgb, ToYuv, right, encoded, tag, IsWhole
<1> HIDE DEF done
<1>4. /\ IsWhole(done) /\ done.format = to
      /\ done.w = x.w /\ done.h = x.h /\ done.on = x.on /\ done.turned = x.turned
      /\ done.rate = x.rate /\ done.toned = x.toned
      /\ done.signal = x.signal /\ done.primaries = x.primaries
      /\ IF IsRgb(to) /\ ~ IsRgb(x.format) THEN done.by = "zscale" /\ done.right = right
         ELSE done.by = x.by /\ done.right = x.right
      /\ IF ~ IsRgb(to) /\ IsRgb(x.format) THEN done.encoded = encoded /\ done.matrix = tag
         ELSE done.encoded = x.encoded /\ done.matrix = x.matrix
  BY <1>2, <1>3 DEF IsWhole
<1>5. /\ IsWhole(g) /\ g.format = done.format
      /\ g.w = done.w /\ g.h = done.h /\ g.on = done.on /\ g.turned = done.turned
      /\ g.rate = done.rate /\ g.toned = done.toned
      /\ g.signal = IF filter.to709 THEN "bt709"
                    ELSE IF filter.linear THEN "linear" ELSE done.signal
      /\ g.primaries = IF filter.to709 THEN "bt709" ELSE done.primaries
      /\ g.by = done.by /\ g.right = done.right /\ g.encoded = done.encoded
      /\ g.matrix = done.matrix
  BY <1>4 DEF IsWhole
<1> HIDE DEF g
<1>6. /\ IsWhole(g) /\ g.format = to /\ g.w = w /\ g.h = h
      /\ g.on = f.on /\ g.turned = f.turned /\ g.rate = f.rate /\ g.toned = f.toned
      /\ g.signal = IF filter.to709 THEN "bt709"
                    ELSE IF filter.linear THEN "linear" ELSE f.signal
      /\ g.primaries = IF filter.to709 THEN "bt709" ELSE f.primaries
      /\ IF IsRgb(to) /\ ~ IsRgb(f.format) THEN g.by = "zscale" /\ g.right = right
         ELSE g.by = f.by /\ g.right = f.right
      /\ IF ~ IsRgb(to) /\ IsRgb(f.format) THEN g.encoded = encoded /\ g.matrix = tag
         ELSE g.encoded = f.encoded /\ g.matrix = matrix
  BY <1>2, <1>4, <1>5
<1>q. QED
  BY <1>1, <1>6 DEF to, matrix, w, h, right, encoded, tag, SizeOf

Rgbf == Rgb("gbrpf32le")
LEMMA ToneParts ==
  ASSUME NEW c, TurnsAre(c)
  PROVE  /\ FromLinear(c) = <<Linear(c)>> \o FromFloat(c)
         /\ FromFloat(c) = <<ToFormat(Rgbf)>> \o FromTonemap(c)
         /\ FromTonemap(c) = <<[op |-> "tonemap"]>> \o From709(c)
         /\ ASeq(FromFloat(c)) /\ ASeq(FromTonemap(c)) /\ ASeq(From709(c))
BY TurnsAreASeq, PartsAreSeqs DEF FromLinear, FromFloat, FromTonemap, Rgbf

LEMMA LinearStep ==
  ASSUME NEW c, NEW s, NEW f, ConfigOk(c), AtLinear(c, s, f)
  PROVE  Taken(s, f) /\ AtFloat(c, Tail(s), Passed(s, f))
<1> DEFINE filter == Linear(c)
           next == NextOf(s)
           g == Zscaled(f, filter, next)
<1>1. /\ s # <<>> /\ Head(s) = filter /\ Tail(s) = FromFloat(c) /\ Passed(s, f) = g
      /\ next = ToFormat(Rgbf)
  <2>1. ASeq(FromTonemap(c)) /\ ASeq(FromFloat(c))
    BY ToneParts DEF ConfigOk
  <2>2. s = <<filter>> \o FromFloat(c)
    BY ToneParts DEF AtLinear, ConfigOk
  <2>3. FromFloat(c) = <<ToFormat(Rgbf)>> \o FromTonemap(c)
    BY DEF FromFloat, Rgbf
  <2>4. Filtered(f, filter, next) = g
    <3>1. filter.op = "zscale"
      BY DEF Linear, Zscale
    <3> HIDE DEF filter, next
    <3>q. QED
      BY <3>1, ZscaleApplies
  <2> HIDE DEF filter, g, next
  <2>5. FromFloat(c) # <<>> /\ FromFloat(c)[1] = ToFormat(Rgbf)
    <3>1. FromFloat(c) # <<>> /\ Head(FromFloat(c)) = ToFormat(Rgbf)
      BY <2>1, <2>3, FirstOfPart
    <3>q. QED
      BY <3>1
  <2>q. QED
    BY <2>1, <2>2, <2>4, <2>5, OneHead DEF next
<1>2. /\ filter.to709 = FALSE /\ filter.linear = TRUE /\ filter.matrixIn = None
      /\ filter.size = (IF Accurate(c) THEN c.size ELSE None) /\ filter.op = "zscale"
  BY DEF Linear, Zscale
<1>3. next.op = "format" /\ next.to = Rgbf /\ Rgbf # Rgb("rgb24") /\ IsRgb(Rgbf) /\ IsFormat(Rgbf)
  BY <1>1, RgbIsFormat DEF ToFormat, Rgbf
<1>4. IsWhole(f) /\ f.right = TRUE /\ f.on = "cpu" /\ ByZimg(f)
  BY DEF AtLinear, Placed, Good
<1> HIDE DEF filter, next
<1>5. /\ IsWhole(g) /\ g.format = Rgbf
      /\ g.w = Given(filter.size, SizeOf(f))[1] /\ g.h = Given(filter.size, SizeOf(f))[2]
      /\ g.on = f.on /\ g.turned = f.turned /\ g.rate = f.rate /\ g.toned = f.toned
      /\ g.signal = "linear" /\ g.primaries = f.primaries /\ g.matrix = f.matrix
      /\ g.encoded = f.encoded
      /\ IF ~ IsRgb(f.format)
         THEN g.by = "zscale"
              /\ g.right = (f.right /\ (f.format = Gray \/ ZimgMatrix(f, filter) = f.encoded))
         ELSE g.by = f.by /\ g.right = f.right
  BY <1>2, <1>3, <1>4, ZscaleKeeps DEF Rgbf
<1> HIDE DEF g
<1>6. ~ IsRgb(f.format) => f.matrix # None /\ ZimgMatrix(f, filter) = f.matrix /\ f.encoded = f.matrix
  <2>1. f.matrix # None
    BY VideoPathAssumption DEF AtLinear, Coloured, Tagged, ConfigOk, Given
  <2>2. f.format.kind # "gray"
    BY FormatShape DEF AtLinear, Placed, Good
  <2>q. QED
    BY <1>2, <2>1, <2>2 DEF AtLinear, Readable, Given, ZimgMatrix
<1>7. Convertible => ~ ZimgRefuses(f, filter)
  <2>1. Convertible => f.signal # None
    BY DEF Convertible, AtLinear, Coloured, Untoned, ConfigOk
  <2>q. QED
    BY <1>2, <1>6, <2>1 DEF ZimgRefuses, AtLinear, ZimgReady
<1>8. Taken(s, f)
  BY <1>1, <1>2, <1>7, ZscaleTakes DEF Taken
<1>9. g.right = TRUE
  BY <1>4, <1>5, <1>6
<1>10. SizeOf(g) = planned
  <2>1. Given(filter.size, SizeOf(f)) = planned
    BY <1>2 DEF AtLinear, ScaledSize, Given, ConfigOk
  <2>q. QED
    BY <1>5, <2>1, PlannedIsAPair DEF SizeOf
<1>11. Good(g)
  BY <1>3, <1>4, <1>5, <1>9 DEF Good, ByZimg
<1>12. InLinear(c, g) /\ g.toned = 0
  BY <1>3, <1>5, <1>10, <1>11 DEF AtLinear, InLinear, Placed, Coloured, Untoned, ConfigOk
<1>q. QED
  BY <1>1, <1>8, <1>12 DEF AtFloat

LEMMA FloatStep ==
  ASSUME NEW c, NEW s, NEW f, ConfigOk(c), AtFloat(c, s, f)
  PROVE  Taken(s, f) /\ AtTonemap(c, Tail(s), Passed(s, f))
<1> DEFINE a == ToFormat(Rgbf)
           g == Made(f, Rgbf)
<1>1. IsRgb(Rgbf) /\ IsFormat(Rgbf)
  BY RgbIsFormat DEF Rgbf
<1>2. ASeq(FromTonemap(c)) /\ s = <<a>> \o FromTonemap(c)
  BY ToneParts DEF AtFloat, ConfigOk
<1>3. Filtered(f, a, NextOf(s)) = g
  BY <1>1, FormatApplies DEF AtFloat, InLinear, Formatted, ToRgb, Made
<1>4. s # <<>> /\ Head(s) = a /\ Tail(s) = FromTonemap(c) /\ Passed(s, f) = g
  <2> HIDE DEF a, g
  <2>q. QED
    BY <1>2, <1>3, OneHead
<1>5. IsWhole(f)
  BY DEF AtFloat, InLinear, Placed, Good
<1>6. /\ IsWhole(g) /\ SizeOf(g) = SizeOf(f)
      /\ g.format = Rgbf /\ g.on = f.on /\ g.matrix = f.matrix
      /\ g.primaries = f.primaries /\ g.signal = f.signal /\ g.encoded = f.encoded
      /\ g.right = f.right /\ g.turned = f.turned /\ g.rate = f.rate /\ g.toned = f.toned
      /\ g.by = f.by
  BY <1>5, FormatSet
<1> HIDE DEF g
<1>8. Taken(s, f)
  BY <1>4, RgbTakes, FormatTakes DEF Taken, AtFloat, InLinear
<1>7. InLinear(c, g) /\ g.toned = 0
  BY <1>1, <1>6 DEF AtFloat, InLinear, Placed, Good, ByZimg
<1>q. QED
  BY <1>4, <1>7, <1>8 DEF AtTonemap

LEMMA TonemapStep ==
  ASSUME NEW c, NEW s, NEW f, ConfigOk(c), AtTonemap(c, s, f)
  PROVE  Taken(s, f) /\ At709(c, Tail(s), Passed(s, f))
<1> DEFINE a == [op |-> "tonemap"]
           n == f.toned + 1
           g == [f EXCEPT !.toned = n]
<1>1. ASeq(From709(c)) /\ s = <<a>> \o From709(c)
  BY ToneParts DEF AtTonemap, ConfigOk
<1>2. IsWhole(f)
  BY DEF AtTonemap, InLinear, Placed, Good
<1>3. Filtered(f, a, NextOf(s)) = g
  BY TonemapApplies
<1>4. s # <<>> /\ Head(s) = a /\ Tail(s) = From709(c) /\ Passed(s, f) = g
  <2> HIDE DEF a, g
  <2>q. QED
    BY <1>1, <1>3, OneHead
<1>5. n = 1
  BY DEF AtTonemap, InLinear
<1>6. g = [f EXCEPT !.toned = n]
  OBVIOUS
<1>9. Taken(s, f)
  BY <1>4, TonemapTakes DEF Taken, AtTonemap, InLinear
<1> HIDE DEF n, g
<1>7. /\ IsWhole(g) /\ SizeOf(g) = SizeOf(f)
      /\ g.format = f.format /\ g.on = f.on /\ g.matrix = f.matrix
      /\ g.primaries = f.primaries /\ g.signal = f.signal /\ g.encoded = f.encoded
      /\ g.right = f.right /\ g.turned = f.turned /\ g.rate = f.rate /\ g.toned = n
      /\ g.by = f.by
  BY <1>2, <1>6 DEF IsWhole, SizeOf
<1>8. InLinear(c, g) /\ g.toned = 1
  BY <1>5, <1>7 DEF AtTonemap, InLinear, Placed, Good, ByZimg
<1>q. QED
  BY <1>4, <1>8, <1>9 DEF At709

-------------------------------------------------------------------------------
(* The end of the chain.                                                   *)
LEMMA RgbParts ==
  ASSUME NEW c, TurnsAre(c)
  PROVE  /\ ASeq(FromFormat(c)) /\ ASeq(FromPlanar(c)) /\ ASeq(FromZimg(c)) /\ ASeq(FromRgb(c))
         /\ ~ Accurate(c) => FromRgb(c) = FromFormat(c)
         /\ Accurate(c) /\ c.tonemaps => FromRgb(c) = FromZimg(c)
         /\ Accurate(c) /\ ~ c.tonemaps =>
              FromRgb(c) = UpsampleFor(c.source.format, c.source.w, c.source.h) \o FromZimg(c)
<1> DEFINE U == IF c.tonemaps THEN <<>> ELSE UpsampleFor(c.source.format, c.source.w, c.source.h)
           Z == <<ZimgRgb(c)>>
           W == When(c.format = Rgb("rgb24"), ToFormat(Rgb("gbrp")))
           UZ == U \o Z
           A == AccurateRgb(c)
           X == FromFormat(c)
           P == FromPlanar(c)
<1>1. ASeq(X) /\ ASeq(P) /\ ASeq(FromZimg(c)) /\ ASeq(FromRgb(c))
  BY TurnsAreASeq, PartsAreSeqs
<1>2. ASeq(U) /\ ASeq(Z) /\ ASeq(W)
  BY WhenIsASeq, OneIsASeq DEF UpsampleFor, When
<1>3. CASE ~ Accurate(c)
  <2>1. AccurateRgb(c) = <<>>
    BY <1>3 DEF AccurateRgb
  <2>2. FromRgb(c) = <<>> \o FromFormat(c)
    BY <2>1 DEF FromRgb
  <2>q. QED
    BY <1>1, <1>3, <2>2, NoneAhead
<1>4. CASE Accurate(c)
  <2>1. A = UZ \o W
    BY <1>4 DEF AccurateRgb, ZimgRgb, ToFormat
  <2>2. P = W \o X /\ FromRgb(c) = A \o X /\ FromZimg(c) = Z \o P
    BY DEF FromPlanar, FromRgb, FromZimg
  <2>3. ASeq(UZ)
    BY <1>2, ConcatIsASeq
  <2>4. UZ \o P = U \o (Z \o P)
    <3>1. Seqs(U, Z, P)
      BY <1>1, <1>2 DEF Seqs
    <3> HIDE DEF U, Z, W, X, A, P
    <3>q. QED
      BY <3>1, ConcatAssociates
  <2>5. FromRgb(c) = UZ \o P
    <3>1. Seqs(UZ, W, X)
      BY <1>1, <1>2, <2>3 DEF Seqs
    <3> HIDE DEF U, Z, UZ, W, X, A, P
    <3>2. (UZ \o W) \o X = UZ \o (W \o X)
      BY <3>1, ConcatAssociates
    <3>q. QED
      BY <2>1, <2>2, <3>2
  <2>6. FromRgb(c) = U \o FromZimg(c)
    BY <2>2, <2>4, <2>5
  <2>q. QED
    BY <1>1, <1>4, <2>6, NoneAhead DEF X
<1>q. QED
  BY <1>3, <1>4

LEMMA Step709 ==
  ASSUME NEW c, NEW s, NEW f, ConfigOk(c), At709(c, s, f)
  PROVE  Taken(s, f) /\ AtRgb(c, Tail(s), Passed(s, f))
<1> DEFINE filter == To709
           next == NextOf(s)
           to == IF next.op = "format" /\ next.to # Rgb("rgb24") THEN next.to ELSE Rgb("gbrpf32le")
           g == Zscaled(f, filter, next)
<1>0. c.tonemaps /\ IsWhole(f) /\ f.right = TRUE /\ f.on = "cpu" /\ ByZimg(f)
      /\ IsRgb(f.format)
  BY DEF At709, InLinear, Placed, Good
<1>1. /\ s # <<>> /\ Head(s) = filter /\ Tail(s) = FromRgb(c) /\ Passed(s, f) = g
      /\ FromRgb(c) # <<>> => next = FromRgb(c)[1]
  <2>1. ASeq(FromRgb(c)) /\ s = <<filter>> \o FromRgb(c)
    BY RgbParts DEF At709, From709, ConfigOk
  <2>2. filter.op = "zscale"
    BY DEF To709, Zscale
  <2> HIDE DEF filter, next
  <2>3. Filtered(f, filter, next) = g
    BY <2>2, ZscaleApplies
  <2> HIDE DEF g
  <2>q. QED
    BY <2>1, <2>3, OneHead DEF next
<1>2. /\ filter.to709 = TRUE /\ filter.size = None /\ filter.linear = FALSE
      /\ filter.op = "zscale"
  BY DEF To709, Zscale
<1>3. IsFormat(to) /\ (IsRgb(to) \/ (~ Accurate(c) /\ to = c.format))
  <2>1. CASE Accurate(c)
    <3>1. ASeq(FromPlanar(c)) /\ FromRgb(c) = <<ZimgRgb(c)>> \o FromPlanar(c)
      BY <1>0, <2>1, RgbParts DEF ConfigOk, FromZimg
    <3>2. FromRgb(c) # <<>> /\ Head(FromRgb(c)) = ZimgRgb(c)
      BY <3>1, FirstOfPart
    <3>3. next = ZimgRgb(c)
      BY <1>1, <3>2
    <3>4. next.op = "zscale"
      BY <3>3 DEF ZimgRgb, Zscale
    <3>q. QED
      BY <3>4, RgbIsFormat
  <2>2. CASE ~ Accurate(c)
    <3>1. FromRgb(c) = <<ToFormat(c.format)>>
      BY <2>2, RgbParts DEF ConfigOk, FromFormat
    <3>2. next = ToFormat(c.format)
      BY <1>1, <3>1
    <3>3. next.op = "format" /\ next.to = c.format
      BY <3>2 DEF ToFormat
    <3>q. QED
      BY <2>2, <3>3, RgbIsFormat DEF ConfigOk
  <2>q. QED
    BY <2>1, <2>2
<1> HIDE DEF filter, next
<1>4. /\ IsWhole(g) /\ g.format = to
      /\ g.w = SizeOf(f)[1] /\ g.h = SizeOf(f)[2]
      /\ g.on = f.on /\ g.turned = f.turned /\ g.rate = f.rate /\ g.toned = f.toned
      /\ g.signal = "bt709" /\ g.primaries = "bt709"
      /\ g.by = f.by /\ g.right = f.right
      /\ IF ~ IsRgb(to)
         THEN /\ g.encoded = IF "bt709" \in {None, "gbr"} THEN "bt601" ELSE "bt709"
              /\ g.matrix = IF "bt709" = "gbr" THEN None ELSE "bt709"
         ELSE g.encoded = f.encoded /\ g.matrix = "bt709"
  BY <1>0, <1>2, ZscaleKeeps DEF Given
<1> HIDE DEF g, to
<1>5. g.matrix = "bt709" /\ Readable(g)
  BY <1>4, VideoPathAssumption DEF Readable, Given
<1>6. ~ ZimgRefuses(f, filter)
  BY <1>0, <1>2 DEF ZimgRefuses, At709, InLinear, Subsampled, IsRgb
<1>7. Good(g)
  BY <1>0, <1>3, <1>4 DEF Good, ByZimg
<1>8. Toned(g)
  BY <1>0, <1>4 DEF At709, ConfigOk, Toned
<1>9. SizeOf(g) = planned
  BY <1>4, PlannedIsAPair DEF At709, InLinear, SizeOf
<1>10. Placed(c, g)
  BY <1>4, <1>7 DEF Placed, At709, InLinear
<1>11. Taken(s, f)
  BY <1>1, <1>2, <1>6, ZscaleTakes DEF Taken
<1>q. QED
  BY <1>0, <1>1, <1>3, <1>4, <1>5, <1>8, <1>9, <1>10, <1>11 DEF AtRgb

LEMMA RgbStep ==
  ASSUME NEW c, NEW s, NEW f, ConfigOk(c), AtRgb(c, s, f)
  PROVE  AtFormat(c, s, f) \/ AtZimg(c, s, f) \/ (Taken(s, f) /\ AtZimg(c, Tail(s), Passed(s, f)))
<1>0. /\ Placed(c, f) /\ Readable(f) /\ Toned(f) /\ IsWhole(f) /\ IsFormat(f.format)
      /\ IsFormat(c.source.format)
  BY DEF AtRgb, Placed, Good, ConfigOk
<1>1. CASE ~ Accurate(c)
  <2>1. s = FromFormat(c)
    BY <1>1, RgbParts DEF AtRgb, ConfigOk
  <2>2. SizeOf(f) = planned
    BY <1>1 DEF AtRgb, ScaledSize, ConfigOk
  <2>3. ~ c.tonemaps => f.matrix = Tagged(c) /\ (IsRgb(f.format) <=> IsRgb(c.source.format))
    BY DEF AtRgb, KeptFormat, IsRgb
  <2>4. c.tonemaps => f.matrix = "bt709"
    BY DEF AtRgb
  <2>q. QED
    BY <1>0, <1>1, <2>1, <2>2, <2>3, <2>4 DEF AtFormat, Converted
<1>2. CASE Accurate(c) /\ c.tonemaps
  <2>1. s = FromZimg(c)
    BY <1>2, RgbParts DEF AtRgb, ConfigOk
  <2>2. SizeOf(f) = planned /\ f.matrix = "bt709" /\ IsRgb(f.format)
    BY <1>2 DEF AtRgb
  <2>3. ZimgReady(f)
    BY <2>2 DEF ZimgReady, Subsampled, IsRgb
  <2>q. QED
    BY <1>0, <1>2, <2>1, <2>2, <2>3 DEF AtZimg
<1>3. CASE Accurate(c) /\ ~ c.tonemaps
  <2> DEFINE to == Yuv(Whole, c.source.format.full, c.source.format.deep)
             g == Made(f, to)
             w == c.source.w
             h == c.source.h
  <2>1. SizeOf(f) = TurnedSize(c) /\ SizeOf(f) = ScaledSize(c) /\ KeptFormat(c, f)
        /\ f.matrix = Tagged(c)
    BY <1>3 DEF AtRgb, ScaledSize
  <2>2. Upsamples(c, s, f, FromZimg(c), w, h)
    <3>1. s = UpsampleFor(c.source.format, w, h) \o FromZimg(c) /\ ASeq(FromZimg(c))
      BY <1>3, RgbParts DEF AtRgb, ConfigOk
    <3>2. SizeOf(f) = <<w, h>> \/ (SizeOf(f) = <<h, w>> /\ SwapsDimensions(c.rotate))
      BY <2>1 DEF TurnedSize, SourceSize, Swapped
    <3>q. QED
      BY <1>0, <2>1, <3>1, <3>2 DEF Upsamples
  <2> HIDE DEF w, h, to, g
  <2>3. \/ s = FromZimg(c) /\ ZimgReady(f)
        \/ Taken(s, f) /\ Tail(s) = FromZimg(c) /\ c.source.format.kind = "yuv"
           /\ Passed(s, f) = g
    <3>1. Convertible => ~ ScaleRefuses(f)
      BY <2>1, TaggedTakes
    <3>q. QED
      BY <2>2, <3>1, UpsampleStep DEF g, to, Taken
  <2>4. CASE s = FromZimg(c) /\ ZimgReady(f)
    <3>1. f.format.kind = c.source.format.kind
      BY <2>1 DEF KeptFormat
    <3>q. QED
      BY <1>0, <1>3, <2>1, <2>4, <3>1 DEF AtZimg
  <2>5. CASE Taken(s, f) /\ Tail(s) = FromZimg(c) /\ c.source.format.kind = "yuv"
             /\ Passed(s, f) = g
    <3>1. IsFormat(to) /\ ~ Subsampled(to) /\ ~ IsRgb(to) /\ to # Gray /\ to.kind = "yuv"
      BY <2>5, WholeIsFormat, WholeIsYuv DEF ConfigOk, to
    <3>2. /\ IsWhole(g) /\ SizeOf(g) = SizeOf(f)
          /\ g.format = to /\ g.on = f.on /\ g.matrix = f.matrix
          /\ g.primaries = f.primaries /\ g.signal = f.signal /\ g.encoded = f.encoded
          /\ g.right = f.right /\ g.turned = f.turned /\ g.rate = f.rate /\ g.toned = f.toned
          /\ g.by = f.by
      BY <1>0, FormatSet DEF g
    <3>3. ~ IsRgb(f.format)
      BY <2>1, <2>5 DEF KeptFormat, IsRgb
    <3>4. Placed(c, g) /\ Readable(g) /\ Toned(g) /\ ZimgReady(g)
      BY <1>0, <3>1, <3>2, <3>3 DEF Placed, Good, ByZimg, Readable, Toned, ZimgReady
    <3>q. QED
      BY <1>3, <2>1, <2>5, <3>1, <3>2, <3>4 DEF AtZimg
  <2>q. QED
    BY <2>3, <2>4, <2>5
<1>q. QED
  BY <1>1, <1>2, <1>3

LEMMA ZimgStep ==
  ASSUME NEW c, NEW s, NEW f, ConfigOk(c), AtZimg(c, s, f)
  PROVE  Taken(s, f) /\ AtPlanar(c, Tail(s), Passed(s, f))
<1> DEFINE filter == ZimgRgb(c)
           next == NextOf(s)
           to == IF next.op = "format" /\ next.to # Rgb("rgb24") THEN next.to ELSE Rgb("gbrpf32le")
           g == Zscaled(f, filter, next)
<1>0. /\ IsWhole(f) /\ f.right = TRUE /\ f.on = "cpu" /\ ByZimg(f)
      /\ IsFormat(f.format) /\ Accurate(c) /\ Readable(f) /\ Toned(f) /\ ZimgReady(f)
  BY DEF AtZimg, Placed, Good
<1>1. /\ s # <<>> /\ Head(s) = filter /\ Tail(s) = FromPlanar(c) /\ Passed(s, f) = g
      /\ FromPlanar(c) # <<>> => next = FromPlanar(c)[1]
  <2>1. ASeq(FromPlanar(c)) /\ s = <<filter>> \o FromPlanar(c)
    BY RgbParts DEF AtZimg, FromZimg, ConfigOk
  <2>2. filter.op = "zscale"
    BY DEF ZimgRgb, Zscale
  <2> HIDE DEF filter, next
  <2>3. Filtered(f, filter, next) = g
    BY <2>2, ZscaleApplies
  <2> HIDE DEF g
  <2>q. QED
    BY <2>1, <2>3, OneHead DEF next
<1>2. /\ filter.to709 = FALSE /\ filter.linear = FALSE /\ filter.matrixIn = DefaultMatrix(c)
      /\ filter.size = (IF c.tonemaps THEN None ELSE c.size) /\ filter.op = "zscale"
  BY DEF ZimgRgb, Zscale
<1>3. IsFormat(to) /\ (IsRgb(to) <=> IsRgb(c.format))
  <2>1. CASE c.format = Rgb("rgb24")
    <3>1. ASeq(FromFormat(c)) /\ FromPlanar(c) = <<ToFormat(Rgb("gbrp"))>> \o FromFormat(c)
      BY <2>1, RgbParts DEF ConfigOk, FromPlanar, When
    <3>2. FromPlanar(c) # <<>> /\ Head(FromPlanar(c)) = ToFormat(Rgb("gbrp"))
      BY <3>1, FirstOfPart
    <3>3. next = ToFormat(Rgb("gbrp"))
      BY <1>1, <3>2
    <3>4. next.op = "format" /\ next.to = Rgb("gbrp")
      BY <3>3 DEF ToFormat
    <3>5. Rgb("gbrp") # Rgb("rgb24")
      BY RgbIsFormat
    <3>q. QED
      BY <2>1, <3>4, <3>5, RgbIsFormat
  <2>2. CASE c.format # Rgb("rgb24")
    <3>1. FromPlanar(c) = <<ToFormat(c.format)>>
      BY <2>2, RgbParts, NoneAhead DEF ConfigOk, FromPlanar, FromFormat, When
    <3>2. next = ToFormat(c.format)
      BY <1>1, <3>1
    <3>3. next.op = "format" /\ next.to = c.format
      BY <3>2 DEF ToFormat
    <3>q. QED
      BY <2>2, <3>3 DEF ConfigOk
  <2>q. QED
    BY <2>1, <2>2
<1>4. ~ IsRgb(c.format) => IsRgb(f.format) /\ c.tonemaps
  BY <1>0 DEF ConfigOk, AtZimg
<1> HIDE DEF filter, next
<1>5. /\ IsWhole(g) /\ g.format = to
      /\ g.w = Given(filter.size, SizeOf(f))[1] /\ g.h = Given(filter.size, SizeOf(f))[2]
      /\ g.on = f.on /\ g.turned = f.turned /\ g.rate = f.rate /\ g.toned = f.toned
      /\ g.signal = f.signal /\ g.primaries = f.primaries
      /\ IF IsRgb(to) /\ ~ IsRgb(f.format)
         THEN g.by = "zscale"
              /\ g.right = (f.right /\ (f.format = Gray \/ ZimgMatrix(f, filter) = f.encoded))
         ELSE g.by = f.by /\ g.right = f.right
      /\ IF ~ IsRgb(to) /\ IsRgb(f.format)
         THEN /\ g.encoded = IF f.matrix \in {None, "gbr"} THEN "bt601" ELSE f.matrix
              /\ g.matrix = IF f.matrix = "gbr" THEN None ELSE f.matrix
         ELSE g.encoded = f.encoded /\ g.matrix = f.matrix
  BY <1>0, <1>2, ZscaleKeeps
<1> HIDE DEF g, to
<1>6. c.tonemaps => f.matrix = "bt709" /\ IsRgb(f.format)
  BY DEF AtZimg
<1>7. ~ IsRgb(f.format) =>
        /\ ZimgMatrix(f, filter) # None
        /\ f.format = Gray \/ ZimgMatrix(f, filter) = f.encoded
  <2> SUFFICES ASSUME ~ IsRgb(f.format)
               PROVE  /\ ZimgMatrix(f, filter) # None
                      /\ f.format = Gray \/ ZimgMatrix(f, filter) = f.encoded
    OBVIOUS
  <2>1. /\ ~ c.tonemaps /\ f.format.kind = c.source.format.kind /\ f.matrix = Tagged(c)
        /\ f.encoded = Given(f.matrix, "bt601")
    BY <1>0, <1>6 DEF AtZimg, Readable
  <2>2. "bt601" # None /\ "bt2020nc" # None
    BY VideoPathAssumption
  <2>3. CASE f.format.kind = "gray"
    <3>1. f.format = Gray
      BY <1>0, <2>3, FormatShape
    <3>2. DefaultMatrix(c) = "bt601"
      BY <2>1, <2>3 DEF DefaultMatrix
    <3>q. QED
      BY <1>2, <2>2, <3>1, <3>2 DEF ZimgMatrix
  <2>4. CASE f.format.kind # "gray" /\ c.matrix = None /\ ~ c.hdr
    <3>1. DefaultMatrix(c) = "bt601"
      BY <2>1, <2>4 DEF DefaultMatrix
    <3>2. f.encoded = "bt601"
      BY <2>1, <2>4 DEF Tagged, Given
    <3>q. QED
      BY <1>2, <2>2, <3>1, <3>2 DEF ZimgMatrix
  <2>5. CASE f.format.kind # "gray" /\ ~ (c.matrix = None /\ ~ c.hdr)
    <3>1. DefaultMatrix(c) = None
      BY <2>1, <2>5 DEF DefaultMatrix
    <3>2. f.matrix # None
      BY <2>1, <2>2, <2>5 DEF Tagged, Given
    <3>q. QED
      BY <1>2, <2>1, <2>5, <3>1, <3>2 DEF ZimgMatrix, Given
  <2>q. QED
    BY <2>3, <2>4, <2>5
<1>8. ~ ZimgRefuses(f, filter)
  BY <1>0, <1>2, <1>7 DEF ZimgRefuses, ZimgReady
<1>9. Good(g)
  BY <1>0, <1>3, <1>4, <1>5, <1>7 DEF Good, ByZimg
<1>10. Readable(g) /\ (c.tonemaps => g.matrix = "bt709")
  BY <1>0, <1>3, <1>4, <1>5, <1>6, VideoPathAssumption DEF Readable, Given
<1>11. SizeOf(g) = planned
  <2>1. Given(filter.size, SizeOf(f)) = planned
    BY <1>2 DEF AtZimg, ScaledSize, Given, ConfigOk
  <2>q. QED
    BY <1>5, <2>1, PlannedIsAPair DEF SizeOf
<1>12. Placed(c, g) /\ Toned(g)
  BY <1>0, <1>5, <1>9 DEF Placed, AtZimg, Toned
<1>13. Taken(s, f)
  BY <1>1, <1>2, <1>8, ZscaleTakes DEF Taken
<1>q. QED
  BY <1>0, <1>1, <1>3, <1>5, <1>10, <1>11, <1>12, <1>13 DEF AtPlanar, Converted

LEMMA PlanarStep ==
  ASSUME NEW c, NEW s, NEW f, ConfigOk(c), AtPlanar(c, s, f)
  PROVE  AtFormat(c, s, f) \/ (Taken(s, f) /\ AtFormat(c, Tail(s), Passed(s, f)))
<1> DEFINE a == ToFormat(Rgb("gbrp"))
           g == Made(f, Rgb("gbrp"))
<1>1. ASeq(FromFormat(c))
  BY RgbParts DEF ConfigOk
<1>2. CASE c.format = Rgb("rgb24")
  <2>1. s = <<a>> \o FromFormat(c)
    BY <1>2 DEF AtPlanar, FromPlanar, When
  <2>2. IsRgb(c.format) /\ IsRgb(f.format) /\ IsRgb(Rgb("gbrp")) /\ IsFormat(Rgb("gbrp"))
    BY <1>2, RgbIsFormat DEF AtPlanar
  <2>3. Filtered(f, a, NextOf(s)) = g
    BY <2>2, FormatApplies DEF Formatted, ToRgb, Made
  <2>4. s # <<>> /\ Head(s) = a /\ Tail(s) = FromFormat(c) /\ Passed(s, f) = g
    <3> HIDE DEF a, g
    <3>q. QED
      BY <1>1, <2>1, <2>3, OneHead
  <2>5. IsWhole(f)
    BY DEF AtPlanar, Converted, Placed, Good
  <2>6. /\ IsWhole(g) /\ SizeOf(g) = SizeOf(f)
        /\ g.format = Rgb("gbrp") /\ g.on = f.on /\ g.matrix = f.matrix
        /\ g.primaries = f.primaries /\ g.signal = f.signal /\ g.encoded = f.encoded
        /\ g.right = f.right /\ g.turned = f.turned /\ g.rate = f.rate /\ g.toned = f.toned
        /\ g.by = f.by
    BY <2>5, FormatSet
  <2> HIDE DEF g
  <2>7. Converted(c, g)
    BY <2>2, <2>6 DEF AtPlanar, Converted, Placed, Good, ByZimg, Readable, Toned
  <2>8. Taken(s, f)
    BY <2>2, <2>4, RgbTakes, FormatTakes DEF Taken
  <2>q. QED
    BY <2>2, <2>4, <2>6, <2>7, <2>8 DEF AtFormat, AtPlanar
<1>3. CASE c.format # Rgb("rgb24")
  <2>1. s = FromFormat(c)
    BY <1>1, <1>3, NoneAhead DEF AtPlanar, FromPlanar, When
  <2>q. QED
    BY <2>1 DEF AtFormat, AtPlanar
<1>q. QED
  BY <1>2, <1>3

LEMMA FormatKeeps ==
  ASSUME NEW f, IsWhole(f), NEW to
  PROVE  LET g == Formatted(f, to)
         IN  /\ IsWhole(g) /\ g.format = to /\ SizeOf(g) = SizeOf(f)
             /\ g.on = f.on /\ g.primaries = f.primaries /\ g.signal = f.signal
             /\ g.turned = f.turned /\ g.rate = f.rate /\ g.toned = f.toned
             /\ IF IsRgb(to) /\ ~ IsRgb(f.format)
                THEN g.right = (f.right /\ (f.format = Gray \/ Given(f.matrix, "bt601") = f.encoded))
                     /\ g.by = "swscale"
                ELSE g.by = f.by /\ g.right = f.right
             /\ IF ~ IsRgb(to) /\ IsRgb(f.format)
                THEN /\ g.encoded = IF f.matrix \in {None, "gbr"} THEN "bt601" ELSE f.matrix
                     /\ g.matrix = IF f.matrix = "gbr" THEN None ELSE f.matrix
                ELSE g.encoded = f.encoded /\ g.matrix = f.matrix
<1> DEFINE right == f.right /\ (f.format = Gray \/ Given(f.matrix, "bt601") = f.encoded)
           encoded == IF f.matrix \in {None, "gbr"} THEN "bt601" ELSE f.matrix
           tag == IF f.matrix = "gbr" THEN None ELSE f.matrix
           g == Formatted(f, to)
<1>1. g = IF IsRgb(to)
          THEN IF IsRgb(f.format) THEN [f EXCEPT !.format = to]
               ELSE [f EXCEPT !.format = to, !.by = "swscale", !.right = right]
          ELSE IF IsRgb(f.format) THEN [f EXCEPT !.format = to, !.encoded = encoded, !.matrix = tag]
               ELSE [f EXCEPT !.format = to]
  BY DEF Formatted, ToRgb, ToYuv
<1> HIDE DEF right, encoded, tag, g
<1>2. /\ IsWhole(g) /\ g.format = to
      /\ g.w = f.w /\ g.h = f.h /\ g.on = f.on /\ g.turned = f.turned
      /\ g.rate = f.rate /\ g.toned = f.toned
      /\ g.signal = f.signal /\ g.primaries = f.primaries
      /\ IF IsRgb(to) /\ ~ IsRgb(f.format) THEN g.by = "swscale" /\ g.right = right
         ELSE g.by = f.by /\ g.right = f.right
      /\ IF ~ IsRgb(to) /\ IsRgb(f.format) THEN g.encoded = encoded /\ g.matrix = tag
         ELSE g.encoded = f.encoded /\ g.matrix = f.matrix
  BY <1>1 DEF IsWhole
<1>q. QED
  BY <1>2 DEF g, right, encoded, tag, SizeOf

LEMMA FormatStep ==
  ASSUME NEW c, NEW s, NEW f, ConfigOk(c), AtFormat(c, s, f)
  PROVE  Taken(s, f) /\ AtEnd(c, Tail(s), Passed(s, f))
<1> DEFINE a == ToFormat(c.format)
           g == Formatted(f, c.format)
<1>0. /\ IsWhole(f) /\ f.right = TRUE /\ f.on = "cpu" /\ ByZimg(f)
      /\ IsFormat(f.format) /\ Readable(f) /\ Toned(f) /\ SizeOf(f) = planned
      /\ f.turned = WayUp /\ f.rate = RateOf(c) /\ (c.tonemaps => f.matrix = "bt709")
      /\ IsFormat(c.format)
  BY DEF AtFormat, Converted, Placed, Good, ConfigOk
<1>1. s # <<>> /\ Head(s) = a /\ Tail(s) = <<>> /\ Passed(s, f) = g
  <2>1. s = <<a>>
    BY DEF AtFormat, FromFormat
  <2>2. Filtered(f, a, NextOf(s)) = g
    BY FormatApplies
  <2> HIDE DEF a, g
  <2>3. s # <<>> /\ Tail(s) = <<>> /\ Head(s) = a
    BY <2>1
  <2>q. QED
    BY <2>2, <2>3 DEF Passed
<1>2. /\ IsWhole(g) /\ g.format = c.format /\ SizeOf(g) = SizeOf(f)
      /\ g.on = f.on /\ g.primaries = f.primaries /\ g.signal = f.signal
      /\ g.turned = f.turned /\ g.rate = f.rate /\ g.toned = f.toned
      /\ IF IsRgb(c.format) /\ ~ IsRgb(f.format)
         THEN g.right = (f.right /\ (f.format = Gray \/ Given(f.matrix, "bt601") = f.encoded))
              /\ g.by = "swscale"
         ELSE g.by = f.by /\ g.right = f.right
      /\ IF ~ IsRgb(c.format) /\ IsRgb(f.format)
         THEN /\ g.encoded = IF f.matrix \in {None, "gbr"} THEN "bt601" ELSE f.matrix
              /\ g.matrix = IF f.matrix = "gbr" THEN None ELSE f.matrix
         ELSE g.encoded = f.encoded /\ g.matrix = f.matrix
  BY <1>0, FormatKeeps
<1> HIDE DEF g
<1>3. g.right = TRUE
  BY <1>0, <1>2 DEF Readable
<1>4. ByZimg(g)
  <2>1. IsRgb(c.format) /\ ~ IsRgb(f.format) => ~ Accurate(config)
    BY DEF AtFormat, ConfigOk
  <2>q. QED
    BY <1>0, <1>2, <2>1 DEF ByZimg
<1>5. Good(g)
  BY <1>0, <1>2, <1>3, <1>4 DEF Good
<1>6. Readable(g)
  BY <1>0, <1>2, VideoPathAssumption DEF Readable, Given
<1>7. UsesMotionStage(config) /\ ~ behind => g.matrix = MatrixBetween
  <2> SUFFICES ASSUME UsesMotionStage(config), ~ behind
               PROVE  g.matrix = MatrixBetween
    OBVIOUS
  <2>1. ~ IsRgb(c.format) /\ (c.tonemaps <=> config.tonemaps) /\ (Accurate(c) => c.tonemaps)
        /\ c.source.format = stream.format /\ Tagged(c) = Tagged(config)
    BY DEF ConfigOk
  <2>2. CASE config.tonemaps
    BY <1>0, <1>2, <2>1, <2>2 DEF MatrixBetween
  <2>3. CASE ~ config.tonemaps
    <3>1. f.matrix = Tagged(config) /\ (IsRgb(f.format) <=> IsRgb(stream.format))
      BY <2>1, <2>3 DEF AtFormat
    <3>q. QED
      BY <1>2, <2>1, <2>3, <3>1 DEF MatrixBetween
  <2>q. QED
    BY <2>2, <2>3
<1>8. Toned(g)
  BY <1>0, <1>2 DEF Toned
<1>9. Convertible => ~ ScaleRefuses(f)
  <2>1. c.tonemaps => ~ ScaleRefuses(f)
    BY <1>0 DEF ScaleRefuses, ScaleMatrices
  <2>2. Convertible /\ ~ c.tonemaps /\ ~ Accurate(c) => ~ ScaleRefuses(f)
    BY TaggedTakes DEF AtFormat
  <2>3. ~ c.tonemaps /\ Accurate(c) => IsRgb(f.format)
    BY DEF AtFormat, ConfigOk
  <2>q. QED
    BY <2>1, <2>2, <2>3, RgbTakes
<1>10. Taken(s, f)
  BY <1>1, <1>9, FormatTakes DEF Taken
<1>q. QED
  BY <1>0, <1>1, <1>2, <1>5, <1>6, <1>7, <1>8, <1>10 DEF AtEnd, Placed

(* Whatever part of the chain a frame came to, the next filter takes it    *)
(* on, and its end is a frame as planned.                                  *)
LEMMA FormatOn ==
  ASSUME NEW c, NEW s, NEW f, ConfigOk(c), s # <<>>, AtFormat(c, s, f)
  PROVE  Taken(s, f) /\ Stage(c, Tail(s), Passed(s, f))
BY FormatStep DEF Stage
LEMMA PlanarOn ==
  ASSUME NEW c, NEW s, NEW f, ConfigOk(c), s # <<>>, AtPlanar(c, s, f)
  PROVE  Taken(s, f) /\ Stage(c, Tail(s), Passed(s, f))
BY PlanarStep, FormatOn DEF Stage
LEMMA ZimgOn ==
  ASSUME NEW c, NEW s, NEW f, ConfigOk(c), s # <<>>, AtZimg(c, s, f)
  PROVE  Taken(s, f) /\ Stage(c, Tail(s), Passed(s, f))
BY ZimgStep DEF Stage
LEMMA RgbOn ==
  ASSUME NEW c, NEW s, NEW f, ConfigOk(c), s # <<>>, AtRgb(c, s, f)
  PROVE  Taken(s, f) /\ Stage(c, Tail(s), Passed(s, f))
BY RgbStep, ZimgOn, FormatOn DEF Stage
LEMMA LinearOn ==
  ASSUME NEW c, NEW s, NEW f, ConfigOk(c), s # <<>>, AtLinear(c, s, f)
  PROVE  Taken(s, f) /\ Stage(c, Tail(s), Passed(s, f))
BY LinearStep DEF Stage
LEMMA ToneOn ==
  ASSUME NEW c, NEW s, NEW f, ConfigOk(c), s # <<>>, AtTone(c, s, f)
  PROVE  Taken(s, f) /\ Stage(c, Tail(s), Passed(s, f))
BY ToneStep, RgbOn, LinearOn DEF Stage
LEMMA ScaleOn ==
  ASSUME NEW c, NEW s, NEW f, ConfigOk(c), s # <<>>, AtScale(c, s, f)
  PROVE  Taken(s, f) /\ Stage(c, Tail(s), Passed(s, f))
BY ScaleStep, ToneOn DEF Stage
LEMMA TurnOn ==
  ASSUME NEW c, NEW s, NEW f, ConfigOk(c), s # <<>>, AtTurn(c, s, f)
  PROVE  Taken(s, f) /\ Stage(c, Tail(s), Passed(s, f))
BY TurnStep, ScaleOn DEF Stage
LEMMA FpsOn ==
  ASSUME NEW c, NEW s, NEW f, ConfigOk(c), s # <<>>, AtFps(c, s, f)
  PROVE  Taken(s, f) /\ Stage(c, Tail(s), Passed(s, f))
BY FpsStep, TurnOn DEF Stage
LEMMA HdrOn ==
  ASSUME NEW c, NEW s, NEW f, ConfigOk(c), s # <<>>, AtHdr(c, s, f)
  PROVE  Taken(s, f) /\ Stage(c, Tail(s), Passed(s, f))
BY HdrStep, FpsOn DEF Stage

LEMMA StageStep ==
  ASSUME NEW c, NEW s, NEW f, ConfigOk(c), s # <<>>, Stage(c, s, f)
  PROVE  Taken(s, f) /\ Stage(c, Tail(s), Passed(s, f))
<1>1. CASE AtFlip(c, s, f)
  BY <1>1, FlipStep DEF Stage
<1>2. CASE AtFloat(c, s, f)
  BY <1>2, FloatStep DEF Stage
<1>3. CASE AtTonemap(c, s, f)
  BY <1>3, TonemapStep DEF Stage
<1>4. CASE At709(c, s, f)
  BY <1>4, Step709 DEF Stage
<1>5. CASE AtEnd(c, s, f)
  BY <1>5 DEF AtEnd
<1>q. QED
  BY <1>1, <1>2, <1>3, <1>4, <1>5, FormatOn, PlanarOn, ZimgOn, RgbOn, LinearOn, ToneOn, ScaleOn,
     TurnOn, FpsOn, HdrOn DEF Stage

(* When no filter is left, the frame is at the end.                        *)
LEMMA EmptyIsEnd ==
  ASSUME NEW c, NEW f, ConfigOk(c), Stage(c, <<>>, f)
  PROVE  AtEnd(c, <<>>, f)
<1>1. ~ AtFormat(c, <<>>, f)
  BY FormatStep DEF Taken
<1>2. ~ AtPlanar(c, <<>>, f)
  BY <1>1, PlanarStep DEF Taken
<1>3. ~ AtZimg(c, <<>>, f)
  BY ZimgStep DEF Taken
<1>4. ~ AtRgb(c, <<>>, f)
  BY <1>1, <1>3, RgbStep DEF Taken
<1>5. ~ At709(c, <<>>, f) /\ ~ AtTonemap(c, <<>>, f) /\ ~ AtFloat(c, <<>>, f)
      /\ ~ AtLinear(c, <<>>, f)
  BY Step709, TonemapStep, FloatStep, LinearStep DEF Taken
<1>6. ~ AtTone(c, <<>>, f)
  BY <1>4, <1>5, ToneStep DEF Taken
<1>7. ~ AtScale(c, <<>>, f)
  BY <1>6, ScaleStep DEF Taken
<1>8. ~ AtFlip(c, <<>>, f)
  BY FlipStep DEF Taken
<1>9. ~ AtTurn(c, <<>>, f)
  BY <1>7, TurnStep DEF Taken
<1>10. ~ AtFps(c, <<>>, f)
  BY <1>9, FpsStep DEF Taken
<1>11. ~ AtHdr(c, <<>>, f)
  BY <1>10, HdrStep DEF Taken
<1>q. QED
  BY <1>1, <1>2, <1>3, <1>4, <1>5, <1>6, <1>7, <1>8, <1>9, <1>10, <1>11 DEF Stage

-------------------------------------------------------------------------------
(* The configurations a request and a stream make.                         *)
LEMMA PlannedIsNotNone == ASSUME CaseAssumption(request, stream) PROVE planned # None
<1> DEFINE size == Displayed(request, stream)
<1>1. size \in Nat \X Nat
  BY DEF Displayed, Swapped, CaseAssumption
<1>2. {request.width, request.height} \subseteq Nat \union {None}
  BY DEF CaseAssumption
<1> HIDE DEF size
<1>3. ASSUME NEW n \in Nat, NEW a \in Nat, NEW b \in Nat
      PROVE  (IF b > 0 THEN MaxOf((n * a + b \div 2) \div b, 1) ELSE a) \in Int
  <2>1. CASE b > 0
    <3>1. n * a \in Int
      OBVIOUS
    <3> DEFINE k == n * a
    <3>2. (k + b \div 2) \div b \in Int
      <4> HIDE DEF k
      <4>1. k \in Int /\ b \div 2 \in Int
        BY <3>1 DEF k
      <4>q. QED
        BY <2>1, <4>1
    <3>q. QED
      BY <2>1, <3>2 DEF MaxOf
  <2>2. CASE ~ (b > 0)
    BY <2>2
  <2>q. QED
    BY <2>1, <2>2
<1>4. ResolveOutputSize(size, request) \in Int \X Int
  BY <1>1, <1>2, <1>3 DEF ResolveOutputSize
<1>q. QED
  BY <1>4, VideoPathAssumption DEF planned, PlannedSize, size

LEMMA SizePlanned ==
  ASSUME CaseAssumption(request, stream), NEW c,
         c.size = GraphSize(request, stream), c.rotate = RequestedRotation(request, stream),
         ~ Resizes(request) => SourceSize(c) = <<stream.w, stream.h>>
  PROVE  Given(c.size, TurnedSize(c)) = planned
<1>1. CASE Resizes(request)
  <2>1. c.size = planned
    BY <1>1 DEF GraphSize, planned, PlannedSize
  <2>q. QED
    BY <2>1, PlannedIsNotNone DEF Given
<1>2. CASE ~ Resizes(request)
  <2>1. c.size = None
    BY <1>2 DEF GraphSize
  <2>2. planned = Displayed(request, stream)
    BY <1>2 DEF planned, PlannedSize, ResolveOutputSize, Resizes
  <2>3. TurnedSize(c) = Displayed(request, stream)
    BY <1>2 DEF TurnedSize, Displayed
  <2>q. QED
    BY <2>1, <2>2, <2>3 DEF Given
<1>q. QED
  BY <1>1, <1>2

(* autorotate's filters turn the picture the way it is displayed.          *)
LEMMA AutorotateTurns ==
  ASSUME NEW m \in DisplayMatrices
  PROVE  \/ AutorotateFilters(m) = <<>> /\ m = Upright
         \/ \E t \in DOMAIN Turn : AutorotateFilters(m) = <<Rotate(t)>> /\ m = Turn[t]
         \/ AutorotateFilters(m) = <<Rotate("hflip"), Rotate("vflip")>> /\ m = <<-1, 0, 0, -1>>
<1>0. /\ Turn["clock"] = <<0, 1, -1, 0>> /\ Turn["cclock"] = <<0, -1, 1, 0>>
      /\ Turn["cclock_flip"] = <<0, 1, 1, 0>> /\ Turn["clock_flip"] = <<0, -1, -1, 0>>
      /\ Turn["hflip"] = <<-1, 0, 0, 1>> /\ Turn["vflip"] = <<1, 0, 0, -1>>
  BY DEF Turn
<1>1. CASE m = Upright
  <2>1. m[1] = 1 /\ m[4] = 1
    BY <1>1 DEF Upright
  <2>q. QED
    BY <1>1, <2>1 DEF AutorotateFilters, When
<1>2. CASE m = <<-1, 0, 0, -1>>
  <2>1. m[1] = -1 /\ m[2] = 0 /\ m[4] = -1
    BY <1>2
  <2>2. AutorotateFilters(m) = <<Rotate("hflip")>> \o <<Rotate("vflip")>>
    <3>1. AutorotateFilters(m) = When(m[1] < 0, Rotate("hflip")) \o When(m[4] < 0, Rotate("vflip"))
      BY <2>1 DEF AutorotateFilters
    <3>2. When(m[1] < 0, Rotate("hflip")) = <<Rotate("hflip")>>
      BY <2>1 DEF When
    <3>3. When(m[4] < 0, Rotate("vflip")) = <<Rotate("vflip")>>
      BY <2>1 DEF When
    <3>q. QED
      BY <3>1, <3>2, <3>3
  <2>3. <<Rotate("hflip")>> \o <<Rotate("vflip")>> = <<Rotate("hflip"), Rotate("vflip")>>
    BY Joined
  <2>q. QED
    BY <1>2, <2>2, <2>3
<1>3. CASE m = Turn["hflip"]
  <2>1. m[1] = -1 /\ m[2] = 0 /\ m[4] = 1
    BY <1>0, <1>3
  <2>2. AutorotateFilters(m) = <<Rotate("hflip")>> \o <<>>
    BY <2>1 DEF AutorotateFilters, When
  <2>3. <<Rotate("hflip")>> \o <<>> = <<Rotate("hflip")>>
    BY OneIsASeq, ConcatEmptySeq DEF ASeq
  <2>q. QED
    BY <1>3, <2>2, <2>3, TurnNames
<1>4. CASE m = Turn["vflip"]
  <2>1. m[1] = 1 /\ m[2] = 0 /\ m[4] = -1
    BY <1>0, <1>4
  <2>2. AutorotateFilters(m) = <<Rotate("vflip")>>
    BY <2>1 DEF AutorotateFilters, When
  <2>q. QED
    BY <1>4, <2>2, TurnNames
<1>5. CASE m = Turn["clock"]
  <2>1. m[1] = 0 /\ m[2] = 1 /\ m[3] = -1
    BY <1>0, <1>5
  <2>2. AutorotateFilters(m) = <<Rotate("clock")>>
    BY <2>1 DEF AutorotateFilters
  <2>q. QED
    BY <1>5, <2>2, TurnNames
<1>6. CASE m = Turn["cclock_flip"]
  <2>1. m[1] = 0 /\ m[2] = 1 /\ m[3] = 1
    BY <1>0, <1>6
  <2>2. AutorotateFilters(m) = <<Rotate("cclock_flip")>>
    BY <2>1 DEF AutorotateFilters
  <2>q. QED
    BY <1>6, <2>2, TurnNames
<1>7. CASE m = Turn["cclock"]
  <2>1. m[1] = 0 /\ m[2] = -1 /\ m[3] = 1
    BY <1>0, <1>7
  <2>2. AutorotateFilters(m) = <<Rotate("cclock")>>
    BY <2>1 DEF AutorotateFilters
  <2>q. QED
    BY <1>7, <2>2, TurnNames
<1>8. CASE m = Turn["clock_flip"]
  <2>1. m[1] = 0 /\ m[2] = -1 /\ m[3] = -1
    BY <1>0, <1>8
  <2>2. AutorotateFilters(m) = <<Rotate("clock_flip")>>
    BY <2>1 DEF AutorotateFilters
  <2>q. QED
    BY <1>8, <2>2, TurnNames
<1>q. QED
  BY <1>1, <1>2, <1>3, <1>4, <1>5, <1>6, <1>7, <1>8, TurnNames DEF DisplayMatrices

LEMMA ConfigFields ==
  /\ config.rate = request.rate /\ config.size = GraphSize(request, stream)
  /\ config.format = Rgb(IF request.dtype = "uint8" THEN "rgb24" ELSE "gbrpf32le")
  /\ config.conversion = Conversion(request, zscale) /\ config.hdr = IsHdr(stream)
  /\ config.tonemaps = (IsHdr(stream) /\ request.hdrMode = "tonemap")
  /\ config.matrix = stream.matrix /\ config.primaries = stream.primaries
  /\ config.rotate = RequestedRotation(request, stream)
  /\ SourceSize(config) = <<DecodedSize(request, stream)[1], DecodedSize(request, stream)[2]>>
  /\ config.source.format = stream.format
BY DEF config, Config, SourceSize

LEMMA ConfigIsARecord ==
  config = [rate |-> config.rate, fps |-> config.fps, size |-> config.size,
            format |-> config.format, conversion |-> config.conversion, hdr |-> config.hdr,
            tonemaps |-> config.tonemaps, matrix |-> config.matrix,
            primaries |-> config.primaries, rotate |-> config.rotate, source |-> config.source]
BY DEF config, Config

LEMMA WorkingFormatIs ==
  ASSUME CaseAssumption(request, stream)
  PROVE  /\ IsFormat(MotionWorkingFormat(config, stream))
         /\ ~ IsRgb(MotionWorkingFormat(config, stream))
<1>0. Whole \in Nat \X Nat /\ <<1, 1>> \in Nat \X Nat
  BY DEF Whole
<1>1. IsFormat(stream.format)
  BY DEF CaseAssumption
<1> DEFINE OneRange(full, deep) == full \in BOOLEAN /\ deep \in {FALSE}
<1>2. \E sub \in Nat \X Nat : \E full, deep :
        OneRange(full, deep) /\ WorkingFormat(stream.format) = Yuv(sub, full, deep)
  <2>1. CASE IsRgb(stream.format) \/ stream.format.kind = "gray"
    BY <1>0, <2>1 DEF WorkingFormat
  <2>2. CASE ~ (IsRgb(stream.format) \/ stream.format.kind = "gray")
    <3>1. stream.format.sub \in Nat \X Nat /\ stream.format.full \in BOOLEAN
      BY <1>1, <2>2 DEF IsFormat, IsRgb, Gray, Rgb
    <3>2. WorkingFormat(stream.format) \in
            {Yuv(stream.format.sub, stream.format.full, FALSE), Yuv(<<1, 1>>, FALSE, FALSE)}
      BY <2>2 DEF WorkingFormat
    <3>q. QED
      BY <1>0, <3>1, <3>2
  <2>q. QED
    BY <2>1, <2>2
<1>3. PICK sub \in Nat \X Nat : \E full, deep :
        OneRange(full, deep) /\ WorkingFormat(stream.format) = Yuv(sub, full, deep)
  BY <1>2
<1>4. PICK full, deep : OneRange(full, deep) /\ WorkingFormat(stream.format) = Yuv(sub, full, deep)
  BY <1>3
<1> DEFINE working == WorkingFormat(stream.format)
           resized == config.size # None /\ config.size # <<config.source.w, config.source.h>>
           kept == IF resized \/ config.tonemaps THEN [working EXCEPT !.sub = Whole] ELSE working
<1>5. kept = Yuv(kept.sub, full, deep) /\ kept.sub \in Nat \X Nat
  <2>1. [Yuv(sub, full, deep) EXCEPT !.sub = Whole] = Yuv(Whole, full, deep)
    BY DEF Yuv
  <2>2. \A x : Yuv(x, full, deep).sub = x
    BY DEF Yuv
  <2>3. kept = Yuv(Whole, full, deep) \/ kept = Yuv(sub, full, deep)
    BY <1>4, <2>1
  <2> HIDE DEF kept
  <2>q. QED
    BY <1>0, <2>2, <2>3
<1>6. MotionWorkingFormat(config, stream) =
        IF config.fps = "blend" /\ stream.format.kind = "yuv" /\ stream.format.deep
        THEN Yuv(kept.sub, FALSE, TRUE) ELSE kept
  BY DEF MotionWorkingFormat
<1> HIDE DEF kept
<1>7. \A x \in Nat \X Nat :
        /\ IsFormat(Yuv(x, FALSE, TRUE)) /\ ~ IsRgb(Yuv(x, FALSE, TRUE))
        /\ IsFormat(Yuv(x, full, deep)) /\ ~ IsRgb(Yuv(x, full, deep))
  BY <1>4, YuvIsFormat
<1>q. QED
  BY <1>5, <1>6, <1>7

(* If the scale filter knows the stream's matrix, it knows those that the  *)
(* frames of both graphs are tagged with.                                  *)
LEMMA MatricesKnown ==
  Convertible => Tagged(config) \in ScaleMatrices /\ MatrixBetween \in ScaleMatrices
<1>1. Convertible => stream.matrix \in ScaleMatrices
  BY DEF Convertible
<1>2. {None, "bt709", "bt2020nc"} \subseteq ScaleMatrices
  BY DEF ScaleMatrices
<1>3. Tagged(config) \in {stream.matrix, "bt2020nc"}
  BY ConfigFields DEF Tagged, Given
<1>4. MatrixBetween \in {"bt709", None, Tagged(config)}
  BY DEF MatrixBetween
<1>q. QED
  BY <1>1, <1>2, <1>3, <1>4

LEMMA ConfigTurns ==
  ASSUME CaseAssumption(request, stream), ~ behind, NEW c,
         c.rotate = RequestedRotation(request, stream)
  PROVE  TurnsAre(c)
<1>1. FirstWayUp = Upright
  BY DEF FirstWayUp
<1>2. CASE request.autorotate
  <2>1. c.rotate = AutorotateFilters(stream.display) /\ WayUp = stream.display
    BY <1>2 DEF RequestedRotation, WayUp
  <2>2. stream.display \in DisplayMatrices
    BY DEF CaseAssumption
  <2>q. QED
    BY <1>1, <2>1, <2>2, AutorotateTurns DEF TurnsAre
<1>3. CASE ~ request.autorotate
  BY <1>1, <1>3 DEF RequestedRotation, WayUp, TurnsAre
<1>q. QED
  BY <1>2, <1>3

LEMMA SourceUnresized ==
  ~ Resizes(request) => SourceSize(config) = <<stream.w, stream.h>>
<1>1. ~ Resizes(request) => HwResize(request, stream) = None
  BY DEF HwResize
<1>2. ~ Resizes(request) => DecodedSize(request, stream) = <<stream.w, stream.h>>
  BY <1>1 DEF DecodedSize, Given
<1>q. QED
  BY <1>2, ConfigFields

(* The graph of a stream without a motion stage, and the two of one with.  *)
LEMMA OneGraph ==
  ASSUME Asks, ~ behind, ~ UsesMotionStage(config)
  PROVE  ConfigOk(config)
<1>0. CaseAssumption(request, stream)
  BY DEF Asks
<1>1. Given(config.size, TurnedSize(config)) = planned
  BY <1>0, SizePlanned, SourceUnresized, ConfigFields
<1>2. TurnsAre(config)
  BY <1>0, ConfigTurns, ConfigFields
<1>3. IsFormat(config.source.format) /\ IsFormat(config.format) /\ IsRgb(config.format)
  BY <1>0, ConfigFields, RgbIsFormat DEF CaseAssumption
<1>4. config.tonemaps => config.hdr /\ config.source.format # Gray
  BY <1>0, ConfigFields DEF CaseAssumption
<1>5. config.tonemaps = (config.tonemaps /\ ~ behind)
  BY ConfigFields
<1>q. QED
  BY <1>1, <1>2, <1>3, <1>4, <1>5, ConfigFields, MatricesKnown DEF ConfigOk

LEMMA GraphInFront ==
  ASSUME Asks, ~ behind, UsesMotionStage(config)
  PROVE  /\ ConfigOk(MotionInput(config, stream))
         /\ MotionInput(config, stream).source = config.source
         /\ MotionInput(config, stream).matrix = config.matrix
         /\ MotionInput(config, stream).primaries = config.primaries
         /\ MotionInput(config, stream).hdr = config.hdr
         /\ MotionInput(config, stream).rotate = config.rotate
         /\ MotionInput(config, stream).format = MotionWorkingFormat(config, stream)
<1> DEFINE c == MotionInput(config, stream)
           format == MotionWorkingFormat(config, stream)
           conversion == IF config.tonemaps THEN config.conversion ELSE "fast"
<1>0. CaseAssumption(request, stream)
  BY DEF Asks
<1>1. c = [config EXCEPT !.rate = None, !.format = format, !.conversion = conversion]
  BY ConfigIsARecord DEF MotionInput
<1> HIDE DEF c, format, conversion
<1>2. /\ c.rate = None /\ c.size = config.size /\ c.format = format /\ c.conversion = conversion
      /\ c.hdr = config.hdr /\ c.tonemaps = config.tonemaps /\ c.matrix = config.matrix
      /\ c.primaries = config.primaries /\ c.rotate = config.rotate /\ c.source = config.source
  BY <1>1, ConfigIsARecord
<1>3. Given(c.size, TurnedSize(c)) = planned
  <2>1. SourceSize(c) = SourceSize(config)
    BY <1>2 DEF SourceSize
  <2>q. QED
    BY <1>0, <1>2, <2>1, SizePlanned, SourceUnresized, ConfigFields
<1>4. TurnsAre(c)
  BY <1>0, <1>2, ConfigTurns, ConfigFields
<1>5. IsFormat(c.source.format) /\ c.source.format = stream.format
  BY <1>0, <1>2, ConfigFields DEF CaseAssumption
<1>6. IsFormat(c.format) /\ ~ IsRgb(c.format)
  BY <1>0, <1>2, WorkingFormatIs DEF format
<1>7. c.tonemaps => c.hdr /\ c.source.format # Gray
  BY <1>0, <1>2, ConfigFields DEF CaseAssumption
<1>8. c.tonemaps = (config.tonemaps /\ ~ behind)
  BY <1>2, ConfigFields
<1>9. Accurate(c) => c.tonemaps
  BY <1>2 DEF Accurate, conversion
<1>10. Tagged(c) = Tagged(config)
  BY <1>2 DEF Tagged
<1>11. ConfigOk(c)
  BY <1>3, <1>4, <1>5, <1>6, <1>7, <1>8, <1>9, <1>10, MatricesKnown DEF ConfigOk
<1>q. QED
  BY <1>2, <1>11 DEF c, format


LEMMA GraphBehind ==
  ASSUME Asks, behind, UsesMotionStage(config)
  PROVE  /\ ConfigOk(MotionOutput(config, Between))
         /\ MotionOutput(config, Between).rate = None
         /\ MotionOutput(config, Between).rotate = <<>>
         /\ MotionOutput(config, Between).matrix = MatrixBetween
         /\ ~ MotionOutput(config, Between).hdr
         /\ SourceSize(MotionOutput(config, Between)) = planned
         /\ MotionOutput(config, Between).source.format = MotionWorkingFormat(config, stream)
         /\ MotionOutput(config, Between).format = config.format
<1> DEFINE c == MotionOutput(config, Between)
           format == MotionWorkingFormat(config, stream)
           source == [w |-> planned[1], h |-> planned[2], format |-> format]
           bare == [config EXCEPT !.rate = None, !.size = None, !.rotate = <<>>,
                                  !.matrix = MatrixBetween, !.source = source]
<1>0. CaseAssumption(request, stream)
  BY DEF Asks
<1>1. MotionOutputTagged(config, Between) = bare
  <2>1. /\ Between.w = planned[1] /\ Between.h = planned[2] /\ Between.format = format
        /\ Between.matrix = MatrixBetween
    BY DEF Between
  <2> HIDE DEF format
  <2>q. QED
    BY <2>1 DEF MotionOutputTagged
<1>2. c = [bare EXCEPT !.hdr = FALSE, !.tonemaps = FALSE, !.primaries = None]
  BY <1>1 DEF MotionOutput
<1> HIDE DEF c, format, source
<1>3. /\ c.rate = None /\ c.size = None /\ c.rotate = <<>> /\ c.matrix = MatrixBetween
      /\ c.source = source /\ c.hdr = FALSE /\ c.tonemaps = FALSE /\ c.primaries = None
      /\ c.conversion = config.conversion /\ c.format = config.format
  BY <1>2, ConfigIsARecord
<1>4. source.w = planned[1] /\ source.h = planned[2] /\ source.format = format
  BY DEF source
<1>5. SourceSize(c) = planned
  BY <1>0, <1>3, <1>4, PlannedIsAPair DEF SourceSize
<1>6. Given(c.size, TurnedSize(c)) = planned
  BY <1>3, <1>5 DEF TurnedSize, SwapsDimensions, Given
<1>7. TurnsAre(c)
  BY <1>3 DEF TurnsAre, FirstWayUp
<1>8. IsFormat(c.source.format)
  BY <1>0, <1>3, <1>4, WorkingFormatIs DEF format
<1>9. IsFormat(c.format) /\ IsRgb(c.format)
  BY <1>3, ConfigFields, RgbIsFormat
<1>10. Accurate(c) <=> Accurate(config)
  BY <1>3 DEF Accurate
<1>11. Convertible => Tagged(c) \in ScaleMatrices
  BY <1>3, MatricesKnown DEF Tagged
<1>12. ConfigOk(c)
  BY <1>3, <1>6, <1>7, <1>8, <1>9, <1>10, <1>11 DEF ConfigOk
<1>q. QED
  BY <1>3, <1>4, <1>5, <1>12 DEF c, format

(* The graph at work, whichever it is.                                     *)
LEMMA WorkOk ==
  ASSUME Asks, behind => UsesMotionStage(config)
  PROVE  ConfigOk(Work)
BY OneGraph, GraphInFront, GraphBehind DEF Work

(* A frame from the decoder is at the beginning of the first graph.        *)
LEMMA FirstFields ==
  ASSUME Asks, ~ behind
  PROVE  /\ ConfigOk(Work) /\ Work.source = config.source /\ Work.matrix = stream.matrix
         /\ Work.primaries = stream.primaries /\ Work.hdr = IsHdr(stream)
BY OneGraph, GraphInFront, ConfigFields DEF Work

LEMMA OnlyItsPlace ==
  ASSUME NEW d, IsWhole(d), NEW x
  PROVE  LET g == [d EXCEPT !.on = x]
         IN  /\ IsWhole(g) /\ g.on = x
             /\ g.w = d.w /\ g.h = d.h /\ g.format = d.format /\ g.matrix = d.matrix
             /\ g.primaries = d.primaries /\ g.signal = d.signal /\ g.encoded = d.encoded
             /\ g.right = d.right /\ g.turned = d.turned /\ g.rate = d.rate
             /\ g.toned = d.toned
<1> DEFINE g == [d EXCEPT !.on = x]
<1>1. g = [d EXCEPT !.on = x]
  OBVIOUS
<1> HIDE DEF g
<1>2. IsWhole(g)
  BY <1>1 DEF IsWhole
<1>3. /\ g.on = x
      /\ g.w = d.w /\ g.h = d.h /\ g.format = d.format /\ g.matrix = d.matrix
      /\ g.primaries = d.primaries /\ g.signal = d.signal /\ g.encoded = d.encoded
      /\ g.right = d.right /\ g.turned = d.turned /\ g.rate = d.rate
      /\ g.toned = d.toned
  BY <1>1 DEF IsWhole
<1>q. QED
  BY <1>2, <1>3 DEF g

LEMMA SubmittedStage ==
  ASSUME Asks, ~ behind
  PROVE  Stage(Work, Chain(Work), Downloaded)
<1> DEFINE c == Work
           f == Downloaded
           size == DecodedSize(request, stream)
           w == size[1]
           h == size[2]
           m == TrueMatrix(stream)
<1>1. /\ IsWhole(f) /\ f.w = w /\ f.h = h /\ f.format = stream.format /\ f.on = "cpu"
      /\ f.matrix = stream.matrix /\ f.primaries = stream.primaries /\ f.signal = stream.trc
      /\ f.encoded = m /\ f.right = TRUE /\ f.turned = Upright /\ f.rate = None /\ f.toned = 0
  <2> DEFINE d == Decoded(size, stream)
  <2>1. /\ IsWhole(d) /\ d.w = w /\ d.h = h /\ d.format = stream.format
        /\ d.matrix = stream.matrix /\ d.primaries = stream.primaries /\ d.signal = stream.trc
        /\ d.encoded = m /\ d.right = TRUE /\ d.turned = Upright /\ d.rate = None /\ d.toned = 0
    BY DEF Decoded, IsWhole
  <2> DEFINE x == IF HwDecoded(request) THEN "gpu" ELSE "cpu"
  <2>2. Received = [d EXCEPT !.on = x]
    BY DEF Received
  <2> DEFINE e == Received
  <2>3. f = [e EXCEPT !.on = "cpu"]
    BY DEF Downloaded
  <2> HIDE DEF d, x, e, f
  <2>4. /\ IsWhole(e) /\ e.w = w /\ e.h = h /\ e.format = stream.format
        /\ e.matrix = stream.matrix /\ e.primaries = stream.primaries /\ e.signal = stream.trc
        /\ e.encoded = m /\ e.right = TRUE /\ e.turned = Upright /\ e.rate = None /\ e.toned = 0
    BY <2>1, <2>2, OnlyItsPlace DEF e
  <2>q. QED
    BY <2>3, <2>4, OnlyItsPlace
<1>2. m = Given(Tagged(c), "bt601")
  BY FirstFields, VideoPathAssumption DEF TrueMatrix, Given, Tagged
<1>3. SourceSize(c) = <<w, h>> /\ c.source.format = stream.format
  BY FirstFields, ConfigFields DEF SourceSize
<1>4. Chain(c) = FromHdr(c)
  BY FirstFields, TurnsAreASeq, ChainIsItsParts DEF ConfigOk
<1>5. ConfigOk(c) /\ c.matrix = stream.matrix /\ c.primaries = stream.primaries
  BY FirstFields
<1> HIDE DEF c, f, w, h, m
<1>8. Good(f)
  BY <1>3, <1>5, <1>1 DEF Good, ByZimg, ConfigOk
<1>9. Untoned(f)
  BY <1>1 DEF Untoned
<1>10. AtHdr(c, Chain(c), f)
  BY <1>2, <1>3, <1>4, <1>5, <1>1, <1>8, <1>9 DEF AtHdr, SizeOf, FirstWayUp, FirstRate
<1>q. QED
  BY <1>10 DEF Stage, c, f

(* The graph behind the motion stage is built for what leaves the first,   *)
(* and takes it.                                                           *)
LEMMA OutputOfLeft ==
  ASSUME NEW f, SizeOf(f) = planned, f.format = MotionWorkingFormat(config, stream),
         f.matrix = MatrixBetween
  PROVE  MotionOutput(config, f) = MotionOutput(config, Between)
<1>1. planned[1] = f.w /\ planned[2] = f.h
  BY DEF SizeOf
<1>2. /\ Between.w = f.w /\ Between.h = f.h /\ Between.format = f.format
      /\ Between.matrix = f.matrix
  BY <1>1 DEF Between
<1>3. MotionOutputTagged(config, f) = MotionOutputTagged(config, Between)
  BY <1>2 DEF MotionOutputTagged
<1>q. QED
  BY <1>3 DEF MotionOutput

LEMMA LeftStage ==
  ASSUME Asks, behind, UsesMotionStage(config), NEW f, LeavesFirst(f)
  PROVE  Stage(Work, Chain(Work), f)
<1> DEFINE c == Work
<1>1. c = MotionOutput(config, Between)
  BY DEF Work
<1>2. /\ ConfigOk(c) /\ c.matrix = MatrixBetween /\ ~ c.hdr /\ SourceSize(c) = planned
      /\ c.source.format = MotionWorkingFormat(config, stream)
  BY <1>1, GraphBehind
<1>3. Chain(c) = FromHdr(c)
  BY <1>2, TurnsAreASeq, ChainIsItsParts DEF ConfigOk
<1> HIDE DEF c
<1>4. Untoned(f)
  BY DEF LeavesFirst, Toned, Untoned
<1>5. Tagged(c) = f.matrix
  BY <1>2 DEF Tagged, LeavesFirst
<1>6. AtHdr(c, Chain(c), f)
  BY <1>2, <1>3, <1>4, <1>5 DEF AtHdr, LeavesFirst, Readable, FirstWayUp, FirstRate
<1>q. QED
  BY <1>6 DEF Stage, c

(* What is true of a frame stays true while neither the inputs nor the     *)
(* side of the motion stage change.                                        *)
LEMMA InputsStay ==
  ASSUME UNCHANGED inputs
  PROVE  /\ config' = config /\ planned' = planned /\ WayUp' = WayUp
         /\ MatrixBetween' = MatrixBetween /\ Between' = Between /\ Way' = Way
         /\ stream' = stream /\ request' = request /\ zscale' = zscale
<1>1. stream' = stream /\ request' = request /\ zscale' = zscale
  BY DEF inputs
<1>2. config' = config /\ planned' = planned
  BY <1>1 DEF config, planned
<1>3. WayUp' = WayUp
  BY <1>1 DEF WayUp
<1>4. MatrixBetween' = MatrixBetween
  BY <1>1, <1>2 DEF MatrixBetween, Tagged
<1>5. Between' = Between
  BY <1>1, <1>2, <1>4 DEF Between
<1>6. Way' = Way
  BY <1>1, <1>2 DEF Way, IsEligible
<1>q. QED
  BY <1>1, <1>2, <1>3, <1>4, <1>5, <1>6

LEMMA GoodStays ==
  ASSUME UNCHANGED inputs
  PROVE  \A f : (Good(f)' <=> Good(f)) /\ (Toned(f)' <=> Toned(f)) /\ (LeavesFirst(f)' <=> LeavesFirst(f))
<1>1. \A f : Good(f)' <=> Good(f)
  BY InputsStay DEF Good, ByZimg
<1>2. \A f : Toned(f)' <=> Toned(f)
  BY InputsStay DEF Toned
<1>q. QED
  BY <1>1, <1>2, InputsStay DEF LeavesFirst

LEMMA StageStays ==
  ASSUME UNCHANGED inputs, UNCHANGED behind, NEW c, NEW s, NEW f, Stage(c, s, f)
  PROVE  Stage(c, s, f)'
<1>1. FirstWayUp' = FirstWayUp /\ FirstRate' = FirstRate /\ RateOf(c)' = RateOf(c)
  BY InputsStay DEF FirstWayUp, FirstRate, RateOf
<1>2. /\ Good(f)' <=> Good(f)
      /\ Toned(f)' <=> Toned(f)
      /\ Untoned(f)' <=> Untoned(f)
  BY InputsStay, GoodStays DEF Untoned
<1>3. Coloured(c, f)' <=> Coloured(c, f)
  BY <1>2 DEF Coloured
<1>4. Placed(c, f)' <=> Placed(c, f)
  BY <1>1, <1>2, InputsStay DEF Placed
<1>5. /\ AtHdr(c, s, f)' <=> AtHdr(c, s, f)
      /\ AtFps(c, s, f)' <=> AtFps(c, s, f)
      /\ AtTurn(c, s, f)' <=> AtTurn(c, s, f)
      /\ AtFlip(c, s, f)' <=> AtFlip(c, s, f)
  BY <1>1, <1>2, <1>3, InputsStay DEF AtHdr, AtFps, AtTurn, AtFlip
<1>6. /\ AtScale(c, s, f)' <=> AtScale(c, s, f)
      /\ AtTone(c, s, f)' <=> AtTone(c, s, f)
      /\ AtLinear(c, s, f)' <=> AtLinear(c, s, f)
  BY <1>3, <1>4 DEF AtScale, AtTone, AtLinear
<1>7. InLinear(c, f)' <=> InLinear(c, f)
  BY <1>4, InputsStay DEF InLinear
<1>8. /\ AtFloat(c, s, f)' <=> AtFloat(c, s, f)
      /\ AtTonemap(c, s, f)' <=> AtTonemap(c, s, f)
      /\ At709(c, s, f)' <=> At709(c, s, f)
  BY <1>7 DEF AtFloat, AtTonemap, At709
<1>9. Converted(c, f)' <=> Converted(c, f)
  BY <1>2, <1>4, InputsStay DEF Converted
<1>10. /\ AtRgb(c, s, f)' <=> AtRgb(c, s, f)
       /\ AtZimg(c, s, f)' <=> AtZimg(c, s, f)
       /\ AtPlanar(c, s, f)' <=> AtPlanar(c, s, f)
       /\ AtFormat(c, s, f)' <=> AtFormat(c, s, f)
  BY <1>2, <1>4, <1>9, InputsStay DEF AtRgb, AtZimg, AtPlanar, AtFormat
<1>11. AtEnd(c, s, f)' <=> AtEnd(c, s, f)
  BY <1>2, <1>4, InputsStay DEF AtEnd
<1>q. QED
  BY <1>5, <1>6, <1>8, <1>10, <1>11 DEF Stage

LEMMA WorkStays ==
  ASSUME UNCHANGED inputs, UNCHANGED behind
  PROVE  Work' = Work
BY InputsStay DEF Work

LEMMA GraphAsks == ASSUME GraphInv, way = "graph" PROVE Asks
<1>1. Way = "graph" /\ CaseAssumption(request, stream)
  BY DEF GraphInv
<1>q. QED
  BY <1>1 DEF Way, Asks

LEMMA GraphStarts == ASSUME PathInit PROVE GraphInv
<1>1. PICK case \in Cases : request = case.request /\ stream = case.stream
  BY DEF PathInit
<1>2. CaseAssumption(request, stream)
  BY <1>1, VideoPathAssumption
<1>q. QED
  BY <1>2 DEF PathInit, GraphInv

LEMMA StagedStays ==
  ASSUME UNCHANGED inputs, UNCHANGED <<graphs, frame, behind>>, Staged
  PROVE  Staged'
<1>1. PICK c \in {Work}, s \in {graphs}, f \in {frame} : Stage(c, s, f)
  BY DEF Staged
<1>2. Stage(c, s, f)'
  BY <1>1, StageStays
<1>3. Work' = c /\ graphs' = s /\ frame' = f
  BY <1>1, WorkStays
<1>q. QED
  BY <1>2, <1>3 DEF Staged

LEMMA GraphUnmoved ==
  ASSUME GraphInv, UNCHANGED inputs, UNCHANGED <<way, graphs, frame, behind, phase>>
  PROVE  GraphInv'
<1>1. Work' = Work
  BY WorkStays
<1>2. Staged => Staged'
  BY StagedStays
<1>q. QED
  BY <1>1, <1>2, InputsStay DEF GraphInv

LEMMA GraphElsewhere ==
  ASSUME GraphInv, UNCHANGED inputs, UNCHANGED <<way, graphs, frame, behind>>,
         way \in {"direct", "cuda"}, phase' = "decoding" => phase = "decoding"
  PROVE  GraphInv'
BY InputsStay DEF GraphInv

LEMMA GraphChosen == ASSUME GraphInv, InitFilters PROVE GraphInv'
<1>1. /\ UNCHANGED inputs /\ UNCHANGED <<frame, behind, phase>>
      /\ way = "undecided" /\ way' \in Converters
  BY DEF InitFilters
<1>2. phase = "decoding" /\ frame = None /\ ~ behind /\ CaseAssumption(request, stream)
  BY <1>1 DEF GraphInv
<1>3. way' \in {"graph", "direct", "cuda"} => way' = Way
  BY <1>1 DEF Converters
<1>4. Way = "graph" => graphs' = Chain(Work)
  BY <1>2 DEF InitFilters, Work
<1>5. Work' = Work
  BY <1>1, WorkStays
<1>q. QED
  BY <1>1, <1>2, <1>3, <1>4, <1>5, InputsStay DEF GraphInv

LEMMA GraphSubmits == ASSUME GraphInv, Submit PROVE GraphInv'
<1>1. /\ UNCHANGED inputs /\ UNCHANGED <<way, graphs, behind>>
      /\ way = "graph" /\ phase = "decoding" /\ phase' = "filtering" /\ frame' = Downloaded
  BY DEF Submit
<1>2. Asks /\ ~ behind /\ graphs = Chain(Work) /\ Way = "graph" /\ CaseAssumption(request, stream)
  BY <1>1, GraphAsks DEF GraphInv
<1>3. PICK c \in {Work}, s \in {graphs}, f \in {Downloaded} : Stage(c, s, f)
  BY <1>2, SubmittedStage
<1>4. Stage(c, s, f)'
  BY <1>1, <1>3, StageStays
<1>5. Work' = c /\ graphs' = s /\ frame' = f
  BY <1>1, <1>3, WorkStays
<1>6. Staged'
  BY <1>4, <1>5 DEF Staged
<1>q. QED
  BY <1>1, <1>2, <1>6, InputsStay DEF GraphInv

(* A frame that a filter takes is a stage further; one that it refuses     *)
(* stays, and decoding has failed.                                         *)
LEMMA GraphFilters == ASSUME GraphInv, Filter PROVE GraphInv'
<1>1. /\ UNCHANGED inputs /\ UNCHANGED <<way, behind>>
      /\ way = "graph" /\ phase = "filtering" /\ graphs # <<>>
      /\ \/ phase' = "failed" /\ UNCHANGED <<graphs, frame>>
         \/ phase' = phase /\ graphs' = Tail(graphs) /\ frame' = Passed(graphs, frame)
  BY DEF Filter, Passed, NextOf
<1>2. Asks /\ (behind => UsesMotionStage(config)) /\ Way = "graph" /\ CaseAssumption(request, stream)
  BY <1>1, GraphAsks DEF GraphInv
<1>3. Staged
  BY <1>1 DEF GraphInv
<1>4. CASE phase' = "failed" /\ UNCHANGED <<graphs, frame>>
  <2>1. Staged'
    BY <1>1, <1>3, <1>4, StagedStays
  <2>q. QED
    BY <1>1, <1>2, <1>4, <2>1, InputsStay DEF GraphInv
<1>5. CASE phase' = phase /\ graphs' = Tail(graphs) /\ frame' = Passed(graphs, frame)
  <2>1. PICK c \in {Work}, s \in {graphs}, f \in {frame} : Stage(c, s, f)
    BY <1>3 DEF Staged
  <2>2. ConfigOk(c)
    BY <1>2, <2>1, WorkOk
  <2>3. Stage(c, Tail(s), Passed(s, f))
    BY <1>1, <2>1, <2>2, StageStep
  <2>4. Stage(c, Tail(s), Passed(s, f))'
    BY <1>1, <2>3, StageStays
  <2>5. Work' = c /\ graphs' = Tail(s) /\ frame' = Passed(s, f)
    BY <1>1, <1>5, <2>1, WorkStays
  <2>6. Staged'
    BY <2>4, <2>5 DEF Staged
  <2>q. QED
    BY <1>1, <1>2, <1>5, <2>6, InputsStay DEF GraphInv
<1>q. QED
  BY <1>1, <1>4, <1>5

LEMMA BehindStarts ==
  ASSUME Asks, behind, UsesMotionStage(config), graphs = Chain(Work), LeavesFirst(frame)
  PROVE  Staged
BY LeftStage DEF Staged
LEMMA BehindStartsNext ==
  (Asks /\ behind /\ UsesMotionStage(config) /\ graphs = Chain(Work) /\ LeavesFirst(frame))'
    => Staged'
<1>1. Asks /\ behind /\ UsesMotionStage(config) /\ graphs = Chain(Work) /\ LeavesFirst(frame) => Staged
  BY BehindStarts
<1>q. QED
  BY <1>1, PTL

LEMMA GraphResamples == ASSUME GraphInv, Resample PROVE GraphInv'
<1>1. /\ UNCHANGED inputs /\ UNCHANGED <<way, phase>>
      /\ way = "graph" /\ phase = "filtering" /\ graphs = <<>>
      /\ UsesMotionStage(config) /\ ~ behind /\ behind' = TRUE
      /\ frame' = [frame EXCEPT !.rate = request.rate]
      /\ graphs' = Chain(MotionOutput(config, frame))
  BY DEF Resample
<1>2. Asks /\ Way = "graph" /\ CaseAssumption(request, stream) /\ Staged
  BY <1>1, GraphAsks DEF GraphInv
<1>3. ConfigOk(Work)
  BY <1>1, <1>2, WorkOk
<1>4. Stage(Work, <<>>, frame)
  BY <1>1, <1>2 DEF Staged
<1>5. AtEnd(Work, <<>>, frame)
  BY <1>3, <1>4, EmptyIsEnd
<1>6. Work.format = MotionWorkingFormat(config, stream)
  BY <1>1, <1>2, GraphInFront DEF Work
<1>7. /\ Good(frame) /\ frame.turned = WayUp /\ Readable(frame) /\ Toned(frame)
      /\ SizeOf(frame) = planned /\ frame.format = MotionWorkingFormat(config, stream)
      /\ frame.matrix = MatrixBetween
  BY <1>1, <1>5, <1>6 DEF AtEnd, Placed
<1> DEFINE g == [frame EXCEPT !.rate = request.rate]
<1>8. g = [frame EXCEPT !.rate = request.rate]
  OBVIOUS
<1> HIDE DEF g
<1>9. IsWhole(frame)
  BY <1>7 DEF Good
<1>10. IsWhole(g) /\ g.rate = request.rate
  BY <1>8, <1>9 DEF IsWhole
<1>11. /\ g.w = frame.w /\ g.h = frame.h /\ g.format = frame.format /\ g.on = frame.on
       /\ g.matrix = frame.matrix /\ g.signal = frame.signal /\ g.encoded = frame.encoded
       /\ g.right = frame.right /\ g.turned = frame.turned /\ g.toned = frame.toned
       /\ g.by = frame.by
  BY <1>8, <1>9 DEF IsWhole
<1>12. Good(g) /\ Readable(g) /\ Toned(g) /\ SizeOf(g) = planned
  BY <1>7, <1>10, <1>11 DEF Good, ByZimg, Readable, Toned, SizeOf
<1>13. LeavesFirst(g)
  BY <1>7, <1>10, <1>11, <1>12 DEF LeavesFirst
<1>14. \A f \in {g} : LeavesFirst(f)'
  BY <1>1, <1>13, GoodStays
<1>15. LeavesFirst(frame)'
  BY <1>1, <1>8, <1>14
<1>16. graphs' = Chain(Work')
  <2>1. MotionOutput(config, frame) = MotionOutput(config, Between)
    BY <1>7, OutputOfLeft
  <2>2. Work' = MotionOutput(config', Between')
    BY <1>1, InputsStay DEF Work
  <2>q. QED
    BY <1>1, <2>1, <2>2, InputsStay
<1>17. Asks' /\ UsesMotionStage(config')
  BY <1>1, <1>2, InputsStay DEF Asks
<1>18. Staged'
  BY <1>1, <1>15, <1>16, <1>17, BehindStartsNext
<1>q. QED
  BY <1>1, <1>2, <1>17, <1>18, InputsStay DEF GraphInv

(* What the last graph leaves is the row's size and format.                *)
LEMMA Ends ==
  ASSUME GraphInv, way = "graph", phase # "decoding", graphs = <<>>,
         UsesMotionStage(config) => behind
  PROVE  /\ AtEnd(Work, <<>>, frame) /\ Work.format = config.format
         /\ RateOf(Work) = request.rate
<1>1. Asks /\ Staged /\ (behind => UsesMotionStage(config))
  BY GraphAsks DEF GraphInv
<1>2. AtEnd(Work, <<>>, frame)
  BY <1>1, WorkOk, EmptyIsEnd DEF Staged
<1>3. CASE UsesMotionStage(config)
  <2>1. Work = MotionOutput(config, Between)
    BY <1>3 DEF Work
  <2>2. Work.format = config.format /\ Work.rate = None
    BY <1>1, <1>3, <2>1, GraphBehind
  <2>q. QED
    BY <1>2, <1>3, <2>2 DEF RateOf, FirstRate
<1>4. CASE ~ UsesMotionStage(config)
  <2>1. Work = config /\ ~ behind
    BY <1>1, <1>4 DEF Work
  <2>q. QED
    BY <1>2, <1>4, <2>1, ConfigFields DEF RateOf, FirstRate, UsesMotionStage
<1>q. QED
  BY <1>3, <1>4

LEMMA GraphSinks == ASSUME GraphInv, Sunk PROVE GraphInv'
<1>1. /\ UNCHANGED inputs /\ UNCHANGED <<way, graphs, frame, behind>>
      /\ way = "graph" /\ phase = "filtering" /\ graphs = <<>>
      /\ UsesMotionStage(config) => behind
      /\ phase' = IF Fits THEN "done" ELSE "failed"
  BY DEF Sunk, Through, graphVars
<1>2. AtEnd(Work, <<>>, frame) /\ Work.format = config.format
  BY <1>1, Ends
<1>3. Fits
  BY <1>2 DEF AtEnd, SizeOf, Fits
<1>4. Staged'
  BY <1>1, StagedStays DEF GraphInv
<1>5. Work' = Work
  BY <1>1, WorkStays
<1>q. QED
  BY <1>1, <1>3, <1>4, <1>5, InputsStay DEF GraphInv

LEMMA GraphInductive == GraphInv /\ [PathNext]_pathVars => GraphInv'
<1>1. SUFFICES ASSUME GraphInv, [PathNext]_pathVars PROVE GraphInv'
  OBVIOUS
<1>2. ASSUME NEW shape \in Shapes, NEW tags \in Tags, DirectFrame(shape, tags) PROVE GraphInv'
  BY <1>1, <1>2, GraphElsewhere DEF DirectFrame, graphVars
<1>3. ASSUME NEW shape \in Shapes, CudaFrame(shape) PROVE GraphInv'
  BY <1>1, <1>3, GraphElsewhere DEF CudaFrame, graphVars
<1>4. ASSUME Gpu PROVE GraphInv'
  BY <1>1, <1>4, GraphUnmoved DEF Gpu, graphVars
<1>5. ASSUME FlushDirect PROVE GraphInv'
  BY <1>1, <1>5, GraphElsewhere DEF FlushDirect, graphVars
<1>6. ASSUME UNCHANGED pathVars PROVE GraphInv'
  BY <1>1, <1>6, GraphUnmoved DEF pathVars, graphVars
<1>7. Over => GraphInv'
  BY <1>6 DEF Over
<1>q. QED
  BY <1>1, <1>2, <1>3, <1>4, <1>5, <1>6, <1>7, GraphChosen, GraphSubmits, GraphFilters,
     GraphResamples, GraphSinks DEF PathNext

LEMMA GraphInvariant == PathSpec => []GraphInv
<1>1. PathInit => GraphInv
  BY GraphStarts
<1>2. GraphInv /\ [PathNext]_pathVars => GraphInv'
  BY GraphInductive
<1>q. QED
  BY <1>1, <1>2, PTL DEF PathSpec

LEMMA StageIsGood ==
  ASSUME NEW c, NEW s, NEW f, Stage(c, s, f)
  PROVE  Good(f)
BY DEF Stage, AtHdr, AtFps, AtTurn, AtFlip, AtScale, AtTone, AtLinear, AtFloat, AtTonemap, At709,
       AtRgb, AtZimg, AtPlanar, AtFormat, AtEnd, InLinear, Converted, Placed

(* The filters never refuse a frame of a stream whose colours they can     *)
(* convert: in every chain that a request, a stream and FFmpeg's zscale    *)
(* make (Display for VideoFilterConfig), each filter gets what it takes.   *)
THEOREM FiltersAlwaysAccept == PathSpec => []FiltersAccept
<1>1. ASSUME GraphInv, way = "graph", phase = "filtering", graphs # <<>>
      PROVE  frame.on = "cpu" /\ (Convertible => ~ Refuses(frame, Head(graphs)))
  <2>1. Asks /\ (behind => UsesMotionStage(config)) /\ Staged
    BY <1>1, GraphAsks DEF GraphInv
  <2>2. Stage(Work, graphs, frame)
    BY <2>1 DEF Staged
  <2>3. Good(frame)
    BY <2>2, StageIsGood
  <2>4. Taken(graphs, frame)
    BY <1>1, <2>1, <2>2, WorkOk, StageStep
  <2>q. QED
    BY <2>3, <2>4 DEF Good, Taken
<1>2. GraphInv => FiltersAccept
  BY <1>1 DEF FiltersAccept
<1>q. QED
  BY <1>2, GraphInvariant, PTL

(* NVDEC scales to what was planned, or decoding on the GPU was refused.   *)
LEMMA ScaledOnDevice ==
  ASSUME GraphInv, way = "cuda"
  PROVE  DecodedSize(request, stream) = planned
<1>1. request.device /\ ~ Refused(request, stream, zscale) /\ CaseAssumption(request, stream)
  BY DEF GraphInv, Way
<1>2. RequestedRotation(request, stream) = <<>> /\ HwDecoded(request)
  BY <1>1 DEF Refused, HwDecoded
<1>3. DecodedSize(request, stream) = Given(HwResize(request, stream), <<stream.w, stream.h>>)
  BY <1>2 DEF DecodedSize
<1>4. planned = ResolveOutputSize(<<stream.w, stream.h>>, request)
  BY <1>2 DEF planned, PlannedSize, Displayed, SwapsDimensions
<1>5. CASE Resizes(request)
  <2>1. /\ request.width # None /\ request.height # None
        /\ HwResize(request, stream) = <<request.width, request.height>>
    BY <1>1, <1>5 DEF Refused, Resizes
  <2>2. planned = <<request.width, request.height>>
    BY <1>4, <2>1 DEF ResolveOutputSize
  <2>q. QED
    BY <1>1, <1>3, <2>1, <2>2, PlannedIsNotNone DEF Given
<1>6. CASE ~ Resizes(request)
  <2>1. HwResize(request, stream) = None
    BY <1>6 DEF HwResize
  <2>2. planned = <<stream.w, stream.h>>
    BY <1>4, <1>6 DEF ResolveOutputSize, Resizes
  <2>q. QED
    BY <1>3, <2>1, <2>2 DEF Given
<1>q. QED
  BY <1>5, <1>6

(* A frame that goes straight through swscale is neither resized nor       *)
(* turned.                                                                 *)
LEMMA DirectIsUnchanged ==
  ASSUME GraphInv, way = "direct"
  PROVE  /\ planned = <<stream.w, stream.h>>
         /\ request.autorotate => stream.display = Upright
<1>1. IsEligible(config) /\ CaseAssumption(request, stream)
  BY DEF GraphInv, Way
<1>2. GraphSize(request, stream) = None /\ RequestedRotation(request, stream) = <<>>
  BY <1>1, ConfigFields DEF IsEligible
<1>3. ~ Resizes(request)
  BY <1>1, <1>2, PlannedIsNotNone DEF GraphSize, planned, PlannedSize
<1>4. planned = <<stream.w, stream.h>>
  BY <1>2, <1>3 DEF planned, PlannedSize, Displayed, SwapsDimensions, ResolveOutputSize, Resizes
<1>5. ASSUME request.autorotate PROVE stream.display = Upright
  <2>1. AutorotateFilters(stream.display) = <<>> /\ stream.display \in DisplayMatrices
    BY <1>1, <1>2, <1>5 DEF RequestedRotation, CaseAssumption
  <2>2. \A t : <<Rotate(t)>> # <<>>
    OBVIOUS
  <2>3. <<Rotate("hflip"), Rotate("vflip")>> # <<>>
    OBVIOUS
  <2>q. QED
    BY <2>1, <2>2, <2>3, AutorotateTurns
<1>q. QED
  BY <1>4, <1>5

(* On every way a frame has the size its row was planned with              *)
(* (plan_video_stream), the right way up and at the rate asked for: NVDEC's*)
(* resize, the rotation and the graphs on both sides of the motion stage   *)
(* agree with the plan made before the file was decoded.                   *)
THEOREM RowsAsPlanned == PathSpec => []AsPlanned
<1>1. ASSUME GraphInv, way = "graph", phase = "filtering", Through
      PROVE  /\ Fits
             /\ frame.turned = IF request.autorotate THEN stream.display ELSE Upright
             /\ frame.rate = request.rate
  <2>1. /\ AtEnd(Work, <<>>, frame) /\ Work.format = config.format
        /\ RateOf(Work) = request.rate
    BY <1>1, Ends DEF Through
  <2>2. Fits
    BY <2>1 DEF AtEnd, SizeOf, Fits
  <2>q. QED
    BY <2>1, <2>2 DEF AtEnd, Placed, WayUp
<1>2. GraphInv => AsPlanned
  BY <1>1, ScaledOnDevice, DirectIsUnchanged DEF AsPlanned
<1>q. QED
  BY <1>2, GraphInvariant, PTL

(* A frame is tone mapped exactly once if its stream is HDR and that was   *)
(* asked for, and not at all otherwise; whatever made it RGB read its YUV  *)
(* with the matrix it was made with, on both sides of the motion stage, and*)
(* was zimg if accuracy was asked for (ToneMapping, AccurateRgb,           *)
(* motion_output).                                                         *)
THEOREM ColoursAsAsked == PathSpec => []ColourAsAsked
<1>1. ASSUME GraphInv, way = "graph", phase = "done"
      PROVE  /\ frame.toned = IF config.tonemaps THEN 1 ELSE 0
             /\ frame.signal = IF config.tonemaps THEN "bt709" ELSE stream.trc
             /\ frame.right
             /\ Accurate(config) /\ ~ IsRgb(stream.format) => frame.by = "zscale"
  <2>1. AtEnd(Work, <<>>, frame) /\ Work.format = config.format
    BY <1>1, Ends DEF GraphInv
  <2>2. Toned(frame) /\ Good(frame) /\ frame.format = config.format
    BY <2>1 DEF AtEnd, Placed
  <2>3. IsRgb(frame.format)
    BY <2>2, ConfigFields, RgbIsFormat
  <2>q. QED
    BY <2>2, <2>3 DEF Toned, Good, ByZimg
<1>2. GraphInv => ColourAsAsked
  BY <1>1 DEF ColourAsAsked
<1>q. QED
  BY <1>2, GraphInvariant, PTL

-------------------------------------------------------------------------------
(* The direct ways of a video (VideoPath): the scaler that is kept from    *)
(* frame to frame, and the GPU that works behind the decoding thread.      *)

Untold  == [matrix |-> None, full |-> None]
Details == [matrix : {t.matrix : t \in Tags} \union {"bt601", "bt2020nc"}, full : BOOLEAN]
Context == [shape : Shapes, details : Details]
Row     == [size : {planned}, read : Context]
Job     == [op : {"decode", "split", "scratch", "surface"}, to : Nat]

(* The scaler's details are swscale's own as long as no frame and no HDR   *)
(* default has told others: frames without tags come only then.            *)
ScalerInv ==
  /\ sent \in Seq([shape : Shapes, tags : Tags]) /\ tensor \in Seq(Row)
  /\ scaler = NoContext \/ scaler \in Context
  /\ Len(tensor) <= Len(sent) /\ (phase = "decoding" => Len(tensor) = Len(sent))
  /\ \A k \in 1 .. Len(tensor) : AsTagged(k)
  /\ Untagged = None /\ (\A k \in 1 .. Len(sent) : sent[k].tags = Untold)
       => scaler = NoContext \/ scaler.details = DefaultDetails

(* A job on the surface or the scratch planes finds its own frame there,   *)
(* or comes right after the job that brings it; a row not yet of its frame *)
(* has its job to come.                                                    *)
GpuInv ==
  /\ tensor \in Seq(Nat) /\ queue \in Seq(Job)
  /\ \A i \in DOMAIN queue :
       /\ queue[i].to \in DOMAIN tensor
       /\ queue[i].op \in {"split", "surface"} =>
            IF i = 1 THEN surface = queue[i].to
            ELSE queue[i - 1] = [op |-> "decode", to |-> queue[i].to]
       /\ queue[i].op = "scratch" =>
            IF i = 1 THEN scratch = queue[i].to
            ELSE queue[i - 1] = [op |-> "split", to |-> queue[i].to]
  /\ \A k \in DOMAIN tensor :
       tensor[k] = k \/ \E i \in DOMAIN queue :
                          queue[i].to = k /\ queue[i].op \in {"surface", "scratch"}
  /\ phase = "done" => queue = <<>>

WayInv ==
  /\ way \notin {"direct", "cuda"} => sent = <<>> /\ scaler = NoContext /\ tensor = <<>>
  /\ way # "cuda" => queue = <<>>
  /\ way = "undecided" => phase = "decoding"
  /\ way = "direct" => ScalerInv
  /\ way = "cuda" => GpuInv

(* Before the first frame.                                                 *)
Unsent == sent = <<>> /\ scaler = NoContext /\ tensor = <<>> /\ queue = <<>> /\ phase = "decoding"
LEMMA WayStarts == Unsent => WayInv
<1>1. SUFFICES ASSUME Unsent PROVE WayInv
  OBVIOUS
<1>2. ScalerInv
  BY <1>1 DEF ScalerInv, Unsent
<1>3. GpuInv
  BY <1>1 DEF GpuInv, Unsent
<1>q. QED
  BY <1>1, <1>2, <1>3 DEF WayInv, Unsent

LEMMA WayStartsNext == Unsent' => WayInv'
BY WayStarts, PTL

LEMMA InputsKept ==
  ASSUME UNCHANGED inputs
  PROVE  /\ stream' = stream /\ request' = request /\ planned' = planned /\ Row' = Row
         /\ Untagged' = Untagged
<1>1. stream' = stream /\ request' = request /\ zscale' = zscale
  BY DEF inputs
<1>q. QED
  BY <1>1 DEF planned, Row, Untagged

(* Steps that leave rows, scaler and GPU as they are.                      *)
LEMMA WayKept ==
  ASSUME WayInv, UNCHANGED inputs, UNCHANGED <<way, sent, scaler, tensor, queue, surface, scratch>>,
         \/ phase' = phase
         \/ way = "graph"
         \/ way \in {"direct", "cuda"} /\ queue = <<>> /\ phase' = "done"
  PROVE  WayInv'
<1>1. stream' = stream /\ Row' = Row /\ Untagged' = Untagged
  BY InputsKept
<1>2. way = "direct" => ScalerInv'
  <2>1. SUFFICES ASSUME way = "direct" PROVE ScalerInv'
    OBVIOUS
  <2>2. ScalerInv /\ (phase' = "decoding" => phase = "decoding")
    BY <2>1 DEF WayInv
  <2>q. QED
    BY <1>1, <2>2 DEF ScalerInv, AsTagged
<1>3. way = "cuda" => GpuInv'
  BY DEF WayInv, GpuInv
<1>4. way = "undecided" => phase' = "decoding"
  BY DEF WayInv
<1>q. QED
  BY <1>2, <1>3, <1>4 DEF WayInv

(* The coefficients are those of the matrix that is meant, where swscale   *)
(* has them.                                                               *)
LEMMA CoefficientsAre ==
  ASSUME NEW matrix
  PROVE  LET meant == Given(matrix, "bt601")
         IN  IF meant = "bt601" \/ SupportedMatrix(meant) THEN Coefficients(matrix) = meant
             ELSE ~ SupportedMatrix(matrix) /\ Coefficients(matrix) = "bt601"
<1>1. CASE matrix = None
  BY <1>1 DEF Given, Coefficients
<1>2. CASE matrix # None
  BY <1>2 DEF Given, Coefficients
<1>q. QED
  BY <1>1, <1>2

(* swscale's context, and the details it is given, are those of the frame. *)
LEMMA DirectStep ==
  ASSUME WayInv, NEW shape \in Shapes, NEW tags \in Tags, DirectFrame(shape, tags)
  PROVE  WayInv'
<1> DEFINE it == [shape |-> shape, tags |-> tags]
<1>1. /\ way = "direct" /\ way' = way /\ phase = "decoding" /\ TagsStay(tags)
      /\ sent' = Append(sent, it) /\ UNCHANGED inputs /\ queue' = queue
      /\ \/ phase' = "failed" /\ UNCHANGED <<scaler, tensor>>
         \/ /\ scaler' = Detailed(ContextFor(shape), tags)
            /\ tensor' = Append(tensor, [size |-> planned, read |-> scaler'])
            /\ phase' = phase /\ (IsHdr(stream) => SupportedMatrix(tags.matrix))
  BY DEF DirectFrame, gpuVars
<1>2. ScalerInv /\ queue = <<>>
  BY <1>1 DEF WayInv
<1>3. stream' = stream /\ Row' = Row /\ Untagged' = Untagged
  BY <1>1, InputsKept
<1>4. /\ sent \in Seq([shape : Shapes, tags : Tags]) /\ tensor \in Seq(Row)
      /\ Len(sent) \in Nat /\ Len(tensor) = Len(sent)
      /\ \A k \in 1 .. Len(sent) : AsTagged(k)
      /\ tags = [matrix |-> tags.matrix, full |-> tags.full]
  BY <1>1, <1>2, VideoPathAssumption, LenProperties DEF ScalerInv
<1>5. /\ sent' \in Seq([shape : Shapes, tags : Tags]) /\ Len(sent') = Len(sent) + 1
      /\ \A k \in 1 .. Len(sent) : sent'[k] = sent[k]
      /\ sent'[Len(sent) + 1] = it
  BY <1>1, <1>4, AppendProperties
<1>6. (\A k \in 1 .. Len(sent') : sent'[k].tags = Untold) =>
        tags = Untold /\ \A k \in 1 .. Len(sent) : sent[k].tags = Untold
  <2>1. Len(sent) + 1 \in 1 .. Len(sent') /\ \A k \in 1 .. Len(sent) : k \in 1 .. Len(sent')
    BY <1>4, <1>5
  <2>q. QED
    BY <1>5, <2>1
<1>7. CASE phase' = "failed" /\ UNCHANGED <<scaler, tensor>>
  <2>1. \A k \in 1 .. Len(tensor) : AsTagged(k)'
    BY <1>3, <1>4, <1>5, <1>7 DEF AsTagged
  <2>2. ScalerInv'
    BY <1>2, <1>3, <1>4, <1>5, <1>6, <1>7, <2>1 DEF ScalerInv
  <2>q. QED
    BY <1>1, <1>2, <2>2 DEF WayInv
<1>8. CASE /\ scaler' = Detailed(ContextFor(shape), tags)
           /\ tensor' = Append(tensor, [size |-> planned, read |-> scaler'])
           /\ phase' = phase /\ (IsHdr(stream) => SupportedMatrix(tags.matrix))
  <2> DEFINE context == ContextFor(shape)
             matrix  == Given(tags.matrix, Untagged)
  <2>1. /\ context \in Context /\ context.shape = shape
        /\ context = scaler \/ context.details = DefaultDetails
    <3>1. CASE scaler.shape = shape
      <4>1. scaler # NoContext
        BY <3>1, VideoPathAssumption DEF NoContext
      <4>q. QED
        BY <1>2, <3>1, <4>1 DEF ScalerInv, ContextFor
    <3>2. CASE scaler.shape # shape
      BY <3>2 DEF ContextFor, Context, Details, DefaultDetails
    <3>q. QED
      BY <3>1, <3>2
  <2>2. ASSUME matrix = None, tags.full = None
        PROVE  scaler' = context /\ context.details = DefaultDetails
    <3>1. Untagged = None /\ tags = Untold
      <4>1. tags.matrix = None /\ Untagged = None
        BY <2>2, VideoPathAssumption DEF Given, Untagged
      <4>q. QED
        BY <1>4, <2>2, <4>1 DEF Untold
    <3>2. \A k \in 1 .. Len(sent) : sent[k].tags = Untold
      BY <1>1, <3>1 DEF TagsStay, Untold
    <3>3. scaler = NoContext \/ scaler.details = DefaultDetails
      BY <1>2, <3>1, <3>2 DEF ScalerInv
    <3>4. context = scaler => scaler # NoContext
      BY <2>1, VideoPathAssumption DEF NoContext
    <3>5. scaler' = context
      BY <1>8, <2>2 DEF Detailed
    <3>q. QED
      BY <2>1, <3>3, <3>4, <3>5
  <2>3. /\ scaler' \in Context /\ scaler'.shape = shape
        /\ scaler'.details = [matrix |-> Coefficients(matrix), full |-> tags.full = TRUE]
    <3>1. CASE matrix = None /\ tags.full = None
      <4>1. Coefficients(matrix) = "bt601" /\ (tags.full = TRUE) = FALSE
        BY <3>1, VideoPathAssumption DEF Coefficients
      <4>2. scaler' = context /\ context.details = DefaultDetails
        BY <2>2, <3>1
      <4>q. QED
        BY <2>1, <4>1, <4>2 DEF DefaultDetails
    <3>2. CASE ~ (matrix = None /\ tags.full = None)
      <4>1. scaler' = [context EXCEPT !.details = [matrix |-> Coefficients(matrix),
                                                   full   |-> tags.full = TRUE]]
        BY <1>8, <3>2 DEF Detailed
      <4>2. [matrix |-> Coefficients(matrix), full |-> tags.full = TRUE] \in Details
        <5>1. Coefficients(matrix) \in {t.matrix : t \in Tags} \union {"bt601", "bt2020nc"}
          BY DEF Coefficients, Given, Untagged
        <5>2. (tags.full = TRUE) \in BOOLEAN
          OBVIOUS
        <5>q. QED
          BY <5>1, <5>2 DEF Details
      <4>q. QED
        BY <2>1, <4>1, <4>2 DEF Context
    <3>q. QED
      BY <3>1, <3>2
  <2>r. IsHdr(stream) => SupportedMatrix(matrix)
    BY <1>8 DEF Given, Untagged, SupportedMatrix, ScaleMatrices
  <2> HIDE DEF context, matrix
  <2>4. /\ tensor' \in Seq(Row) /\ Len(tensor') = Len(tensor) + 1
        /\ \A k \in 1 .. Len(tensor) : tensor'[k] = tensor[k]
        /\ tensor'[Len(tensor) + 1].read = scaler'
    <3>1. [size |-> planned, read |-> scaler'] \in Row
      BY <2>3 DEF Row
    <3>q. QED
      BY <1>4, <1>8, <3>1, AppendProperties
  <2>5. ASSUME NEW k \in 1 .. Len(tensor') PROVE AsTagged(k)'
    <3>1. CASE k \in 1 .. Len(tensor)
      BY <1>3, <1>4, <1>5, <2>4, <3>1 DEF AsTagged
    <3>2. CASE k = Len(tensor) + 1
      <4> DEFINE read  == scaler'
                 meant == Given(matrix, "bt601")
      <4>1. /\ sent'[k].tags = tags /\ sent'[k].shape = shape /\ tensor'[k].read = read
            /\ stream' = stream /\ Untagged' = Untagged
        BY <1>3, <1>4, <1>5, <2>4, <3>2
      <4>2. /\ read.shape = shape /\ read.details.full = (tags.full = TRUE)
            /\ read.details.matrix = Coefficients(matrix)
        BY <2>3
      <4>3. IF meant = "bt601" \/ SupportedMatrix(meant) THEN Coefficients(matrix) = meant
            ELSE ~ IsHdr(stream) /\ Coefficients(matrix) = "bt601"
        BY <2>r, CoefficientsAre
      <4> HIDE DEF read
      <4>q. QED
        BY <4>1, <4>2, <4>3 DEF AsTagged, matrix
    <3>3. k \in 1 .. Len(tensor) \/ k = Len(tensor) + 1
      BY <1>4, <2>4
    <3>q. QED
      BY <3>1, <3>2, <3>3
  <2>6. Untagged' = None /\ (\A k \in 1 .. Len(sent') : sent'[k].tags = Untold)
          => scaler'.details = DefaultDetails
    <3>1. SUFFICES ASSUME Untagged = None, tags = Untold PROVE scaler'.details = DefaultDetails
      BY <1>3, <1>6
    <3>2. matrix = None /\ tags.full = None
      BY <3>1 DEF matrix, Untold, Given
    <3>q. QED
      BY <2>2, <3>2
  <2>7. ScalerInv'
    BY <1>3, <1>4, <1>5, <2>3, <2>4, <2>5, <2>6 DEF ScalerInv
  <2>q. QED
    BY <1>1, <1>2, <2>7 DEF WayInv
<1>q. QED
  BY <1>1, <1>7, <1>8

(* A frame's jobs come in the order of its way, behind those before it.    *)
LEMMA CudaStep ==
  ASSUME WayInv, NEW shape \in Shapes, CudaFrame(shape)
  PROVE  WayInv'
<1>1. /\ way = "cuda" /\ way' = way /\ phase = "decoding" /\ UNCHANGED inputs
      /\ surface' = surface /\ scratch' = scratch
      /\ \/ phase' = "failed" /\ UNCHANGED <<tensor, queue>>
         \/ /\ tensor' = Append(tensor, 0)
            /\ queue' = queue \o CudaWork(Len(tensor'))
            /\ phase' = phase
  BY DEF CudaFrame
<1>2. GpuInv
  BY <1>1 DEF WayInv
<1>3. CASE phase' = "failed" /\ UNCHANGED <<tensor, queue>>
  BY <1>1, <1>2, <1>3 DEF WayInv, GpuInv
<1>4. CASE /\ tensor' = Append(tensor, 0)
           /\ queue' = queue \o CudaWork(Len(tensor'))
           /\ phase' = phase
  <2> DEFINE n == Len(tensor)
             q == Len(queue)
             work == CudaWork(n + 1)
  <2>1. /\ tensor \in Seq(Nat) /\ n \in Nat /\ DOMAIN tensor = 1 .. n
        /\ tensor' \in Seq(Nat) /\ Len(tensor') = n + 1 /\ DOMAIN tensor' = 1 .. n + 1
        /\ \A k \in 1 .. n : tensor'[k] = tensor[k]
    BY <1>2, <1>4, AppendProperties, LenProperties DEF GpuInv
  <2>2. \/ work = <<[op |-> "decode", to |-> n + 1], [op |-> "split", to |-> n + 1],
                    [op |-> "scratch", to |-> n + 1]>>
        \/ work = <<[op |-> "decode", to |-> n + 1], [op |-> "surface", to |-> n + 1]>>
    BY Joined DEF CudaWork
  <2>3. work \in Seq(Job) /\ Len(work) \in {2, 3} /\ DOMAIN work = 1 .. Len(work)
    <3>1. /\ [op |-> "decode", to |-> n + 1] \in Job /\ [op |-> "split", to |-> n + 1] \in Job
          /\ [op |-> "scratch", to |-> n + 1] \in Job /\ [op |-> "surface", to |-> n + 1] \in Job
      BY <2>1 DEF Job
    <3>2. \A a, b, c \in Job : <<a, b>> \in Seq(Job) /\ <<a, b, c>> \in Seq(Job)
      OBVIOUS
    <3>3. work \in Seq(Job)
      BY <2>2, <3>1, <3>2
    <3>q. QED
      BY <2>2, <3>3, LenProperties
  <2>4. \A j \in 1 .. Len(work) :
          /\ work[j].to = n + 1
          /\ work[j].op \in {"split", "surface"} =>
               j # 1 /\ work[j - 1] = [op |-> "decode", to |-> n + 1]
          /\ work[j].op = "scratch" => j # 1 /\ work[j - 1] = [op |-> "split", to |-> n + 1]
    BY <2>2
  <2>5. \E j \in 1 .. Len(work) : work[j].op \in {"surface", "scratch"}
    <3>1. CASE Len(work) = 2
      BY <2>2, <3>1
    <3>2. CASE Len(work) = 3
      BY <2>2, <3>2
    <3>q. QED
      BY <2>3, <3>1, <3>2
  <2> HIDE DEF work
  <2>6. /\ queue \in Seq(Job) /\ q \in Nat /\ DOMAIN queue = 1 .. q
        /\ queue' \in Seq(Job) /\ Len(queue') = q + Len(work) /\ DOMAIN queue' = 1 .. q + Len(work)
        /\ \A i \in 1 .. q : queue'[i] = queue[i]
        /\ \A j \in 1 .. Len(work) : queue'[q + j] = work[j]
    <3>1. queue' = queue \o work
      BY <1>4, <2>1 DEF work
    <3>2. queue \in Seq(Job) /\ q \in Nat /\ DOMAIN queue = 1 .. q
      BY <1>2, LenProperties DEF GpuInv
    <3>3. queue' \in Seq(Job) /\ Len(queue') = q + Len(work)
          /\ \A i \in 1 .. q + Len(work) :
               queue'[i] = IF i <= q THEN queue[i] ELSE work[i - q]
      BY <2>3, <3>1, <3>2, ConcatProperties
    <3>4. DOMAIN queue' = 1 .. q + Len(work)
      BY <3>3, LenProperties
    <3>5. ASSUME NEW i \in 1 .. q PROVE queue'[i] = queue[i]
      BY <2>3, <3>2, <3>3
    <3>6. ASSUME NEW j \in 1 .. Len(work) PROVE queue'[q + j] = work[j]
      <4>1. q + j \in 1 .. q + Len(work) /\ ~ (q + j <= q) /\ (q + j) - q = j
        BY <2>3, <3>2
      <4>q. QED
        BY <3>3, <4>1
    <3>q. QED
      BY <3>2, <3>3, <3>4, <3>5, <3>6
  <2>7. ASSUME NEW i \in DOMAIN queue'
        PROVE  /\ queue'[i].to \in DOMAIN tensor'
               /\ queue'[i].op \in {"split", "surface"} =>
                    IF i = 1 THEN surface' = queue'[i].to
                    ELSE queue'[i - 1] = [op |-> "decode", to |-> queue'[i].to]
               /\ queue'[i].op = "scratch" =>
                    IF i = 1 THEN scratch' = queue'[i].to
                    ELSE queue'[i - 1] = [op |-> "split", to |-> queue'[i].to]
    <3>1. CASE i \in 1 .. q
      <4>0. i \in DOMAIN queue /\ (i # 1 => i - 1 \in 1 .. q)
        BY <2>6, <3>1
      <4>1. queue'[i] = queue[i] /\ (i # 1 => queue'[i - 1] = queue[i - 1])
        BY <2>6, <3>1, <4>0
      <4>2. queue'[i].to \in DOMAIN tensor'
        <5>1. queue[i].to \in DOMAIN tensor
          BY <1>2, <4>0 DEF GpuInv
        <5>2. 1 .. n \subseteq 1 .. n + 1
          BY <2>1
        <5>q. QED
          BY <2>1, <4>1, <5>1, <5>2
      <4>q. QED
        BY <1>1, <1>2, <4>0, <4>1, <4>2 DEF GpuInv
    <3>2. CASE i \notin 1 .. q
      <4>1. i - q \in 1 .. Len(work) /\ i = q + (i - q)
        BY <2>3, <2>6, <3>2
      <4>2. PICK j \in 1 .. Len(work) : i = q + j
        BY <4>1
      <4>3. queue'[i] = work[j]
        BY <2>6, <4>2
      <4>4. j # 1 => i # 1 /\ i - 1 = q + (j - 1) /\ j - 1 \in 1 .. Len(work)
        BY <2>3, <2>6, <4>2
      <4>5. j # 1 => i # 1 /\ queue'[i - 1] = work[j - 1]
        BY <2>6, <4>4
      <4>6. n + 1 \in DOMAIN tensor'
        BY <2>1
      <4>q. QED
        BY <2>4, <4>3, <4>5, <4>6
    <3>q. QED
      BY <3>1, <3>2
  <2>8. ASSUME NEW k \in DOMAIN tensor'
        PROVE  tensor'[k] = k \/ \E i \in DOMAIN queue' :
                 queue'[i].to = k /\ queue'[i].op \in {"surface", "scratch"}
    <3>1. CASE k \in 1 .. n
      <4>1. tensor[k] = k \/ \E i \in 1 .. q :
              queue[i].to = k /\ queue[i].op \in {"surface", "scratch"}
        BY <1>2, <2>1, <2>6, <3>1 DEF GpuInv
      <4>2. \A i \in 1 .. q : i \in DOMAIN queue'
        BY <2>3, <2>6
      <4>q. QED
        BY <2>1, <2>6, <3>1, <4>1, <4>2
    <3>2. CASE k = n + 1
      <4>1. PICK j \in 1 .. Len(work) : work[j].op \in {"surface", "scratch"}
        BY <2>5
      <4>2. q + j \in DOMAIN queue'
        BY <2>3, <2>6
      <4>3. queue'[q + j] = work[j] /\ work[j].to = n + 1
        BY <2>4, <2>6, <4>1
      <4>q. QED
        BY <3>2, <4>1, <4>2, <4>3
    <3>3. k \in 1 .. n \/ k = n + 1
      BY <2>1
    <3>q. QED
      BY <3>1, <3>2, <3>3
  <2>9. GpuInv'
    BY <1>1, <1>4, <2>1, <2>6, <2>7, <2>8 DEF GpuInv
  <2>q. QED
    BY <1>1, <2>9 DEF WayInv
<1>q. QED
  BY <1>1, <1>3, <1>4

(* The GPU takes its jobs in order.                                        *)
LEMMA GpuStep == ASSUME WayInv, Gpu PROVE WayInv'
<1> DEFINE job == Head(queue)
<1>1. /\ queue # <<>> /\ queue' = Tail(queue)
      /\ surface' = IF job.op = "decode" THEN job.to ELSE surface
      /\ scratch' = IF job.op = "split" THEN surface ELSE scratch
      /\ tensor' = CASE job.op = "surface" -> [tensor EXCEPT ![job.to] = surface]
                     [] job.op = "scratch" -> [tensor EXCEPT ![job.to] = scratch]
                     [] OTHER -> tensor
      /\ UNCHANGED inputs /\ way' = way /\ phase' = phase
  BY DEF Gpu
<1>2. way = "cuda" /\ GpuInv
  BY <1>1 DEF WayInv
<1>3. /\ queue \in Seq(Job) /\ Len(queue) \in Nat \ {0} /\ DOMAIN queue = 1 .. Len(queue)
      /\ tensor \in Seq(Nat) /\ Len(tensor) \in Nat /\ DOMAIN tensor = 1 .. Len(tensor)
  BY <1>1, <1>2, LenProperties, EmptySeq DEF GpuInv
<1>4. /\ queue' \in Seq(Job) /\ Len(queue') = Len(queue) - 1 /\ DOMAIN queue' = 1 .. Len(queue')
      /\ \A i \in 1 .. Len(queue') : i + 1 \in DOMAIN queue /\ queue'[i] = queue[i + 1]
  <2>1. /\ queue' \in Seq(Job) /\ Len(queue') = Len(queue) - 1
        /\ \A i \in 1 .. Len(queue') : queue'[i] = queue[i + 1]
    BY <1>1, <1>3, HeadTailProperties
  <2>2. \A i \in 1 .. Len(queue') : i + 1 \in DOMAIN queue
    BY <1>3, <2>1
  <2>q. QED
    BY <2>1, <2>2, LenProperties
<1>5. 1 \in DOMAIN queue /\ job = queue[1] /\ job \in Job /\ job.to \in DOMAIN tensor
  <2>1. 1 \in DOMAIN queue /\ job = queue[1]
    BY <1>3
  <2>2. job \in Job
    BY <1>3, <2>1, ElementOfSeq
  <2>3. job.to \in DOMAIN tensor
    BY <1>2, <2>1 DEF GpuInv
  <2>q. QED
    BY <2>1, <2>2, <2>3
<1> HIDE DEF job
<1>6. /\ job.op \in {"split", "surface"} => surface = job.to
      /\ job.op = "scratch" => scratch = job.to
  BY <1>2, <1>5 DEF GpuInv
<1>7. /\ tensor' \in Seq(Nat) /\ DOMAIN tensor' = DOMAIN tensor
      /\ \A k \in DOMAIN tensor :
           tensor'[k] = IF k = job.to /\ job.op \in {"surface", "scratch"} THEN k ELSE tensor[k]
  <2>1. CASE job.op \in {"surface", "scratch"}
    <3>1. tensor' = [tensor EXCEPT ![job.to] = job.to]
      <4>1. CASE job.op = "surface"
        BY <1>1, <1>6, <4>1
      <4>2. CASE job.op = "scratch"
        <5>1. job.op # "surface"
          BY <4>2
        <5>q. QED
          BY <1>1, <1>6, <4>2, <5>1
      <4>q. QED
        BY <2>1, <4>1, <4>2
    <3>2. job.to \in Nat
      BY <1>5 DEF Job
    <3>3. tensor' \in Seq(Nat)
      BY <1>3, <1>5, <3>1, <3>2, ExceptSeq
    <3>q. QED
      BY <1>3, <1>5, <2>1, <3>1, <3>3
  <2>2. CASE job.op \notin {"surface", "scratch"}
    <3>1. job.op # "surface" /\ job.op # "scratch"
      BY <2>2
    <3>2. tensor' = tensor
      BY <1>1, <3>1
    <3>q. QED
      BY <1>3, <2>2, <3>2
  <2>q. QED
    BY <2>1, <2>2
<1>8. ASSUME NEW i \in DOMAIN queue'
      PROVE  /\ queue'[i].to \in DOMAIN tensor'
             /\ queue'[i].op \in {"split", "surface"} =>
                  IF i = 1 THEN surface' = queue'[i].to
                  ELSE queue'[i - 1] = [op |-> "decode", to |-> queue'[i].to]
             /\ queue'[i].op = "scratch" =>
                  IF i = 1 THEN scratch' = queue'[i].to
                  ELSE queue'[i - 1] = [op |-> "split", to |-> queue'[i].to]
  <2>1. /\ i \in Nat \ {0} /\ i + 1 \in DOMAIN queue /\ queue'[i] = queue[i + 1]
        /\ i + 1 # 1 /\ (i + 1) - 1 = i
    BY <1>4
  <2>2. /\ queue[i + 1].to \in DOMAIN tensor
        /\ queue[i + 1].op \in {"split", "surface"} =>
             queue[i] = [op |-> "decode", to |-> queue[i + 1].to]
        /\ queue[i + 1].op = "scratch" => queue[i] = [op |-> "split", to |-> queue[i + 1].to]
    BY <1>2, <2>1 DEF GpuInv
  <2>3. CASE i = 1
    <3>1. /\ queue'[1].op \in {"split", "surface"} => job = [op |-> "decode", to |-> queue'[1].to]
          /\ queue'[1].op = "scratch" => job = [op |-> "split", to |-> queue'[1].to]
      BY <1>5, <2>1, <2>2, <2>3
    <3>2. queue'[1].op \in {"split", "surface"} => surface' = queue'[1].to
      BY <1>1, <3>1
    <3>3. queue'[1].op = "scratch" => scratch' = queue'[1].to
      BY <1>1, <1>6, <3>1
    <3>q. QED
      BY <1>7, <2>1, <2>2, <2>3, <3>2, <3>3
  <2>4. CASE i # 1
    <3>1. i - 1 \in 1 .. Len(queue') /\ (i - 1) + 1 = i
      BY <1>4, <2>1, <2>4
    <3>2. queue'[i - 1] = queue[i]
      BY <1>4, <3>1
    <3>q. QED
      BY <1>7, <2>1, <2>2, <2>4, <3>2
  <2>q. QED
    BY <2>3, <2>4
<1>9. ASSUME NEW k \in DOMAIN tensor'
      PROVE  tensor'[k] = k \/ \E i \in DOMAIN queue' :
               queue'[i].to = k /\ queue'[i].op \in {"surface", "scratch"}
  <2>1. CASE tensor[k] = k
    BY <1>7, <2>1
  <2>2. CASE tensor[k] # k
    <3>1. PICK i \in DOMAIN queue : queue[i].to = k /\ queue[i].op \in {"surface", "scratch"}
      BY <1>2, <1>7, <2>2 DEF GpuInv
    <3>2. CASE i = 1
      BY <1>5, <1>7, <3>1, <3>2
    <3>3. CASE i # 1
      <4>1. i - 1 \in 1 .. Len(queue') /\ (i - 1) + 1 = i
        BY <1>3, <1>4, <3>3
      <4>2. i - 1 \in DOMAIN queue' /\ queue'[i - 1] = queue[i]
        BY <1>4, <4>1
      <4>q. QED
        BY <3>1, <4>2
    <3>q. QED
      BY <3>2, <3>3
  <2>q. QED
    BY <2>1, <2>2
<1>10. phase' = "done" => FALSE
  BY <1>1, <1>2 DEF GpuInv
<1>11. GpuInv'
  BY <1>4, <1>7, <1>8, <1>9, <1>10 DEF GpuInv
<1>q. QED
  BY <1>1, <1>2, <1>11 DEF WayInv

LEMMA WayInductive == WayInv /\ [PathNext]_pathVars => WayInv'
<1>1. SUFFICES ASSUME WayInv, [PathNext]_pathVars PROVE WayInv'
  OBVIOUS
<1>2. CASE InitFilters
  <2>1. /\ sent' = <<>> /\ scaler' = NoContext /\ tensor' = <<>> /\ queue' = <<>>
        /\ phase' = "decoding"
    BY <1>1, <1>2 DEF InitFilters, WayInv, gpuVars
  <2>2. Unsent'
    BY <2>1 DEF Unsent, NoContext
  <2>q. QED
    BY <2>2, WayStartsNext
<1>3. CASE Submit \/ Filter \/ Resample
  BY <1>1, <1>3, WayKept DEF Submit, Filter, Resample, gpuVars
<1>4. CASE Sunk
  BY <1>1, <1>4, WayKept DEF Sunk, gpuVars
<1>5. ASSUME NEW shape \in Shapes, NEW tags \in Tags, DirectFrame(shape, tags) PROVE WayInv'
  BY <1>1, <1>5, DirectStep
<1>6. ASSUME NEW shape \in Shapes, CudaFrame(shape) PROVE WayInv'
  BY <1>1, <1>6, CudaStep
<1>7. CASE Gpu
  BY <1>1, <1>7, GpuStep
<1>8. CASE FlushDirect
  BY <1>1, <1>8, WayKept DEF FlushDirect, Synchronize, gpuVars
<1>9. CASE Over \/ UNCHANGED pathVars
  BY <1>1, <1>9, WayKept DEF Over, pathVars, gpuVars
<1>q. QED
  BY <1>1, <1>2, <1>3, <1>4, <1>5, <1>6, <1>7, <1>8, <1>9 DEF PathNext

LEMMA WayInvariant == PathSpec => []WayInv
<1>1. PathInit => WayInv
  BY WayStarts DEF PathInit, Unsent
<1>2. WayInv /\ [PathNext]_pathVars => WayInv'
  BY WayInductive
<1>q. QED
  BY <1>1, <1>2, PTL DEF PathSpec

(* Whenever the GPU gets to its jobs, the tensor handed out has each frame *)
(* in its own row.                                                         *)
THEOREM GpuRowsComplete == PathSpec => []CudaRowsComplete
<1>1. ASSUME WayInv, way = "cuda", phase = "done", NEW k \in 1 .. Len(tensor)
      PROVE  tensor[k] = k
  <2>1. GpuInv /\ queue = <<>> /\ DOMAIN tensor = 1 .. Len(tensor)
    BY <1>1, LenProperties DEF WayInv, GpuInv
  <2>q. QED
    BY <1>1, <2>1 DEF GpuInv
<1>2. WayInv => CudaRowsComplete
  BY <1>1 DEF CudaRowsComplete
<1>q. QED
  BY <1>2, WayInvariant, PTL

(* However the frames' shapes and tags change, the kept scaler reads each  *)
(* as its own say -- as BT.601 where swscale does not know the matrix,     *)
(* which happens to no HDR stream -- and one tagged like its stream as the *)
(* graph would.                                                            *)
THEOREM ScalerReadsAsTagged == PathSpec => []DirectAsGraph
<1>1. ASSUME WayInv, way = "direct", NEW k \in 1 .. Len(tensor) PROVE AsTagged(k)
  BY <1>1 DEF WayInv, ScalerInv
<1>2. ASSUME WayInv, way = "direct", NEW k \in 1 .. Len(tensor),
             sent[k].tags.matrix = stream.matrix, SupportedMatrix(stream.matrix)
      PROVE  tensor[k].read.details.matrix = TrueMatrix(stream)
  <2> DEFINE meant == Given(Given(sent[k].tags.matrix, Untagged), "bt601")
  <2>1. meant = TrueMatrix(stream)
    BY <1>2, VideoPathAssumption DEF Given, Untagged, TrueMatrix
  <2>2. meant = "bt601" \/ SupportedMatrix(meant)
    BY <1>2 DEF Given, Untagged, SupportedMatrix, ScaleMatrices
  <2>3. tensor[k].read.details.matrix = meant
    BY <1>1, <1>2, <2>2 DEF AsTagged
  <2>q. QED
    BY <2>1, <2>3
<1>3. WayInv => DirectAsGraph
  BY <1>1, <1>2 DEF DirectAsGraph
<1>q. QED
  BY <1>3, WayInvariant, PTL

-------------------------------------------------------------------------------
(* The interpolator.                                                       *)

Sizes == [Axes -> Nat \ {0}]

-------------------------------------------------------------------------------
(* Arithmetic.                                                             *)

LEMMA CeilBounds ==
  ASSUME NEW a \in Nat, NEW n \in {2, 16, 64}
  PROVE  /\ CeilDiv(a, n) \in Nat
         /\ a <= n * CeilDiv(a, n) /\ n * CeilDiv(a, n) < a + n
<1>1. CASE n = 2
  BY <1>1 DEF CeilDiv
<1>2. CASE n = 16
  BY <1>2 DEF CeilDiv
<1>3. CASE n = 64
  BY <1>3 DEF CeilDiv
<1>q. QED
  BY <1>1, <1>2, <1>3

(* A number times one that is no smaller is no smaller.                    *)
LEMMA TimesMonotone ==
  ASSUME NEW a \in Nat, NEW b \in Nat, NEW n \in Nat, a <= b
  PROVE  a * n <= b * n
<1> DEFINE d == b - a
<1>1. d \in Nat /\ b = a + d
  OBVIOUS
<1>2. b * n = a * n + d * n
  BY <1>1
<1>3. d * n \in Nat /\ a * n \in Nat
  BY <1>1
<1>q. QED
  BY <1>2, <1>3

(* A row in the border's reach is in the buffer, and ends before the next  *)
(* row begins.                                                             *)
THEOREM BufferHasRows ==
  ASSUME NEW size \in Sizes, NEW x \in Int, NEW y \in Int, NEW n \in Nat,
         RowInside(size, x, y, n)
  PROVE  /\ 0 <= Index(size, x, y)
         /\ Index(size, x, y) + n <= (y + Pad + 1) * Stride(size)
         /\ (y + Pad + 1) * Stride(size) <= Bytes(size)
<1> DEFINE s == Stride(size)
           r == y + Pad
           h == size[2] + 2 * Pad
<1>1. size[1] \in Nat /\ size[2] \in Nat
  BY DEF Sizes, Axes
<1>2. s \in Nat /\ size[1] + 2 * Pad <= s
  <2>1. size[1] + 2 * Pad \in Nat
    BY <1>1 DEF Pad
  <2>2. /\ CeilDiv(size[1] + 2 * Pad, 64) \in Nat
        /\ size[1] + 2 * Pad <= 64 * CeilDiv(size[1] + 2 * Pad, 64)
    BY <2>1, CeilBounds
  <2>q. QED
    BY <2>2 DEF Stride
<1>3. r \in Nat /\ r + 1 <= h /\ h \in Nat
  BY <1>1 DEF RowInside, Pad
<1>4. 0 <= x + Pad /\ x + Pad + n <= s
  BY <1>1, <1>2 DEF RowInside, Pad
<1>5. Index(size, x, y) = r * s + (x + Pad) /\ Bytes(size) = s * h
  <2>1. r * s \in Int
    BY <1>2, <1>3
  <2>2. Index(size, x, y) = (r * s + x) + Pad
    BY DEF Index
  <2>3. Bytes(size) = s * h
    BY DEF Bytes
  <2> HIDE DEF s, r, h
  <2>q. QED
    BY <2>1, <2>2, <2>3 DEF Pad
<1> HIDE DEF s, r, h
<1>6. r * s \in Nat /\ (r + 1) * s = r * s + s /\ s * h = h * s
  BY <1>2, <1>3
<1>7. (r + 1) * s <= h * s
  BY <1>2, <1>3, TimesMonotone
<1>8. x + Pad \in Int
  BY DEF Pad
<1>9. /\ 0 <= Index(size, x, y)
      /\ Index(size, x, y) + n <= (r + 1) * s
      /\ (r + 1) * s <= Bytes(size)
  BY <1>2, <1>3, <1>4, <1>5, <1>6, <1>7, <1>8
<1>10. (y + Pad + 1) * Stride(size) = (r + 1) * s
  BY DEF r, s
<1>q. QED
  BY <1>9, <1>10
(* A row that is read or written lies in the slice that was borrowed of    *)
(* the frame, which ends with the last row's last sample (motion.rs:558).  *)
THEOREM RowsBorrowed ==
  ASSUME NEW size \in Sizes, NEW depth \in Depths, NEW stride \in Nat,
         LongEnough(stride, size, depth), NEW y \in 0 .. size[2] - 1
  PROVE  SourceRow(stride, y) + size[1] * depth <= Borrowed(stride, size, depth)
<1>1. size[1] * depth \in Nat /\ size[2] - 1 \in Nat /\ y \in Nat /\ y <= size[2] - 1
  BY DEF Sizes, Axes, Depths
<1>2. y * stride <= (size[2] - 1) * stride
  BY <1>1, TimesMonotone
<1>3. /\ (size[2] - 1) * stride = stride * (size[2] - 1)
      /\ stride * (size[2] - 1) \in Nat /\ y * stride \in Nat
  BY <1>1
<1>q. QED
  BY <1>1, <1>2, <1>3 DEF SourceRow, Borrowed

(* What a padded plane is filled from, its border too, is in that slice.   *)
THEOREM FillReadsInside ==
  ASSUME NEW size \in Sizes, NEW stride \in Nat, LongEnough(stride, size, 1),
         NEW x \in Int, NEW y \in Int
  PROVE  /\ Replicated(size, x, y)[1] \in 0 .. size[1] - 1
         /\ Replicated(size, x, y)[2] \in 0 .. size[2] - 1
         /\ SourceRow(stride, Replicated(size, x, y)[2]) + Replicated(size, x, y)[1]
              < Borrowed(stride, size, 1)
<1>1. size[1] \in Nat \ {0} /\ size[2] \in Nat \ {0}
  BY DEF Sizes, Axes
<1> DEFINE p == Replicated(size, x, y)
<1>2. p[1] \in 0 .. size[1] - 1 /\ p[2] \in 0 .. size[2] - 1
  BY <1>1 DEF Replicated, Clamped
<1> HIDE DEF p
<1>3. SourceRow(stride, p[2]) + size[1] * 1 <= Borrowed(stride, size, 1)
  BY <1>2, RowsBorrowed DEF Depths
<1>4. SourceRow(stride, p[2]) \in Int /\ Borrowed(stride, size, 1) \in Int
  <2>1. stride * (size[2] - 1) \in Int /\ p[2] * stride \in Int
    BY <1>1, <1>2
  <2>q. QED
    BY <1>1, <2>1 DEF SourceRow, Borrowed
<1>q. QED
  BY <1>1, <1>2, <1>3, <1>4 DEF p

-------------------------------------------------------------------------------
(* The search.                                                             *)

(* There are as many blocks as cover the plane, the last one at least in   *)
(* part.                                                                   *)
LEMMA BlockBounds ==
  ASSUME IsLayout, NEW d \in Axes
  PROVE  /\ Size[d] \in Nat \ {0} /\ Blocks(d) \in Nat \ {0}
         /\ Size[d] <= 16 * Blocks(d) /\ 16 * Blocks(d) < Size[d] + 16
<1>1. Size[d] \in Nat \ {0}
  BY DEF IsLayout, Axes
<1>2. /\ CeilDiv(Size[d], 16) \in Nat
      /\ Size[d] <= 16 * CeilDiv(Size[d], 16) /\ 16 * CeilDiv(Size[d], 16) < Size[d] + 16
  BY <1>1, CeilBounds
<1>q. QED
  BY <1>1, <1>2 DEF Blocks, Block

LEMMA GridFacts ==
  ASSUME IsLayout
  PROVE  Zero \in Grid /\ Idle \notin Grid
BY BlockBounds DEF Zero, Idle, Grid, Axes

(* The windows that are compared for a block and a vector in range.        *)
LEMMA CostReadsInside ==
  ASSUME IsLayout, NEW b \in Grid, NEW mv \in Vectors, NEW sign \in {-1, 1},
         NEW row \in 0 .. Window - 1
  PROVE  RowInside(PlaneSize(Luma), CostFrom(b, mv, sign, row)[1],
                   CostFrom(b, mv, sign, row)[2], Window)
<1>1. /\ b[1] \in Int /\ 0 <= b[1] /\ b[1] <= Blocks(1) - 1
      /\ b[2] \in Int /\ 0 <= b[2] /\ b[2] <= Blocks(2) - 1
  BY BlockBounds DEF Grid, Axes
<1>2. /\ mv[1] \in Int /\ -32 <= mv[1] /\ mv[1] <= 32
      /\ mv[2] \in Int /\ -32 <= mv[2] /\ mv[2] <= 32
  BY DEF Vectors, Search
<1>3. PlaneSize(Luma) = [d \in Axes |-> Size[d]]
  <2>1. \A d \in Axes : CeilDiv(Size[d], Step(Luma, d)) = Size[d]
    BY BlockBounds DEF CeilDiv, Step, Luma, Axes
  <2>q. QED
    BY <2>1 DEF PlaneSize
<1>4. PlaneSize(Luma)[1] = Size[1] /\ PlaneSize(Luma)[2] = Size[2]
  BY <1>3 DEF Axes
<1>5. /\ Blocks(1) \in Nat /\ Size[1] \in Nat /\ 16 * Blocks(1) < Size[1] + 16
      /\ Blocks(2) \in Nat /\ Size[2] \in Nat /\ 16 * Blocks(2) < Size[2] + 16
  BY BlockBounds DEF Axes
<1>6. row \in Int /\ 0 <= row /\ row <= 31
  BY DEF Window
<1>7. CostFrom(b, mv, sign, row) =
        <<16 * b[1] + sign * mv[1] - 8, 16 * b[2] + sign * mv[2] - 8 + row>>
  BY DEF CostFrom, Block, Half
<1>8. CASE sign = 1
  BY <1>1, <1>2, <1>4, <1>5, <1>6, <1>7, <1>8 DEF RowInside, Pad, Window
<1>9. CASE sign = -1
  BY <1>1, <1>2, <1>4, <1>5, <1>6, <1>7, <1>9 DEF RowInside, Pad, Window
<1>q. QED
  BY <1>8, <1>9

(* Blocks are searched row by row: those before the one at hand are of     *)
(* this estimate, and no others are.                                       *)
Before(q, b) == q[2] < b[2] \/ (q[2] = b[2] /\ q[1] < b[1])
InOrder ==
  /\ at \in Grid \union {Idle}
  /\ at # Idle => fresh = {q \in Grid : Before(q, at)}

IInv == FieldBounded /\ InOrder

(* What a search may try is a pair of numbers, in range or not.            *)
LEMMA CandidatesAreVectors ==
  ASSUME IsLayout, NEW b \in Grid, NEW f \in [Grid -> Vectors],
         NEW g \in [Grid -> Vectors], NEW h \in [Grid -> Vectors]
  PROVE  Candidates(f, g, h, b) \subseteq Int \X Int
<1>1. Vectors \subseteq Int \X Int
  BY DEF Vectors
<1>2. \A q \in Grid : /\ f[q] \in Int \X Int /\ f[q][1] \in Int /\ f[q][2] \in Int
                      /\ g[q] \in Int \X Int /\ g[q][1] \in Int /\ g[q][2] \in Int
                      /\ h[q] \in Int \X Int /\ h[q][1] \in Int /\ h[q][2] \in Int
  BY <1>1
<1>3. Zero \in Int \X Int /\ Zero[1] \in Int /\ Zero[2] \in Int
  BY DEF Zero
<1>4. \A i, j, k \in Int : Median3(i, j, k) \in Int
  BY DEF Median3, MinOf, MaxOf
<1>5. Predicted(f, b) \in Int \X Int
  <2>1. \A q : /\ VectorAt(f, q) \in Int \X Int
               /\ VectorAt(f, q)[1] \in Int /\ VectorAt(f, q)[2] \in Int
    BY <1>2, <1>3 DEF VectorAt
  <2>q. QED
    BY <1>4, <2>1 DEF Predicted
<1>6. <<2 * g[b][1] - h[b][1], 2 * g[b][2] - h[b][2]>> \in Int \X Int
  BY <1>2
<1>7. \A q \in Spatial(b) \union Temporal(b) : q \in Grid
  BY DEF Spatial, Temporal
<1>q. QED
  BY <1>2, <1>3, <1>5, <1>6, <1>7 DEF Candidates

LEMMA BestInRange ==
  ASSUME IsLayout, NEW b \in Grid, NEW f \in [Grid -> Vectors],
         NEW g \in [Grid -> Vectors], NEW h \in [Grid -> Vectors],
         \E mv \in Candidates(f, g, h, b) : InSearch(mv) /\ best' = mv
  PROVE  best' \in Vectors
<1>1. PICK mv \in Candidates(f, g, h, b) : InSearch(mv) /\ best' = mv
  OBVIOUS
<1>2. mv \in Int \X Int
  BY CandidatesAreVectors
<1>q. QED
  BY <1>1, <1>2 DEF InSearch, Vectors, Axes, Search

LEMMA InitSafe ==
  ASSUME IsLayout, Init PROVE IInv
<1>1. Zero \in Vectors
  BY DEF Zero, Vectors, Search
<1>q. QED
  BY <1>1 DEF Init, IInv, FieldBounded, InOrder, Still

LEMMA EstimateSafe ==
  ASSUME IsLayout, IInv, Estimate PROVE IInv'
<1>1. /\ mvs' \in [Grid -> Vectors] /\ mvsPrev' \in [Grid -> Vectors]
      /\ mvsPrev2' \in [Grid -> Vectors]
  BY DEF IInv, FieldBounded, Estimate
<1>2. best' \in Vectors
  BY <1>1, GridFacts, BestInRange DEF Estimate
<1>3. \A q \in Grid : ~ Before(q, Zero)
  BY BlockBounds DEF Before, Zero, Grid, Axes
<1>4. InOrder'
  BY <1>3, GridFacts DEF Estimate, InOrder
<1>q. QED
  BY <1>1, <1>2, <1>4 DEF IInv, FieldBounded

LEMMA RefineSafe ==
  ASSUME IsLayout, IInv, Refine PROVE IInv'
<1>1. best \in Int \X Int
  BY DEF IInv, FieldBounded, Vectors
<1>2. PICK mv \in Around(best) : InSearch(mv) /\ best' = mv
  BY DEF Refine
<1>3. mv \in Int \X Int
  BY <1>1, <1>2 DEF Around
<1>4. best' \in Vectors
  BY <1>2, <1>3 DEF InSearch, Vectors, Axes, Search
<1>q. QED
  BY <1>4 DEF IInv, FieldBounded, InOrder, Refine

(* The block that follows is the first of those not done.                  *)
LEMMA FollowingIsNext ==
  ASSUME IsLayout, NEW b \in Grid
  PROVE  /\ Following(b) \in Grid \union {Idle}
         /\ Following(b) # Idle =>
              {q \in Grid : Before(q, Following(b))} = {q \in Grid : Before(q, b)} \union {b}
<1>1. /\ Blocks(1) \in Nat \ {0} /\ Blocks(2) \in Nat \ {0}
      /\ b[1] \in 0 .. Blocks(1) - 1 /\ b[2] \in 0 .. Blocks(2) - 1 /\ b = <<b[1], b[2]>>
  BY BlockBounds DEF Grid, Axes
<1>2. \A q \in Grid : /\ q[1] \in 0 .. Blocks(1) - 1 /\ q[2] \in 0 .. Blocks(2) - 1
                      /\ q = <<q[1], q[2]>>
  BY DEF Grid
<1>3. CASE Right(b) \in Grid
  <2>1. Following(b) = <<b[1] + 1, b[2]>>
    BY <1>3 DEF Following, Right
  <2>2. \A q \in Grid : Before(q, Following(b)) <=> Before(q, b) \/ q = b
    BY <1>1, <1>2, <2>1 DEF Before
  <2>q. QED
    BY <1>3, <2>1, <2>2 DEF Right
<1>4. CASE Right(b) \notin Grid /\ <<0, b[2] + 1>> \in Grid
  <2>1. Following(b) = <<0, b[2] + 1>>
    BY <1>4 DEF Following
  <2>2. b[1] = Blocks(1) - 1
    BY <1>1, <1>4 DEF Right, Grid
  <2>3. \A q \in Grid : Before(q, Following(b)) <=> Before(q, b) \/ q = b
    BY <1>1, <1>2, <2>1, <2>2 DEF Before
  <2>q. QED
    BY <1>4, <2>1, <2>3
<1>5. CASE Right(b) \notin Grid /\ <<0, b[2] + 1>> \notin Grid
  BY <1>5 DEF Following
<1>q. QED
  BY <1>3, <1>4, <1>5

LEMMA SettleSafe ==
  ASSUME IsLayout, IInv, Settle PROVE IInv'
<1>1. at \in Grid /\ fresh = {q \in Grid : Before(q, at)}
  BY DEF IInv, InOrder, Settle
<1>2. /\ mvs' \in [Grid -> Vectors] /\ mvsPrev' \in [Grid -> Vectors]
      /\ mvsPrev2' \in [Grid -> Vectors]
  BY DEF IInv, FieldBounded, Settle
<1>3. at' = Following(at) /\ fresh' = fresh \union {at}
  BY DEF Settle
<1>4. InOrder'
  BY <1>1, <1>3, FollowingIsNext DEF InOrder
<1>5. best' \in Vectors
  <2>1. CASE at' = Idle
    BY <2>1 DEF Settle, IInv, FieldBounded
  <2>2. CASE at' # Idle
    <3>1. at' \in Grid
      BY <2>2, <1>4 DEF InOrder
    <3>2. mvsPrev \in [Grid -> Vectors] /\ mvsPrev2 \in [Grid -> Vectors]
      BY DEF IInv, FieldBounded
    <3>3. \E mv \in Candidates(mvs', mvsPrev, mvsPrev2, at') : InSearch(mv) /\ best' = mv
      BY <2>2 DEF Settle
    <3>q. QED
      BY <1>2, <3>1, <3>2, <3>3, BestInRange
  <2>q. QED
    BY <2>1, <2>2
<1>q. QED
  BY <1>2, <1>4, <1>5 DEF IInv, FieldBounded

(* In order, what is read as a neighbour has been done.                    *)
LEMMA OrderImpliesFresh ==
  ASSUME IsLayout, IInv PROVE NeighboursFresh
<1> SUFFICES ASSUME at # Idle PROVE Spatial(at) \subseteq fresh
  BY DEF NeighboursFresh
<1>1. at \in Grid /\ fresh = {q \in Grid : Before(q, at)}
  BY DEF IInv, InOrder
<1>2. at[1] \in Int /\ at[2] \in Int
  BY <1>1, BlockBounds DEF Grid, Axes
<1>3. \A q \in Spatial(at) : q \in Grid /\ Before(q, at)
  BY <1>2 DEF Spatial, Before, Left, Above, AboveRight
<1>q. QED
  BY <1>1, <1>3

(* Whatever the frames show, the search keeps its vectors in range, reads  *)
(* neighbours of its own estimate only, and compares windows that lie in   *)
(* the padded planes.                                                      *)
THEOREM SearchSafe ==
  ASSUME IsLayout
  PROVE  Spec => [](FieldBounded /\ NeighboursFresh /\ SearchReadsInside)
<1>1. Init => IInv
  BY InitSafe
<1>2. IInv /\ [Next]_vars => IInv'
  <2> SUFFICES ASSUME IInv, [Next]_vars PROVE IInv'
    OBVIOUS
  <2>1. CASE Estimate
    BY <2>1, EstimateSafe
  <2>2. CASE Refine
    BY <2>2, RefineSafe
  <2>3. CASE Settle
    BY <2>3, SettleSafe
  <2>4. CASE UNCHANGED vars
    BY <2>4 DEF vars, IInv, FieldBounded, InOrder
  <2>q. QED
    BY <2>1, <2>2, <2>3, <2>4 DEF Next
<1>3. IInv => FieldBounded /\ NeighboursFresh /\ SearchReadsInside
  <2> SUFFICES ASSUME IInv PROVE FieldBounded /\ NeighboursFresh /\ SearchReadsInside
    OBVIOUS
  <2>1. SearchReadsInside
    <3> SUFFICES ASSUME at # Idle, NEW mv \in Vectors, NEW sign \in {-1, 1},
                        NEW row \in 0 .. Window - 1
                 PROVE  RowInside(PlaneSize(Luma), CostFrom(at, mv, sign, row)[1],
                                  CostFrom(at, mv, sign, row)[2], Window)
      BY DEF SearchReadsInside
    <3>1. at \in Grid
      BY DEF IInv, InOrder
    <3>q. QED
      BY <3>1, CostReadsInside
  <2>q. QED
    BY <2>1, OrderImpliesFresh DEF IInv
<1>q. QED
  BY <1>1, <1>2, <1>3, PTL DEF Spec

-------------------------------------------------------------------------------
(* The compensation.                                                       *)

Phases == 1 .. AlphaOne - 1

LEMMA TruncatedBounds ==
  ASSUME NEW a \in Int, NEW n \in {1, 2, 256}, NEW k \in Nat, -(n * k + n - 1) <= a, a <= n * k + n - 1
  PROVE  Truncated(a, n) \in Int /\ -k <= Truncated(a, n) /\ Truncated(a, n) <= k
<1>1. CASE n = 1
  BY <1>1 DEF Truncated
<1>2. CASE n = 2
  BY <1>2 DEF Truncated
<1>3. CASE n = 256
  BY <1>3 DEF Truncated
<1>q. QED
  BY <1>1, <1>2, <1>3

(* A part of the full motion is less than twice the vector.                *)
LEMMA PartOfMotion ==
  ASSUME NEW c \in -Search .. Search, NEW alpha \in Phases
  PROVE  /\ ToPrev(c, alpha) \in -63 .. 63
         /\ ToNext(c, alpha) \in -63 .. 63
<1>1. c \in Int /\ -32 <= c /\ c <= 32
  BY DEF Search
<1>2. alpha \in Nat /\ 1 <= alpha /\ alpha <= 255
  BY DEF Phases, AlphaOne
<1>3. \A k \in 1 .. 255 : 2 * c * k \in Int /\ -(64 * k) <= 2 * c * k /\ 2 * c * k <= 64 * k
  <2> SUFFICES ASSUME NEW k \in 1 .. 255
               PROVE  2 * c * k \in Int /\ -(64 * k) <= 2 * c * k /\ 2 * c * k <= 64 * k
    OBVIOUS
  <2>1. (c + 32) * k <= 64 * k
    BY <1>1, TimesMonotone
  <2>2. 0 <= (c + 32) * k
    BY <1>1
  <2>3. (c + 32) * k = c * k + 32 * k
    BY <1>1
  <2>4. 2 * c * k = 2 * (c * k) /\ c * k \in Int
    BY <1>1
  <2>q. QED
    BY <2>1, <2>2, <2>3, <2>4
<1>4. /\ 2 * c * alpha \in Int /\ -16383 <= 2 * c * alpha /\ 2 * c * alpha <= 16383
  BY <1>2, <1>3
<1>5. 256 - alpha \in 1 .. 255
  BY <1>2
<1>6. - (2 * c) * (256 - alpha) = - (2 * c * (256 - alpha))
  BY <1>1, <1>5
<1>7. /\ - (2 * c) * (256 - alpha) \in Int
      /\ -16383 <= - (2 * c) * (256 - alpha) /\ - (2 * c) * (256 - alpha) <= 16383
  BY <1>3, <1>5, <1>6
<1> DEFINE toPrev == 2 * c * alpha
           toNext == - (2 * c) * (256 - alpha)
<1>8. /\ toPrev \in Int /\ -16383 <= toPrev /\ toPrev <= 16383
      /\ toNext \in Int /\ -16383 <= toNext /\ toNext <= 16383
  BY <1>4, <1>7
<1>9. ToPrev(c, alpha) = Truncated(toPrev, 256) /\ ToNext(c, alpha) = Truncated(toNext, 256)
  BY DEF ToPrev, ToNext, AlphaOne
<1> HIDE DEF toPrev, toNext
<1>10. \A a \in Int : -16383 <= a /\ a <= 16383 => Truncated(a, 256) \in -63 .. 63
  <2> SUFFICES ASSUME NEW a \in Int, -16383 <= a, a <= 16383
               PROVE  Truncated(a, 256) \in -63 .. 63
    OBVIOUS
  <2>1. -(256 * 63 + 256 - 1) <= a /\ a <= 256 * 63 + 256 - 1
    OBVIOUS
  <2>2. Truncated(a, 256) \in Int /\ -63 <= Truncated(a, 256) /\ Truncated(a, 256) <= 63
    BY <2>1, TruncatedBounds
  <2>q. QED
    BY <2>2
<1>11. Truncated(toPrev, 256) \in -63 .. 63 /\ Truncated(toNext, 256) \in -63 .. 63
  BY ONLY <1>8, <1>10
<1>q. QED
  BY ONLY <1>9, <1>11

(* Along an axis that is, or is not, subsampled: the sizes.                *)
LEMMA AxisFacts ==
  ASSUME IsLayout, NEW shift \in {Luma, Shift}, NEW d \in Axes
  PROVE  /\ Step(shift, d) \in {1, 2}
         /\ PlaneSize(shift)[d] \in Nat \ {0}
         /\ Size[d] <= Step(shift, d) * PlaneSize(shift)[d]
         /\ Step(shift, d) * PlaneSize(shift)[d] < Size[d] + Step(shift, d)
<1>1. Size[d] \in Nat \ {0}
  BY BlockBounds
<1>2. PlaneSize(shift)[d] = CeilDiv(Size[d], Step(shift, d))
  BY DEF PlaneSize
<1>3. CASE Step(shift, d) = 2
  <2>1. /\ CeilDiv(Size[d], 2) \in Nat
        /\ Size[d] <= 2 * CeilDiv(Size[d], 2) /\ 2 * CeilDiv(Size[d], 2) < Size[d] + 2
    BY <1>1, CeilBounds
  <2>2. PlaneSize(shift)[d] = CeilDiv(Size[d], 2)
    BY <1>2, <1>3
  <2>q. QED
    BY <1>1, <1>3, <2>1, <2>2
<1>4. CASE Step(shift, d) = 1
  BY <1>1, <1>2, <1>4 DEF CeilDiv
<1>5. Step(shift, d) = 1 \/ Step(shift, d) = 2
  BY DEF Step
<1>q. QED
  BY <1>1, <1>3, <1>4, <1>5

(* A block of the ring moves as the nearest of the grid, by a vector in    *)
(* range.                                                                  *)
LEMMA RingMoves ==
  ASSUME IsLayout, FieldBounded, NEW b \in Ring
  PROVE  mvs[Nearest(b)] \in Vectors
<1>1. Nearest(b) \in Grid
  BY BlockBounds DEF Ring, Nearest, Clamped, Grid, Axes
<1>q. QED
  BY <1>1 DEF FieldBounded

(* For every block and the ring around the grid, a vector in range, and a  *)
(* phase: the windows of both frames lie in the reach of the planes'       *)
(* borders, and their sums in the accumulator (motion.rs:392: "so the      *)
(* windows of the border blocks (-1 and blocks_w) fit"), which has no      *)
(* sample to spare.                                                        *)
THEOREM CompensationInside ==
  ASSUME IsLayout, NEW shift \in {Luma, Shift}, NEW b \in Ring, NEW mv \in Vectors,
         NEW alpha \in Phases, NEW d \in Axes
  PROVE  /\ -Pad <= FromPrev(shift, b, mv, alpha, d)
         /\ FromPrev(shift, b, mv, alpha, d) + WindowOf(shift, d) <= PlaneSize(shift)[d] + Pad
         /\ -Pad <= FromNext(shift, b, mv, alpha, d)
         /\ FromNext(shift, b, mv, alpha, d) + WindowOf(shift, d) <= PlaneSize(shift)[d] + Pad
         /\ 0 <= AccAt(shift, b, d)
         /\ AccAt(shift, b, d) + WindowOf(shift, d) <= AccSize(shift, d)
<1>1. b[d] \in Int /\ -1 <= b[d] /\ b[d] <= Blocks(d)
  BY BlockBounds DEF Ring, Axes
<1>2. mv[d] \in -Search .. Search
  BY DEF Vectors, Axes
<1>3. /\ ToPrev(mv[d], alpha) \in Int /\ -63 <= ToPrev(mv[d], alpha) /\ ToPrev(mv[d], alpha) <= 63
      /\ ToNext(mv[d], alpha) \in Int /\ -63 <= ToNext(mv[d], alpha) /\ ToNext(mv[d], alpha) <= 63
  BY <1>2, PartOfMotion
<1>4. /\ Blocks(d) \in Nat /\ 16 * Blocks(d) < Size[d] + 16 /\ Size[d] \in Nat
  BY BlockBounds
<1>5. CASE Step(shift, d) = 1
  <2>1. BlockOf(shift, d) = 16 /\ WindowOf(shift, d) = 32
    BY <1>5 DEF BlockOf, WindowOf, Block, Window
  <2>2. PlaneSize(shift)[d] \in Nat /\ Size[d] <= PlaneSize(shift)[d]
    BY <1>4, <1>5, AxisFacts
  <2>3. /\ Truncated(ToPrev(mv[d], alpha), 1) = ToPrev(mv[d], alpha)
        /\ Truncated(ToNext(mv[d], alpha), 1) = ToNext(mv[d], alpha)
    BY <1>3 DEF Truncated
  <2>4. /\ FromPrev(shift, b, mv, alpha, d) = b[d] * 16 - 8 + ToPrev(mv[d], alpha)
        /\ FromNext(shift, b, mv, alpha, d) = b[d] * 16 - 8 + ToNext(mv[d], alpha)
        /\ AccAt(shift, b, d) = b[d] * 16 - 8 + 24
        /\ AccSize(shift, d) = (Blocks(d) + 3) * 16
    BY <1>1, <1>5, <2>1, <2>3 DEF FromPrev, FromNext, WindowAt, AccAt, AccSize, Offset
  <2>q. QED
    BY <1>1, <1>3, <1>4, <2>1, <2>2, <2>4 DEF Pad
<1>6. CASE Step(shift, d) = 2
  <2>1. BlockOf(shift, d) = 8 /\ WindowOf(shift, d) = 16
    BY <1>6 DEF BlockOf, WindowOf, Block, Window
  <2>2. PlaneSize(shift)[d] \in Nat /\ Size[d] <= 2 * PlaneSize(shift)[d]
    BY <1>4, <1>6, AxisFacts
  <2>3. /\ Truncated(ToPrev(mv[d], alpha), 2) \in Int
        /\ -31 <= Truncated(ToPrev(mv[d], alpha), 2) /\ Truncated(ToPrev(mv[d], alpha), 2) <= 31
        /\ Truncated(ToNext(mv[d], alpha), 2) \in Int
        /\ -31 <= Truncated(ToNext(mv[d], alpha), 2) /\ Truncated(ToNext(mv[d], alpha), 2) <= 31
    <3>1. \A a \in Int : -63 <= a /\ a <= 63 =>
            Truncated(a, 2) \in Int /\ -31 <= Truncated(a, 2) /\ Truncated(a, 2) <= 31
      BY DEF Truncated
    <3>q. QED
      BY <1>3, <3>1
  <2>4. /\ FromPrev(shift, b, mv, alpha, d) = b[d] * 8 - 4 + Truncated(ToPrev(mv[d], alpha), 2)
        /\ FromNext(shift, b, mv, alpha, d) = b[d] * 8 - 4 + Truncated(ToNext(mv[d], alpha), 2)
        /\ AccAt(shift, b, d) = b[d] * 8 - 4 + 12
        /\ AccSize(shift, d) = (Blocks(d) + 3) * 8
    BY <1>1, <1>6, <2>1 DEF FromPrev, FromNext, WindowAt, AccAt, AccSize, Offset
  <2>q. QED
    BY <1>1, <1>3, <1>4, <2>1, <2>2, <2>3, <2>4 DEF Pad
<1>q. QED
  BY <1>5, <1>6, AxisFacts

-------------------------------------------------------------------------------
(* The weights.                                                            *)

(* Rounding an odd number of sixteenths, and its opposite, up and down.    *)
LEMMA OddSixteenths ==
  ASSUME NEW q \in Int, q % 2 = 1, NEW m \in Int
  PROVE  (q + 8) \div 16 + (16 * m - q + 8) \div 16 = m
<1> DEFINE k == q \div 16
           r == q % 16
<1>1. q = 16 * k + r /\ k \in Int /\ r \in 0 .. 15 /\ r % 2 = 1
  OBVIOUS
<1>2. (q + 8) \div 16 = IF r < 8 THEN k ELSE k + 1
  BY <1>1
<1>3. (16 * m - q + 8) \div 16 = m - k + (IF r < 8 THEN 0 ELSE -1)
  <2>1. r # 8
    BY <1>1
  <2>q. QED
    BY <1>1, <2>1
<1>q. QED
  BY <1>1, <1>2, <1>3

LEMMA LumaWeights ==
  ASSUME NEW i \in 0 .. Block - 1, NEW j \in 0 .. Block - 1
  PROVE  Weight(i, j) + Weight(i + Block, j) + Weight(i, j + Block)
           + Weight(i + Block, j + Block) = 256
<1> DEFINE a == 2 * i + 1
           b == 2 * j + 1
           q == a * b
<1>1. i \in Int /\ 0 <= i /\ i <= 15 /\ j \in Int /\ 0 <= j /\ j <= 15
  BY DEF Block
<1>2. a \in Int /\ b \in Int /\ q \in Int
  BY <1>1
<1>3. q % 2 = 1
  <2>1. i * j \in Int
    BY <1>1
  <2>2. q = 2 * (2 * (i * j) + i + j) + 1
    BY <1>1
  <2> HIDE DEF q
  <2>q. QED
    BY <1>1, <2>1, <2>2
<1>4. /\ Tent(i) = a /\ Tent(i + Block) = 32 - a
      /\ Tent(j) = b /\ Tent(j + Block) = 32 - b
  BY <1>1 DEF Tent, Block
<1>5. /\ (32 - a) * b = 16 * (2 * b) - q
      /\ a * (32 - b) = 16 * (2 * a) - q
      /\ (32 - a) * (32 - b) = 16 * (64 - 2 * b) - (16 * (2 * a) - q)
  BY <1>2
<1>6. /\ Weight(i, j) = 4 * ((q + 8) \div 16)
      /\ Weight(i + Block, j) = 4 * ((16 * (2 * b) - q + 8) \div 16)
      /\ Weight(i, j + Block) = 4 * ((16 * (2 * a) - q + 8) \div 16)
      /\ Weight(i + Block, j + Block) = 4 * ((16 * (64 - 2 * b) - (16 * (2 * a) - q) + 8) \div 16)
  BY <1>4, <1>5 DEF Weight
<1> HIDE DEF a, b, q
<1>7. (q + 8) \div 16 + (16 * (2 * b) - q + 8) \div 16 = 2 * b
  BY <1>2, <1>3, OddSixteenths
<1>8. (16 * (2 * a) - q + 8) \div 16
        + (16 * (64 - 2 * b) - (16 * (2 * a) - q) + 8) \div 16 = 64 - 2 * b
  <2>1. 16 * (2 * a) - q \in Int /\ (16 * (2 * a) - q) % 2 = 1
    BY <1>2, <1>3
  <2>2. 64 - 2 * b \in Int
    BY <1>2
  <2>q. QED
    BY <2>1, <2>2, OddSixteenths
<1>q. QED
  BY <1>2, <1>6, <1>7, <1>8

(* The four windows over a sample have weights that sum up to exactly 256  *)
(* (motion.rs:181), in subsampled planes too ("the averages stay exact and *)
(* the four overlapping windows still sum to 256", motion.rs:401).         *)
THEOREM WeightsSum ==
  ASSUME NEW shift \in Subsamplings,
         NEW i \in 0 .. BlockOf(shift, 1) - 1, NEW j \in 0 .. BlockOf(shift, 2) - 1
  PROVE  WeightOf(shift, i, j) + WeightOf(shift, i + BlockOf(shift, 1), j)
           + WeightOf(shift, i, j + BlockOf(shift, 2))
           + WeightOf(shift, i + BlockOf(shift, 1), j + BlockOf(shift, 2)) = 256
<1> DEFINE Quarter(k, l) == (Tent(k) * Tent(l) + 8) \div 16
<1>1. \A k, l \in 0 .. Window - 1 : Weight(k, l) = 4 * Quarter(k, l) /\ Quarter(k, l) \in Int
  <2>1. \A k \in 0 .. Window - 1 : Tent(k) \in Int
    BY DEF Tent, Window, Block
  <2>2. \A m, n \in Int : (m * n + 8) \div 16 \in Int
    OBVIOUS
  <2>q. QED
    BY <2>1, <2>2 DEF Weight
<1>2. \A k, l \in 0 .. 15 : Weight(k, l) + Weight(k + 16, l) + Weight(k, l + 16)
                              + Weight(k + 16, l + 16) = 256
  BY LumaWeights DEF Block
<1> HIDE DEF Quarter
<1>3. CASE shift = <<0, 0>>
  <2>1. BlockOf(shift, 1) = 16 /\ BlockOf(shift, 2) = 16
    BY <1>3 DEF BlockOf, Block, Step
  <2>q. QED
    BY <1>2, <1>3, <2>1 DEF WeightOf
<1>4. CASE shift = <<1, 0>>
  <2>1. BlockOf(shift, 1) = 8 /\ BlockOf(shift, 2) = 16
    BY <1>4 DEF BlockOf, Block, Step
  <2>2. i \in 0 .. 7 /\ j \in 0 .. 15
    BY <2>1
  <2>3. \A k \in 0 .. 15, l \in 0 .. 31 :
          WeightOf(shift, k, l) = 2 * Quarter(2 * k, l) + 2 * Quarter(2 * k + 1, l)
    BY <1>1, <1>4, SMTT(30) DEF WeightOf, Window
  <2>4. /\ WeightOf(shift, i, j) = 2 * Quarter(2 * i, j) + 2 * Quarter(2 * i + 1, j)
        /\ WeightOf(shift, i + 8, j) = 2 * Quarter(2 * i + 16, j) + 2 * Quarter(2 * i + 1 + 16, j)
        /\ WeightOf(shift, i, j + 16)
             = 2 * Quarter(2 * i, j + 16) + 2 * Quarter(2 * i + 1, j + 16)
        /\ WeightOf(shift, i + 8, j + 16)
             = 2 * Quarter(2 * i + 16, j + 16) + 2 * Quarter(2 * i + 1 + 16, j + 16)
    BY <2>2, <2>3
  <2>5. \A k \in {2 * i, 2 * i + 1} :
          4 * Quarter(k, j) + 4 * Quarter(k + 16, j) + 4 * Quarter(k, j + 16)
            + 4 * Quarter(k + 16, j + 16) = 256
    BY <1>1, <1>2, <2>2 DEF Window
  <2>6. \A k \in {2 * i, 2 * i + 1} :
          /\ Quarter(k, j) \in Int /\ Quarter(k + 16, j) \in Int
          /\ Quarter(k, j + 16) \in Int /\ Quarter(k + 16, j + 16) \in Int
    BY <1>1, <2>2 DEF Window
  <2>q. QED
    BY <2>1, <2>4, <2>5, <2>6
<1>5. CASE shift = <<1, 1>>
  <2>1. BlockOf(shift, 1) = 8 /\ BlockOf(shift, 2) = 8
    BY <1>5 DEF BlockOf, Block, Step
  <2>2. i \in 0 .. 7 /\ j \in 0 .. 7
    BY <2>1
  <2>3. \A k \in 0 .. 15, l \in 0 .. 15 :
          WeightOf(shift, k, l) = Quarter(2 * k, 2 * l) + Quarter(2 * k + 1, 2 * l)
                                    + Quarter(2 * k, 2 * l + 1) + Quarter(2 * k + 1, 2 * l + 1)
    <3> SUFFICES ASSUME NEW k \in 0 .. 15, NEW l \in 0 .. 15
                 PROVE  WeightOf(shift, k, l)
                          = Quarter(2 * k, 2 * l) + Quarter(2 * k + 1, 2 * l)
                              + Quarter(2 * k, 2 * l + 1) + Quarter(2 * k + 1, 2 * l + 1)
      OBVIOUS
    <3>1. \A m \in {2 * k, 2 * k + 1}, n \in {2 * l, 2 * l + 1} :
            Weight(m, n) = 4 * Quarter(m, n) /\ Quarter(m, n) \in Int
      BY <1>1 DEF Window
    <3>2. WeightOf(shift, k, l)
            = (Weight(2 * k, 2 * l) + Weight(2 * k + 1, 2 * l)
                + Weight(2 * k, 2 * l + 1) + Weight(2 * k + 1, 2 * l + 1)) \div 4
      BY <1>5 DEF WeightOf
    <3>q. QED
      BY <3>1, <3>2
  <2> DEFINE Four(k, l) == Quarter(k, l) + Quarter(k + 16, l) + Quarter(k, l + 16)
                             + Quarter(k + 16, l + 16)
  <2>4. \A k \in {2 * i, 2 * i + 1}, l \in {2 * j, 2 * j + 1} :
          /\ Quarter(k, l) \in Int /\ Quarter(k + 16, l) \in Int
          /\ Quarter(k, l + 16) \in Int /\ Quarter(k + 16, l + 16) \in Int
    BY <1>1, <2>2 DEF Window
  <2>5. \A k \in {2 * i, 2 * i + 1}, l \in {2 * j, 2 * j + 1} :
          4 * Quarter(k, l) + 4 * Quarter(k + 16, l) + 4 * Quarter(k, l + 16)
            + 4 * Quarter(k + 16, l + 16) = 256
    BY <1>1, <1>2, <2>2 DEF Window
  <2>6. \A k \in {2 * i, 2 * i + 1}, l \in {2 * j, 2 * j + 1} : Four(k, l) = 64
    BY <2>4, <2>5
  <2>7. /\ WeightOf(shift, i, j)
             = Quarter(2 * i, 2 * j) + Quarter(2 * i + 1, 2 * j)
                 + Quarter(2 * i, 2 * j + 1) + Quarter(2 * i + 1, 2 * j + 1)
        /\ WeightOf(shift, i + 8, j)
             = Quarter(2 * i + 16, 2 * j) + Quarter(2 * i + 1 + 16, 2 * j)
                 + Quarter(2 * i + 16, 2 * j + 1) + Quarter(2 * i + 1 + 16, 2 * j + 1)
        /\ WeightOf(shift, i, j + 8)
             = Quarter(2 * i, 2 * j + 16) + Quarter(2 * i + 1, 2 * j + 16)
                 + Quarter(2 * i, 2 * j + 1 + 16) + Quarter(2 * i + 1, 2 * j + 1 + 16)
        /\ WeightOf(shift, i + 8, j + 8)
             = Quarter(2 * i + 16, 2 * j + 16) + Quarter(2 * i + 1 + 16, 2 * j + 16)
                 + Quarter(2 * i + 16, 2 * j + 1 + 16) + Quarter(2 * i + 1 + 16, 2 * j + 1 + 16)
    BY <2>2, <2>3
  <2>q. QED
    BY <2>1, <2>4, <2>6, <2>7
<1>q. QED
  BY <1>3, <1>4, <1>5 DEF Subsamplings

(* Along an axis a sample of the plane is under two blocks' windows, those *)
(* of a block n and of the one before it, at i and at a block more: with   *)
(* WeightsSum, the weights that meet in a sample are a whole.              *)
THEOREM EverySampleCovered ==
  ASSUME IsLayout, NEW shift \in {Luma, Shift}, NEW d \in Axes,
         NEW x \in 0 .. PlaneSize(shift)[d] - 1
  PROVE  \E n \in 0 .. Blocks(d), i \in 0 .. BlockOf(shift, d) - 1 :
           \A b \in Ring :
             /\ b[d] = n => AccAt(shift, b, d) + i = x + Offset(shift, d)
             /\ b[d] = n - 1 =>
                  AccAt(shift, b, d) + i + BlockOf(shift, d) = x + Offset(shift, d)
             /\ b[d] \notin {n - 1, n} =>
                  \/ x + Offset(shift, d) < AccAt(shift, b, d)
                  \/ AccAt(shift, b, d) + WindowOf(shift, d) <= x + Offset(shift, d)
<1>1. \A b \in Ring : b[d] \in Int /\ -1 <= b[d] /\ b[d] <= Blocks(d)
  BY BlockBounds DEF Ring, Axes
<1>2. /\ Blocks(d) \in Nat /\ Size[d] <= 16 * Blocks(d) /\ Size[d] \in Nat
  BY BlockBounds
<1>3. CASE Step(shift, d) = 1
  <2>1. BlockOf(shift, d) = 16 /\ WindowOf(shift, d) = 32 /\ Offset(shift, d) = 24
    BY <1>3 DEF BlockOf, WindowOf, Offset, Block, Window
  <2>2. \A b \in Ring : AccAt(shift, b, d) = 16 * b[d] + 16
    BY <1>1, <2>1 DEF AccAt, WindowAt
  <2>3. PlaneSize(shift)[d] = Size[d]
    BY <1>2, <1>3 DEF PlaneSize, CeilDiv
  <2>4. (x + 8) \div 16 \in 0 .. Blocks(d) /\ (x + 8) % 16 \in 0 .. 15
    BY <1>2, <2>3
  <2>5. x + 8 = 16 * ((x + 8) \div 16) + ((x + 8) % 16)
    BY <1>2, <2>3
  <2> DEFINE n == (x + 8) \div 16
             i == (x + 8) % 16
  <2> HIDE DEF n, i
  <2>6. n \in 0 .. Blocks(d) /\ i \in 0 .. 15 /\ x + 8 = 16 * n + i
    BY <2>4, <2>5 DEF n, i
  <2>7. x \in Int
    BY <1>2, <2>3
  <2>8. \A b \in Ring :
          /\ b[d] = n => 16 * b[d] + 16 + i = x + 24
          /\ b[d] = n - 1 => 16 * b[d] + 16 + i + 16 = x + 24
          /\ b[d] \notin {n - 1, n} =>
               x + 24 < 16 * b[d] + 16 \/ 16 * b[d] + 16 + 32 <= x + 24
    <3>1. n \in Int /\ i \in Int /\ 0 <= i /\ i < 16 /\ x + 8 = 16 * n + i
      BY <1>2, <2>6
    <3>2. \A m \in Int :
            /\ m = n => 16 * m + 16 + i = x + 24
            /\ m = n - 1 => 16 * m + 16 + i + 16 = x + 24
            /\ m \notin {n - 1, n} => x + 24 < 16 * m + 16 \/ 16 * m + 16 + 32 <= x + 24
      BY <2>7, <3>1
    <3>q. QED
      BY <1>1, <3>2
  <2>q. QED
    BY <2>1, <2>2, <2>6, <2>8
<1>4. CASE Step(shift, d) = 2
  <2>1. BlockOf(shift, d) = 8 /\ WindowOf(shift, d) = 16 /\ Offset(shift, d) = 12
    BY <1>4 DEF BlockOf, WindowOf, Offset, Block, Window
  <2>2. \A b \in Ring : AccAt(shift, b, d) = 8 * b[d] + 8
    BY <1>1, <2>1 DEF AccAt, WindowAt
  <2>3. PlaneSize(shift)[d] \in Nat /\ 2 * PlaneSize(shift)[d] < Size[d] + 2
    BY <1>4, AxisFacts
  <2>4. (x + 4) \div 8 \in 0 .. Blocks(d) /\ (x + 4) % 8 \in 0 .. 7
    BY <1>2, <2>3
  <2>5. x + 4 = 8 * ((x + 4) \div 8) + ((x + 4) % 8)
    BY <1>2, <2>3
  <2> DEFINE n == (x + 4) \div 8
             i == (x + 4) % 8
  <2> HIDE DEF n, i
  <2>6. n \in 0 .. Blocks(d) /\ i \in 0 .. 7 /\ x + 4 = 8 * n + i
    BY <2>4, <2>5 DEF n, i
  <2>7. x \in Int
    BY <1>2, <2>3
  <2>8. \A b \in Ring :
          /\ b[d] = n => 8 * b[d] + 8 + i = x + 12
          /\ b[d] = n - 1 => 8 * b[d] + 8 + i + 8 = x + 12
          /\ b[d] \notin {n - 1, n} =>
               x + 12 < 8 * b[d] + 8 \/ 8 * b[d] + 8 + 16 <= x + 12
    <3>1. n \in Int /\ i \in Int /\ 0 <= i /\ i < 8 /\ x + 4 = 8 * n + i
      BY <1>2, <2>6
    <3>2. \A m \in Int :
            /\ m = n => 8 * m + 8 + i = x + 12
            /\ m = n - 1 => 8 * m + 8 + i + 8 = x + 12
            /\ m \notin {n - 1, n} => x + 12 < 8 * m + 8 \/ 8 * m + 8 + 16 <= x + 12
      BY <2>7, <3>1
    <3>q. QED
      BY <1>1, <3>2
  <2>q. QED
    BY <2>1, <2>2, <2>6, <2>8
<1>q. QED
  BY <1>3, <1>4, AxisFacts

-------------------------------------------------------------------------------
(* The sums.                                                               *)

LEMMA TimesBetween ==
  ASSUME NEW w \in Nat, NEW lo \in Nat, NEW hi \in Nat, NEW p \in lo .. hi
  PROVE  w * p \in Nat /\ lo * w <= w * p /\ w * p <= hi * w
<1>1. p \in Nat /\ lo <= p /\ p <= hi /\ w * p = p * w /\ p * w \in Nat
  OBVIOUS
<1>2. lo * w <= p * w /\ p * w <= hi * w
  BY <1>1, TimesMonotone
<1>q. QED
  BY <1>1, <1>2

(* The proportion of two samples fits the bits it is summed in, and is     *)
(* between the two.                                                        *)
THEOREM MixFits ==
  ASSUME NEW depth \in Depths, NEW lo \in 0 .. Levels(depth) - 1, NEW hi \in lo .. Levels(depth) - 1,
         NEW a \in lo .. hi, NEW b \in lo .. hi, NEW alpha \in Phases
  PROVE  MixedSum(a, b, alpha) < 256 * Levels(depth) /\ MixedSample(a, b, alpha) \in lo .. hi
<1>1. /\ alpha \in Nat /\ 256 - alpha \in Nat /\ lo \in Nat /\ hi \in Nat /\ lo <= hi
      /\ hi < Levels(depth) /\ Levels(depth) \in Nat
  BY DEF Phases, AlphaOne, Levels, Depths
<1>2. /\ (256 - alpha) * a \in Nat
      /\ lo * (256 - alpha) <= (256 - alpha) * a /\ (256 - alpha) * a <= hi * (256 - alpha)
  BY <1>1, TimesBetween
<1>3. alpha * b \in Nat /\ lo * alpha <= alpha * b /\ alpha * b <= hi * alpha
  BY <1>1, TimesBetween
<1>4. /\ lo * (256 - alpha) + lo * alpha = 256 * lo
      /\ hi * (256 - alpha) + hi * alpha = 256 * hi
      /\ lo * alpha \in Int /\ hi * alpha \in Int
      /\ lo * (256 - alpha) \in Int /\ hi * (256 - alpha) \in Int
  BY <1>1
<1> DEFINE sum == (256 - alpha) * a + alpha * b
<1>5. sum \in Nat /\ 256 * lo <= sum /\ sum <= 256 * hi
  <2>1. \A s, t, ls, lt, hs, ht \in Int :
          ls <= s /\ s <= hs /\ lt <= t /\ t <= ht => ls + lt <= s + t /\ s + t <= hs + ht
    OBVIOUS
  <2>q. QED
    BY <1>2, <1>3, <1>4, <2>1
<1>6. MixedSum(a, b, alpha) = sum + 128
  BY DEF MixedSum, AlphaOne
<1> HIDE DEF sum
<1>7. (sum + 128) \div 256 \in lo .. hi
  BY <1>1, <1>5
<1>q. QED
  BY <1>1, <1>5, <1>6, <1>7 DEF MixedSample

(* Four samples under weights that sum up to a whole fit the 16 bits of    *)
(* the accumulator (motion.rs:439: "Window weights at a pixel sum to 256,  *)
(* so this stays below 256 * 256"), and what comes out is between them:    *)
(* where all four agree the picture is left as it is, and no block's edge  *)
(* shows.                                                                  *)
THEOREM BlendFits ==
  ASSUME NEW lo \in 0 .. 255, NEW hi \in lo .. 255,
         NEW w1 \in Nat, NEW w2 \in Nat, NEW w3 \in Nat, NEW w4 \in Nat,
         w1 + w2 + w3 + w4 = 256,
         NEW p1 \in lo .. hi, NEW p2 \in lo .. hi, NEW p3 \in lo .. hi, NEW p4 \in lo .. hi
  PROVE  /\ w1 * p1 + w2 * p2 + w3 * p3 + w4 * p4 < U16
         /\ OutputSample(w1 * p1 + w2 * p2 + w3 * p3 + w4 * p4) \in lo .. hi
<1>1. lo \in Nat /\ hi \in Nat /\ lo <= hi /\ hi <= 255
  OBVIOUS
<1>2. /\ w1 * p1 \in Nat /\ lo * w1 <= w1 * p1 /\ w1 * p1 <= hi * w1
      /\ w2 * p2 \in Nat /\ lo * w2 <= w2 * p2 /\ w2 * p2 <= hi * w2
      /\ w3 * p3 \in Nat /\ lo * w3 <= w3 * p3 /\ w3 * p3 <= hi * w3
      /\ w4 * p4 \in Nat /\ lo * w4 <= w4 * p4 /\ w4 * p4 <= hi * w4
  BY <1>1, TimesBetween
<1>3. \A k \in Nat : k * w1 + k * w2 + k * w3 + k * w4 = k * 256
  <2> SUFFICES ASSUME NEW k \in Nat PROVE k * w1 + k * w2 + k * w3 + k * w4 = k * 256
    OBVIOUS
  <2>1. k * w1 + k * w2 + k * w3 + k * w4 = k * (w1 + w2 + w3 + w4)
    OBVIOUS
  <2>q. QED
    BY <2>1
<1>4. /\ lo * w1 \in Nat /\ lo * w2 \in Nat /\ lo * w3 \in Nat /\ lo * w4 \in Nat
      /\ hi * w1 \in Nat /\ hi * w2 \in Nat /\ hi * w3 \in Nat /\ hi * w4 \in Nat
  BY <1>1
<1> DEFINE sum == w1 * p1 + w2 * p2 + w3 * p3 + w4 * p4
<1>5. lo * w1 + lo * w2 + lo * w3 + lo * w4 <= sum
  BY <1>2, <1>4
<1>6. sum \in Nat /\ sum <= hi * w1 + hi * w2 + hi * w3 + hi * w4
  BY <1>2, <1>4
<1> HIDE DEF sum
<1>7. sum \in Nat /\ 256 * lo <= sum /\ sum <= 256 * hi
  BY <1>1, <1>3, <1>5, <1>6
<1>8. sum < U16 /\ (sum + 128) \div 256 \in lo .. hi
  BY <1>1, <1>7 DEF U16
<1>q. QED
  BY <1>8 DEF OutputSample, sum

-------------------------------------------------------------------------------
(* Two frames that the caller has as tensors.                              *)

LEMMA Division ==
  ASSUME NEW n \in Nat, NEW k \in Nat \ {0}
  PROVE  /\ n \div k \in Int /\ n % k \in Int
         /\ 0 <= n % k /\ n % k < k
         /\ n = k * (n \div k) + (n % k)
OBVIOUS

(* Every alpha that is accepted becomes a phase the interpolator may be    *)
(* given ("debug_assert!(alpha > 0 && alpha < ALPHA_ONE)", motion.rs:366), *)
(* and is off by half a step, or by one where it is clamped.               *)
THEOREM PhaseInside ==
  ASSUME NEW num \in Nat, NEW den \in Nat, IsBetween(num, den)
  PROVE  /\ Phase(num, den) \in 1 .. AlphaOne - 1
         /\ 2 * AlphaOne * num - 2 * den < 2 * den * Phase(num, den)
         /\ 2 * den * Phase(num, den) < 2 * AlphaOne * num + 2 * den
<1> DEFINE n == 2 * AlphaOne * num + den
           q == n \div (2 * den)
           r == n % (2 * den)
<1>1. den \in Nat \ {0} /\ num < den /\ 0 < num
  BY DEF IsBetween
<1>2. n \in Nat
  BY <1>1 DEF AlphaOne
<1> HIDE DEF n
<1>3. q \in Int /\ r \in Int /\ 0 <= r /\ r < 2 * den /\ n = (2 * den) * q + r
  <2>1. 2 * den \in Nat \ {0}
    BY <1>1
  <2>q. QED
    BY <1>2, <2>1, Division
<1> HIDE DEF q, r
<1>4. n = 512 * num + den
  BY DEF n, AlphaOne
<1>5. Phase(num, den) = Clamped(q, 1, 255)
  BY DEF Phase, q, n, AlphaOne
<1>6. (2 * den) * q = 2 * (den * q) /\ den * q \in Int
  BY <1>1, <1>3
<1>7. CASE q < 1
  <2>1. Clamped(q, 1, 255) = 1
    BY <1>7 DEF Clamped
  <2>2. q * den <= 0
    <3>1. -q \in Nat
      BY <1>3, <1>7
    <3>2. (-q) * den = - (q * den) /\ q * den \in Int
      BY <1>1, <1>3
    <3>3. 0 * den <= (-q) * den
      BY <1>1, <3>1, TimesMonotone
    <3>q. QED
      BY <1>1, <3>2, <3>3
  <2>3. 512 * num + den < 2 * den
    BY <1>1, <1>3, <1>4, <1>6, <2>2
  <2>q. QED
    BY <1>1, <1>5, <2>1, <2>3 DEF AlphaOne
<1>8. CASE q > 255
  <2>1. Clamped(q, 1, 255) = 255
    BY <1>3, <1>8 DEF Clamped
  <2>2. 256 * den <= q * den
    BY <1>1, <1>3, <1>8, TimesMonotone
  <2>3. 512 * den <= 512 * num + den
    BY <1>1, <1>3, <1>4, <1>6, <2>2
  <2>q. QED
    BY <1>1, <1>5, <2>1, <2>3 DEF AlphaOne
<1>9. CASE 1 <= q /\ q <= 255
  <2>1. Clamped(q, 1, 255) = q
    BY <1>3, <1>9 DEF Clamped
  <2>2. 2 * den * q = 512 * num + den - r
    BY <1>1, <1>3, <1>4, <1>6
  <2>q. QED
    BY <1>1, <1>3, <1>5, <1>9, <2>1, <2>2 DEF AlphaOne
<1>q. QED
  BY <1>3, <1>7, <1>8, <1>9

(* Every sample of a frame is written where the tensor that is returned    *)
(* has it, inside the frame's slot, and slots follow one another.          *)
THEOREM SlotsAreFrames ==
  ASSUME NEW g \in Geometries, NEW i \in Nat, NEW c \in 0 .. 2,
         NEW y \in 0 .. g.h - 1, NEW x \in 0 .. g.w - 1
  PROVE  /\ SlotAt(g, i, c, y, x) = ResultAt(g, i, c, y, x)
         /\ Slot(g, i) <= SlotAt(g, i, c, y, x) /\ SlotAt(g, i, c, y, x) < Slot(g, i + 1)
<1> DEFINE p == g.h * g.w
<1>1. g.h \in Nat \ {0} /\ g.w \in Nat \ {0}
  BY DEF Geometries
<1>2. p \in Nat /\ y * g.w \in Nat /\ y * g.w + x < p
  <2>1. (y + 1) * g.w <= g.h * g.w
    BY <1>1, TimesMonotone
  <2>2. (y + 1) * g.w = y * g.w + g.w /\ y * g.w \in Nat /\ g.h * g.w \in Nat
    BY <1>1
  <2>q. QED
    BY <1>1, <2>1, <2>2
<1>3. (i * 3 + c) * p = i * (3 * p) + c * p
  BY <1>2
<1>4. ((i * 3 + c) * g.h + y) * g.w = (i * 3 + c) * p + y * g.w
  BY <1>1
<1>5. /\ Slot(g, i) = i * (3 * p) /\ Slot(g, i + 1) = (i + 1) * (3 * p)
      /\ SlotAt(g, i, c, y, x) = i * (3 * p) + c * p + (y * g.w + x)
      /\ ResultAt(g, i, c, y, x) = ((i * 3 + c) * g.h + y) * g.w + x
  BY DEF Slot, SlotAt, ResultAt
<1> HIDE DEF p
<1>6. /\ i * (3 * p) \in Nat /\ (i + 1) * (3 * p) = i * (3 * p) + 3 * p
      /\ c * p \in Nat /\ c * p <= 2 * p
  BY <1>2
<1>q. QED
  BY <1>2, <1>3, <1>4, <1>5, <1>6

(* Of a tensor of either layout, every sample copied is one of its bytes,  *)
(* and has its place in the frame's span (pairwise.rs:75), in a row of     *)
(* its own whatever the stride.                                            *)
THEOREM SamplesInside ==
  ASSUME NEW g \in Geometries, NEW stride \in Nat, 3 * g.w <= stride, NEW c \in 0 .. 2,
         NEW y \in 0 .. g.h - 1, NEW x \in 0 .. g.w - 1
  PROVE  /\ TensorAt(g, c, y, x) \in 0 .. 3 * (g.h * g.w) - 1
         /\ FrameAt(stride, c, y, x) \in 0 .. Span(stride, g) - 1
         /\ FrameAt(stride, c, y, x) < (y + 1) * stride
<1>1. g.h \in Nat \ {0} /\ g.w \in Nat \ {0}
  BY DEF Geometries
<1> DEFINE p == g.h * g.w
           place == y * g.w + x
<1>2. p \in Nat /\ place \in Nat /\ place < p
  <2>1. (y + 1) * g.w <= g.h * g.w
    BY <1>1, TimesMonotone
  <2>2. (y + 1) * g.w = y * g.w + g.w /\ y * g.w \in Nat /\ g.h * g.w \in Nat
    BY <1>1
  <2>q. QED
    BY <1>1, <2>1, <2>2
<1>3. TensorAt(g, c, y, x) = IF g.interleaved THEN place * 3 + c ELSE c * p + place
  <2>1. y * g.w \in Int /\ c * (g.h * g.w) \in Int
    BY <1>1
  <2>q. QED
    BY <2>1 DEF TensorAt
<1> HIDE DEF p, place
<1>4. c * p \in Nat /\ c * p <= 2 * p
  BY <1>2
<1>5. IF g.interleaved THEN place * 3 + c \in 0 .. 3 * p - 1 ELSE c * p + place \in 0 .. 3 * p - 1
  BY <1>2, <1>4
<1>6. TensorAt(g, c, y, x) \in 0 .. 3 * p - 1
  BY <1>3, <1>5
<1>7. y * stride <= (g.h - 1) * stride
  BY <1>1, TimesMonotone
<1>8. /\ (g.h - 1) * stride = stride * (g.h - 1) /\ y * stride \in Nat
      /\ stride * (g.h - 1) \in Nat /\ (y + 1) * stride = y * stride + stride
  BY <1>1
<1>9. /\ FrameAt(stride, c, y, x) = y * stride + 3 * x + c
      /\ Span(stride, g) = stride * (g.h - 1) + 3 * g.w
  BY DEF FrameAt, Span
<1>10. 3 * x + c \in Nat /\ 3 * x + c < 3 * g.w
  BY <1>1
<1>11. /\ FrameAt(stride, c, y, x) \in 0 .. Span(stride, g) - 1
       /\ FrameAt(stride, c, y, x) < (y + 1) * stride
  BY <1>1, <1>7, <1>8, <1>9, <1>10
<1>q. QED
  BY <1>6, <1>11 DEF p
===============================================================================
