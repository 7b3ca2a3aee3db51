------------------------------ MODULE FilterChain ------------------------------
(***************************************************************************)
(* The filters a video stream's frames go through (mod.rs): what a request *)
(* and a stream make of a filter configuration, the chain of filters it is *)
(* printed as, and -- external to the code -- what each of FFmpeg's        *)
(* filters does to a frame, as far as the chain's comments and options     *)
(* rely on it.                                                             *)
(*                                                                         *)
(* A frame is what the chain can tell of it: its size, its pixel format,   *)
(* its colour tags, and marks of what was done to it.  A picture's         *)
(* orientation is a matrix <<a, b, c, d>> that sends (x, y) to             *)
(* (ax + cy, bx + dy), as entries 0, 1, 3 and 4 of a display matrix.       *)
(***************************************************************************)
EXTENDS Common, Sequences

CONSTANT None        \* an option not given, a tag missing

When(condition, filter) == IF condition THEN <<filter>> ELSE <<>>
Given(option, default)  == IF option = None THEN default ELSE option

-------------------------------------------------------------------------------
(* Pixel formats: planar YUV by its subsampling (log2 of each axis),       *)
(* whether its name says full range, and whether it is deeper than 8 bits. *)

Yuv(sub, full, deep) == [kind |-> "yuv", sub |-> sub, full |-> full, deep |-> deep]
Rgb(kind)            == [kind |-> kind]     \* "rgb24", "gbrp", "gbrpf32le"
Gray                 == [kind |-> "gray"]

IsRgb(format)   == format.kind \in {"rgb24", "gbrp", "gbrpf32le"}
Whole           == <<0, 0>>
Subsampled(format) == format.kind = "yuv" /\ format.sub # Whole
IsFormat(format) ==
  \/ format \in {Gray} \union {Rgb(kind) : kind \in {"rgb24", "gbrp", "gbrpf32le"}}
  \/ /\ format = Yuv(format.sub, format.full, format.deep) /\ format.sub \in Nat \X Nat
     /\ {format.full, format.deep} \subseteq BOOLEAN /\ ~ (format.full /\ format.deep)
Aligned(format, w, h) == w % (2 ^ format.sub[1]) = 0 /\ h % (2 ^ format.sub[2]) = 0

(* SourceFormat::new and upsample_for: the 4:4:4 format that a frame of    *)
(* this size has to be converted to first, if any.                         *)
UpsampleNever(format, w, h) == <<>>      \* mutant: zimg sees odd 4:2:0 frames
UpsampleFor(format, w, h) ==
  When(Subsampled(format) /\ ~ Aligned(format, w, h),
       [op |-> "format", to |-> Yuv(Whole, format.full, format.deep)])

(* working_pixel_format, motion_working_format, deep_working_format.       *)
WorkingFormat(format) ==
  CASE IsRgb(format)        -> Yuv(Whole, FALSE, FALSE)
    [] format.kind = "gray" -> Yuv(Whole, FALSE, FALSE)
    [] OTHER                -> IF format.sub \in {<<1, 0>>, Whole, <<1, 1>>}
                               THEN Yuv(format.sub, format.full, FALSE)
                               ELSE Yuv(<<1, 1>>, FALSE, FALSE)
MotionWorkingFormat(config, stream) ==
  LET resized == config.size # None /\ config.size # <<config.source.w, config.source.h>>
      working == WorkingFormat(stream.format)
      kept    == IF resized \/ config.tonemaps THEN [working EXCEPT !.sub = Whole] ELSE working
  IN  IF config.fps = "blend" /\ stream.format.kind = "yuv" /\ stream.format.deep
      THEN Yuv(kept.sub, FALSE, TRUE) ELSE kept

-------------------------------------------------------------------------------
(* Orientation.                                                            *)

Upright == <<1, 0, 0, 1>>
After(m, n) ==      \* n first, then m
  <<m[1] * n[1] + m[3] * n[2], m[2] * n[1] + m[4] * n[2],
    m[1] * n[3] + m[3] * n[4], m[2] * n[3] + m[4] * n[4]>>
Turn == [clock |-> <<0, 1, -1, 0>>, cclock |-> <<0, -1, 1, 0>>,
         cclock_flip |-> <<0, 1, 1, 0>>, clock_flip |-> <<0, -1, -1, 0>>,
         hflip |-> <<-1, 0, 0, 1>>, vflip |-> <<1, 0, 0, -1>>]
Transposes == {"clock", "cclock", "cclock_flip", "clock_flip"}
DisplayMatrices == {Upright, <<-1, 0, 0, -1>>} \cup {Turn[t] : t \in DOMAIN Turn}

Rotate(turn) == [op |-> "turn", turn |-> turn]

(* autorotate_filters, by the clockwise angle of the matrix: 90, 180, 270, *)
(* 0.  Other angles, which the `rotate` filter takes, are left out.        *)
AutorotateFilters(m) ==
  CASE m[1] = 0 /\ m[2] > 0 -> <<Rotate(IF m[3] > 0 THEN "cclock_flip" ELSE "clock")>>
    [] m[1] < 0 /\ m[2] = 0 -> When(m[1] < 0, Rotate("hflip")) \o When(m[4] < 0, Rotate("vflip"))
    [] m[1] = 0 /\ m[2] < 0 -> <<Rotate(IF m[3] < 0 THEN "clock_flip" ELSE "cclock")>>
    [] OTHER                -> When(m[4] < 0, Rotate("vflip"))

SwapsDimensions(filters) == filters # <<>> /\ filters[1].turn \in Transposes
RequestedRotation(request, stream) ==
  IF request.autorotate THEN AutorotateFilters(stream.display) ELSE <<>>

-------------------------------------------------------------------------------
(* Sizes.  A size is <<width, height>>.                                    *)

Swapped(size) == <<size[2], size[1]>>
Even(n) == MaxOf(2 * (n \div 2), 2)

(* resolve_output_size: a lone side keeps the aspect ratio.                *)
ResolveOutputSize(size, request) ==
  LET Scaled(n, a, b) == IF b > 0 THEN MaxOf((n * a + b \div 2) \div b, 1) ELSE a
  IN  CASE request.width # None /\ request.height # None -> <<request.width, request.height>>
        [] request.width # None /\ request.height = None ->
             <<request.width, Scaled(request.width, size[2], size[1])>>
        [] request.width = None /\ request.height # None ->
             <<Scaled(request.height, size[1], size[2]), request.height>>
        [] OTHER -> size

(* The size plan_video_stream plans the tensor's rows with.                *)
Displayed(request, stream) ==
  IF SwapsDimensions(RequestedRotation(request, stream))
  THEN Swapped(<<stream.w, stream.h>>) ELSE <<stream.w, stream.h>>
PlannedSize(request, stream) == ResolveOutputSize(Displayed(request, stream), request)

Resizes(request) == request.width # None \/ request.height # None

(* The size the filters resize to, computed apart when decoding.           *)
GraphSizeUnturned(request, stream) ==     \* mutant: the asked size is of the coded frame
  IF Resizes(request) THEN ResolveOutputSize(<<stream.w, stream.h>>, request) ELSE None
GraphSize(request, stream) ==
  IF Resizes(request) THEN ResolveOutputSize(Displayed(request, stream), request) ELSE None

(* compute_hw_resize: None unless NVDEC can scale down to it.              *)
HwResize(request, stream) ==
  LET to   == ResolveOutputSize(<<stream.w, stream.h>>, request)
      even == <<Even(to[1]), Even(to[2])>>
  IN  IF Resizes(request) /\ even[1] < stream.w /\ even[2] < stream.h THEN even ELSE None

HwDecoded(request) == request.hw = "yes" \/ request.device

(* The size of the frames the decoder gives.                               *)
DecodedSize(request, stream) ==
  IF HwDecoded(request) /\ RequestedRotation(request, stream) = <<>>
  THEN Given(HwResize(request, stream), <<stream.w, stream.h>>)
  ELSE <<stream.w, stream.h>>

-------------------------------------------------------------------------------
(* The filter configuration.                                               *)

IsHdr(stream) == stream.trc = "pq" \/ stream.primaries = "bt2020"

(* is_integer_downsample: keeping every n-th frame reaches the rate, give  *)
(* or take two in a thousand.                                              *)
IsIntegerDownsample(source, target) ==
  LET n == (2 * source + target) \div (2 * target)
  IN  /\ n >= 1
      /\ 1000 * (source - n * target) < 2 * n * target
      /\ 1000 * (n * target - source) < 2 * n * target

(* ColorConversion::resolve.                                               *)
Conversion(request, zscale) ==
  IF request.conversion # None THEN request.conversion
  ELSE IF request.dtype = "float32" /\ zscale THEN "accurate" ELSE "fast"

(* What init_video_stream_context refuses to decode on the GPU, and the    *)
(* conversions that need zimg.                                             *)
Refused(request, stream, zscale) ==
  \/ /\ request.device
     /\ \/ request.hw = "no"
        \/ request.conversion = "accurate"
        \/ RequestedRotation(request, stream) # <<>>
        \/ request.rate # None
        \/ request.dtype # "uint8"
        \/ (request.width = None) # (request.height = None)
        \/ /\ Resizes(request)
           /\ \/ request.width % 2 # 0 \/ request.height % 2 # 0
              \/ HwResize(request, stream) # <<request.width, request.height>>
  \/ request.conversion = "accurate" /\ ~ zscale
  \/ IsHdr(stream) /\ request.hdrMode = "tonemap" /\ ~ request.device /\ ~ zscale

Config(request, stream, zscale) ==
  LET size == DecodedSize(request, stream)
  IN [rate       |-> request.rate,
      fps        |-> IF request.rate # None /\ IsIntegerDownsample(stream.rate, request.rate)
                     THEN "nearest" ELSE request.fps,
      size       |-> GraphSize(request, stream),
      format     |-> Rgb(IF request.dtype = "uint8" THEN "rgb24" ELSE "gbrpf32le"),
      conversion |-> Conversion(request, zscale),
      hdr        |-> IsHdr(stream),
      tonemaps   |-> IsHdr(stream) /\ request.hdrMode = "tonemap",
      matrix     |-> stream.matrix,
      primaries  |-> stream.primaries,
      rotate     |-> RequestedRotation(request, stream),
      source     |-> [w |-> size[1], h |-> size[2], format |-> stream.format]]

UsesMotionStage(config) == config.rate # None /\ config.fps # "nearest"

(* The configuration of the graph in front of the motion stage, and of the *)
(* one behind it, which sees the frames that leave the first.              *)
MotionInput(config, stream) ==
  [config EXCEPT !.rate = None,
                 !.format = MotionWorkingFormat(config, stream),
                 !.conversion = IF config.tonemaps THEN @ ELSE "fast"]
MotionOutputTagged(config, frame) ==     \* mutant: the HDR tags carry over
  [config EXCEPT !.rate = None, !.size = None, !.rotate = <<>>, !.matrix = frame.matrix,
                 !.source = [w |-> frame.w, h |-> frame.h, format |-> frame.format]]
MotionOutput(config, frame) ==
  [MotionOutputTagged(config, frame) EXCEPT !.hdr = FALSE, !.tonemaps = FALSE,
                                            !.primaries = None]

-------------------------------------------------------------------------------
(* The chain (Display for VideoFilterConfig), one part per idea.           *)

HdrDefaults(c) ==
  When(c.hdr /\ (c.matrix = None \/ c.primaries = None),
       [op |-> "setparams",
        matrix    |-> IF c.matrix = None THEN "bt2020nc" ELSE None,
        primaries |-> IF c.primaries = None THEN "bt2020" ELSE None])

Fps(c) == When(c.rate # None /\ c.fps = "nearest", [op |-> "fps", rate |-> c.rate])

Accurate(c) == c.conversion = "accurate"
Scale(c) == When(c.size # None /\ ~ Accurate(c), [op |-> "scale", size |-> c.size])

Zscale(linear, size, matrixIn, to709) ==
  [op |-> "zscale", linear |-> linear, size |-> size, matrixIn |-> matrixIn, to709 |-> to709]

ToneMapping(c) ==
  LET size == IF Accurate(c) THEN <<c.source.w, c.source.h>>
              ELSE Given(c.size, <<c.source.w, c.source.h>>)
  IN  IF ~ c.tonemaps THEN <<>>
      ELSE UpsampleFor(c.source.format, size[1], size[2])
           \o <<Zscale(TRUE, IF Accurate(c) THEN c.size ELSE None, None, FALSE),
                [op |-> "format", to |-> Rgb("gbrpf32le")],
                [op |-> "tonemap"],
                Zscale(FALSE, None, None, TRUE)>>

DefaultMatrix(c) ==
  IF ~ c.tonemaps /\ ((c.matrix = None /\ ~ c.hdr) \/ c.source.format.kind = "gray")
  THEN "bt601" ELSE None
AccurateRgb(c) ==
  IF ~ Accurate(c) THEN <<>>
  ELSE (IF c.tonemaps THEN <<>> ELSE UpsampleFor(c.source.format, c.source.w, c.source.h))
       \o <<Zscale(FALSE, IF c.tonemaps THEN None ELSE c.size, DefaultMatrix(c), FALSE)>>
       \o When(c.format = Rgb("rgb24"), [op |-> "format", to |-> Rgb("gbrp")])

Chain(c) ==
  HdrDefaults(c) \o Fps(c) \o c.rotate \o Scale(c) \o ToneMapping(c) \o AccurateRgb(c)
    \o <<[op |-> "format", to |-> c.format]>>

-------------------------------------------------------------------------------
(* The filters, which are FFmpeg's and zimg's.  `next` is the filter after *)
(* this one: zscale gives the planar format it asks for.                   *)

(* A frame as it leaves the decoder: `on` where its pixels are, `encoded`  *)
(* the matrix its YUV was made with, `right` until it is read with another,*)
(* `by` the library that made it RGB, `toned` how often it was tone mapped.*)
TrueMatrix(stream) == Given(stream.matrix, IF IsHdr(stream) THEN "bt2020nc" ELSE "bt601")
Decoded(size, stream) ==
  [w |-> size[1], h |-> size[2], format |-> stream.format, on |-> "cpu",
   matrix |-> stream.matrix, primaries |-> stream.primaries, signal |-> stream.trc,
   encoded |-> TrueMatrix(stream), right |-> TRUE,
   turned |-> Upright, rate |-> None, toned |-> 0, by |-> None]

ToRgb(frame, to, matrix, by) ==
  IF IsRgb(frame.format) THEN [frame EXCEPT !.format = to]
  ELSE [frame EXCEPT !.format = to, !.by = by,
                     !.right = @ /\ (frame.format = Gray \/ matrix = frame.encoded)]
ToYuv(frame, to) ==
  IF IsRgb(frame.format)
  THEN [frame EXCEPT !.format = to, !.encoded = IF frame.matrix \in {None, "gbr"} THEN "bt601"
                                                ELSE frame.matrix,
                     !.matrix = IF @ = "gbr" THEN None ELSE @]
  ELSE [frame EXCEPT !.format = to]

Formatted(frame, to) ==
  IF IsRgb(to) THEN ToRgb(frame, to, Given(frame.matrix, "bt601"), "swscale")
  ELSE ToYuv(frame, to)

(* transpose wants chroma subsampled alike both ways.                      *)
MadeWhole(frame, turn) ==
  turn \in Transposes /\ frame.format.kind = "yuv" /\ frame.format.sub[1] # frame.format.sub[2]
Turned(frame, turn) ==
  LET f == IF MadeWhole(frame, turn) THEN [frame EXCEPT !.format.sub = Whole] ELSE frame
  IN  [f EXCEPT !.w = IF turn \in Transposes THEN frame.h ELSE frame.w,
                !.h = IF turn \in Transposes THEN frame.w ELSE frame.h,
                !.turned = After(Turn[turn], frame.turned)]

ZimgMatrix(frame, filter) ==
  IF filter.matrixIn # None THEN filter.matrixIn
  ELSE IF frame.format.kind = "gray" THEN None ELSE frame.matrix
Zscaled(frame, filter, next) ==
  LET to      == IF next.op = "format" /\ next.to # Rgb("rgb24") THEN next.to
                 ELSE Rgb("gbrpf32le")
      size    == Given(filter.size, <<frame.w, frame.h>>)
      resized == [frame EXCEPT !.w = size[1], !.h = size[2],
                               !.matrix = IF filter.to709 THEN "bt709" ELSE @]
      done    == IF IsRgb(to) THEN ToRgb(resized, to, ZimgMatrix(frame, filter), "zscale")
                 ELSE ToYuv(resized, to)
  IN  IF filter.to709 THEN [done EXCEPT !.primaries = "bt709", !.signal = "bt709"]
      ELSE IF filter.linear THEN [done EXCEPT !.signal = "linear"]
      ELSE done

Filtered(frame, filter, next) ==
  CASE filter.op = "setparams" -> [frame EXCEPT !.matrix = Given(filter.matrix, @),
                                                !.primaries = Given(filter.primaries, @)]
    [] filter.op = "fps"       -> [frame EXCEPT !.rate = filter.rate]
    [] filter.op = "turn"      -> Turned(frame, filter.turn)
    [] filter.op = "scale"     -> [frame EXCEPT !.w = filter.size[1], !.h = filter.size[2]]
    [] filter.op = "format"    -> Formatted(frame, filter.to)
    [] filter.op = "tonemap"   -> [frame EXCEPT !.toned = @ + 1]
    [] filter.op = "zscale"    -> Zscaled(frame, filter, next)

-------------------------------------------------------------------------------
(* What the filters refuse, and fail the graph with.                       *)

(* The scale filter, which also converts where a filter wants another      *)
(* format than it gets, knows these YUV matrices only.                     *)
ScaleMatrices ==
  {None, "gbr", "bt709", "bt470bg", "smpte170m", "fcc", "smpte240m", "bt2020nc"}
ScaleRefuses(frame) == frame.format.kind = "yuv" /\ frame.matrix \notin ScaleMatrices

(* zimg refuses subsampled frames of odd sizes, YUV without a matrix, and  *)
(* to make transfers linear or convert primaries that it is not told.      *)
ZimgRefuses(frame, filter) ==
  \/ Subsampled(frame.format) /\ ~ Aligned(frame.format, frame.w, frame.h)
  \/ ~ IsRgb(frame.format) /\ ZimgMatrix(frame, filter) = None
  \/ filter.linear /\ frame.signal = None
  \/ filter.to709 /\ frame.primaries = None

Refuses(frame, filter) ==
  CASE filter.op = "scale"   -> ScaleRefuses(frame)
    [] filter.op = "format"  -> frame.format # filter.to /\ ScaleRefuses(frame)
    [] filter.op = "turn"    -> MadeWhole(frame, filter.turn) /\ ScaleRefuses(frame)
    [] filter.op = "zscale"  -> ZimgRefuses(frame, filter)
    [] filter.op = "tonemap" -> frame.signal # "linear"
    [] OTHER                 -> FALSE
===============================================================================
