-------------------------------- MODULE Planning --------------------------------
(***************************************************************************)
(* What decode_media and plan_media ask of the container before a decoder  *)
(* exists: which streams a request means, and how many rows or samples     *)
(* each will need (mod.rs: select_*_stream(s), plan_*_stream).             *)
(*                                                                         *)
(* Time is an integer.  A rate <<n, d>> is n frames or samples in a time   *)
(* d.  A header is what the container says of itself, true or not:         *)
(*   [begin, span, jumps, video, audio, streams], the file's start and     *)
(*   duration, whether the format's timestamps may jump, the best stream   *)
(*   of each kind, and for each stream                                     *)
(*   [begin, span, rate, count]: its start, duration, guessed frame rate   *)
(*   or sample rate, and number of frames.                                 *)
(* Anything but a sample rate may be NoTime: not reported.                 *)
(***************************************************************************)
EXTENDS Common, Sequences, SequencesExt

CONSTANTS
  NoTime,      \* not known, or not asked for
  Best,        \* a request for the best stream of a kind
  CliRate      \* the frame rate of FpsMode::Cli without another

Known(x) == x # NoTime

(* (time * rate).ceil(), and round().                                      *)
CeilAt(time, rate)  == -((-(time * rate[1])) \div rate[2])
RoundAt(time, rate) == (2 * time * rate[1] + rate[2]) \div (2 * rate[2])

-------------------------------------------------------------------------------
(* Which streams.                                                          *)

(* A request is [video, audio, rate, cli, limit, window].  The best stream *)
(* is FFmpeg's choice; a container may have none.                          *)
Meant(index, best) == IF index = Best THEN best ELSE index

Once(indices) ==
  Picked(indices, {i \in DOMAIN indices : \A j \in 1 .. i - 1 : indices[j] # indices[i]})

SelectedVideo(request, header) ==
  IF Known(request.video) THEN <<Meant(request.video, header.video)>> ELSE <<>>
SelectedAudio(request, header) ==
  Once([i \in DOMAIN request.audio |-> Meant(request.audio[i], header.audio)])
Selected(request, header) ==
  SelectedVideo(request, header) \o SelectedAudio(request, header)

-------------------------------------------------------------------------------
(* For how long.                                                           *)

(* stream_duration_seconds: [of, from], NoTime without any duration.       *)
Span(header, s) ==
  IF Known(header.streams[s].span) THEN [of |-> "stream", time |-> header.streams[s].span]
  ELSE IF Known(header.span) /\ header.span > 0 THEN [of |-> "container", time |-> header.span]
  ELSE NoTime

(* asset_duration.                                                         *)
WindowFits(time, window) ==
  Known(window.start) =>
    IF Known(window.end) THEN window.end > window.start ELSE time > window.start

AssetTime(time, window) ==
  IF Known(window.end)
  THEN MinOf(time, IF Known(window.start) THEN window.end - window.start ELSE window.end)
  ELSE IF Known(window.start) THEN time - window.start ELSE time

(* planned_timeline_start: the earliest start of the streams, clipped.     *)
Clipped(time, window) == IF Known(window.start) THEN MaxOf(time, window.start) ELSE time
StartsInWindow(time, window) == Known(window.start) => time >= window.start

TimelineStart(header, order, window) ==
  LET begins == {header.streams[order[i]].begin : i \in DOMAIN order} \ {NoTime}
  IN IF begins = {} THEN NoTime
     ELSE Clipped(Min(begins), window)

LeadingPad(first, origin, rate) == MaxOf(RoundAt(first - origin, rate), 0)

-------------------------------------------------------------------------------
(* plan_video_stream.                                                      *)

(* validate_fps_mode.                                                      *)
FpsModeFits(request) ==
  request.cli => ~ Known(request.rate) /\ ~ Known(request.window.start)
                 /\ ~ Known(request.window.end)

FrameRate(header, s, request) ==
  LET it == header.streams[s]
  IN IF request.cli THEN (IF Known(it.rate) THEN it.rate ELSE CliRate)
     ELSE IF Known(request.rate) THEN request.rate
     ELSE IF Known(it.rate) THEN it.rate
     ELSE IF Known(it.count) /\ it.count > 0 /\ Span(header, s).time > 0
          THEN <<it.count, Span(header, s).time>>
     ELSE NoTime

(* The CLI's output runs from the file's start, or in a format whose       *)
(* timestamps may jump from the stream's; a container's duration does too. *)
OrZero(time) == IF Known(time) THEN time ELSE 0
CliStart(header, s) ==
  IF header.jumps /\ Known(header.begin) /\ Known(header.streams[s].begin)
  THEN header.streams[s].begin ELSE OrZero(header.begin)
CliLead(header, s) ==
  IF Span(header, s).of = "stream"
  THEN MaxOf(OrZero(header.streams[s].begin) - CliStart(header, s), 0) ELSE 0

(* Rows: an image's one, or those of the window less half a frame, so that *)
(* a rounding error plans no black frame at the end.                       *)
RowsRounded(time, rate) ==             \* mutant: a whole frame
  -((rate[2] - time * rate[1]) \div rate[2])
RowsOf(time, rate) ==
  -((rate[2] - 2 * time * rate[1]) \div (2 * rate[2]))

VideoPlannable(header, s, request) ==
  /\ FpsModeFits(request)
  /\ Known(Span(header, s)) =>
       /\ WindowFits(Span(header, s).time, request.window)
       /\ Known(FrameRate(header, s, request))

VideoPlan(header, s, request) ==
  IF ~ Known(Span(header, s)) THEN 1
  ELSE LET time == AssetTime(Span(header, s).time, request.window)
           rate == FrameRate(header, s, request)
       IN IF request.cli THEN CeilAt(time + CliLead(header, s), rate) + 2
          ELSE RowsOf(time, rate)

-------------------------------------------------------------------------------
(* plan_audio_stream.                                                      *)

AudioPlannable(header, s, request) ==
  /\ Known(Span(header, s))
  /\ WindowFits(Span(header, s).time, request.window)

(* Room for the silence in front of a stream that starts later than the    *)
(* others; an end time bounds the silence as well.                         *)
Unpadded(header, s, request, order) ==  \* mutant: room for the sound alone
  CeilAt(AssetTime(Span(header, s).time, request.window), header.streams[s].rate)
AudioPlan(header, s, request, order) ==
  LET it     == header.streams[s]
      window == request.window
      origin == TimelineStart(header, order, window)
      pad    == IF /\ Known(origin) /\ Known(it.begin)
                   /\ Span(header, s).of = "stream" /\ StartsInWindow(it.begin, window)
                THEN LeadingPad(it.begin, origin, it.rate) ELSE 0
      padded == CeilAt(Span(header, s).time, it.rate) + pad
      ended  == IF Known(window.end)
                THEN MinOf(padded, CeilAt(window.end - origin, it.rate)) ELSE padded
      plain  == CeilAt(AssetTime(Span(header, s).time, window), it.rate)
  IN IF pad > 0 THEN MaxOf(plain, ended) ELSE plain

-------------------------------------------------------------------------------
(* OutputLimit::resolve: the request's limit, the environment's, the       *)
(* default.  An environment's that is not a byte count is ignored.         *)
OutputLimit(asked, environment, default) ==
  IF Known(asked) THEN asked ELSE IF Known(environment) THEN environment ELSE default

(* check_output_tensor_size.                                               *)
Allocatable(rows, bytes, limit) == rows >= 0 /\ rows * bytes <= limit
===============================================================================
