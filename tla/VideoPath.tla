------------------------------- MODULE VideoPath -------------------------------
(***************************************************************************)
(* The way of a video stream's frames into the rows of its tensor        *)
(* (mod.rs, cuda.rs): through filter graphs, straight through swscale, or*)
(* on the GPU.  What the graphs do is FilterChain's; here are the choice *)
(* of the way, the two graphs of a stream with a motion stage, the scaler*)
(* that is kept from frame to frame, and the GPU that works behind the   *)
(* decoding thread's back.                                               *)
(*                                                                       *)
(* On the two direct ways a frame is its number.  A frame that comes on  *)
(* them has a shape (its size and format) and tags of its own, which may *)
(* change in the middle of a stream.                                     *)
(***************************************************************************)
EXTENDS FilterChain, SequencesExt

CONSTANTS
  Cases,               \* what is asked for, of which stream, with which FFmpeg
  Shapes, Tags,        \* of the frames on a direct way
  Lane,                \* the width libswscale's fast loops need a multiple of
  MaxFrames            \* frames on a direct way (a model bound)

(* Streams turned by angles that are no quarter turns are left out, and so *)
(* are gray HDR streams that are to be tone mapped.                      *)
CaseAssumption(asked, of) ==
  /\ {asked.width, asked.height} \subseteq Nat \union {None}
  /\ {of.w, of.h} \subseteq Nat
  /\ IsFormat(of.format)
  /\ of.display \in DisplayMatrices
  /\ of.format = Gray /\ IsHdr(of) => asked.hdrMode # "tonemap"

ASSUME VideoPathAssumption ==
  /\ Lane \in Nat \ {0} /\ MaxFrames \in Nat
  /\ None \notin Int /\ None \notin Int \X Int
  /\ \A case \in Cases : CaseAssumption(case.request, case.stream)
  /\ None \notin Shapes /\ None # TRUE /\ None \notin {"bt601", "bt2020nc", "bt2020", "bt709"}
  /\ \A tags \in Tags : tags = [matrix |-> tags.matrix, full |-> tags.full]

VARIABLES
  request, stream, zscale,   \* what is decoded, and whether FFmpeg has zscale
  way,        \* "undecided", "refused", "graph", "direct", "cuda"
  graphs,     \* filters still to come, of the graph the frame is in
  frame,      \* the frame in the graphs
  behind,     \* whether it has left the motion stage
  sent,       \* direct ways: the frames that came
  scaler,     \* the shape swscale's context is for, and its colour details
  tensor,     \* what was written to each row
  queue,      \* GPU: the work submitted and not done, in order
  surface,    \* the frame in the decoder's surface
  scratch,    \* the frame in the scratch planes
  phase

inputs == <<request, stream, zscale>>
graphVars == <<graphs, frame, behind>>
gpuVars == <<queue, surface, scratch>>
pathVars == <<inputs, way, graphVars, sent, scaler, tensor, gpuVars, phase>>

config == Config(request, stream, zscale)
planned == PlannedSize(request, stream)
NoContext == [shape |-> None, details |-> None]

PathInit ==
  /\ \E case \in Cases : /\ request = case.request /\ stream = case.stream
                         /\ zscale = case.zscale
  /\ way = "undecided"
  /\ graphs = <<>> /\ frame = None /\ behind = FALSE
  /\ sent = <<>> /\ scaler = NoContext /\ tensor = <<>>
  /\ queue = <<>> /\ surface = 0 /\ scratch = 0
  /\ phase = "decoding"

-------------------------------------------------------------------------------
(* The choice (init_filters).                                            *)

(* The direct way converts the matrices that the scale filter knows, and   *)
(* one more that swscale has coefficients for.                           *)
SupportedMatrix(matrix) == matrix \in ScaleMatrices \union {"bt2020c"}

IsEligible(c) ==
  /\ c.rate = None /\ c.size = None /\ c.rotate = <<>>
  /\ c.hdr => ~ c.tonemaps /\ SupportedMatrix(stream.matrix)
  /\ c.conversion = "fast" /\ c.format = Rgb("rgb24")
  /\ planned[1] % Lane = 0

Way ==
  IF Refused(request, stream, zscale) THEN "refused"
  ELSE IF request.device THEN "cuda"
  ELSE IF ~ HwDecoded(request) /\ IsEligible(config) THEN "direct"
  ELSE "graph"

(* The CUDA libraries are loaded only now, and may be missing.           *)
Converters == IF Way = "cuda" THEN {"cuda", "refused"} ELSE {Way}
TwoSteps == stream.matrix # "bt709"

InitFilters ==
  /\ way = "undecided"
  /\ way' \in Converters
  /\ graphs' = IF Way # "graph" THEN <<>>
               ELSE IF UsesMotionStage(config) THEN Chain(MotionInput(config, stream))
               ELSE Chain(config)
  /\ UNCHANGED <<inputs, frame, behind, sent, scaler, tensor, gpuVars, phase>>

-------------------------------------------------------------------------------
(* Through the graphs: one frame stands for all of them.                 *)

(* A frame of a hardware decoder is downloaded first.                    *)
Received == [Decoded(DecodedSize(request, stream), stream) EXCEPT
               !.on = IF HwDecoded(request) THEN "gpu" ELSE "cpu"]
Downloaded == [Received EXCEPT !.on = "cpu"]
Submit ==
  /\ way = "graph" /\ phase = "decoding"
  /\ frame' = Downloaded
  /\ phase' = "filtering"
  /\ UNCHANGED <<inputs, way, graphs, behind, sent, scaler, tensor, gpuVars>>

Filter ==
  /\ way = "graph" /\ phase = "filtering" /\ graphs # <<>>
  /\ IF Refuses(frame, Head(graphs))
     THEN phase' = "failed" /\ UNCHANGED <<frame, graphs>>
     ELSE /\ frame' = Filtered(frame, Head(graphs),
                               IF Len(graphs) > 1 THEN graphs[2] ELSE [op |-> "sink"])
          /\ graphs' = Tail(graphs)
          /\ UNCHANGED phase
  /\ UNCHANGED <<inputs, way, behind, sent, scaler, tensor, gpuVars>>

(* Between the two graphs the resampler makes the frames of the rate asked *)
(* for, of the same layout; the second graph is built for what leaves the*)
(* first.                                                                *)
Resample ==
  /\ way = "graph" /\ phase = "filtering" /\ graphs = <<>>
  /\ UsesMotionStage(config) /\ ~ behind
  /\ frame' = [frame EXCEPT !.rate = request.rate]
  /\ graphs' = Chain(MotionOutput(config, frame))
  /\ behind' = TRUE
  /\ UNCHANGED <<inputs, way, sent, scaler, tensor, gpuVars, phase>>

(* The row is copied only if the frame is of the tensor's kind and shape.*)
Fits == frame.format = config.format /\ <<frame.w, frame.h>> = planned
Through == graphs = <<>> /\ (UsesMotionStage(config) => behind)
Sunk ==
  /\ way = "graph" /\ phase = "filtering" /\ Through
  /\ phase' = IF Fits THEN "done" ELSE "failed"
  /\ UNCHANGED <<inputs, way, graphVars, sent, scaler, tensor, gpuVars>>

-------------------------------------------------------------------------------
(* Straight through swscale (DirectVideoScaler).                         *)

(* Decoders that tag a frame tag the frames after it.                    *)
TagsStay(tags) ==
  \A k \in 1..Len(sent) : sent[k].tags # [matrix |-> None, full |-> None]
                            => tags # [matrix |-> None, full |-> None]

Untagged == IF IsHdr(stream) THEN "bt2020nc" ELSE None
DefaultDetails == [matrix |-> "bt601", full |-> FALSE]

(* context_for: a context built anew has swscale's default details.      *)
ContextOfSize(shape) ==      \* mutant: a change of format alone is not noticed
  IF scaler.shape # None /\ scaler.shape.w = shape.w /\ scaler.shape.h = shape.h THEN scaler
  ELSE [shape |-> shape, details |-> DefaultDetails]
ContextFor(shape) ==
  IF scaler.shape = shape THEN scaler ELSE [shape |-> shape, details |-> DefaultDetails]

(* sws_getCoefficients has those of BT.601 for what it does not know.    *)
Coefficients(matrix) == IF matrix # None /\ SupportedMatrix(matrix) THEN matrix ELSE "bt601"

Detailed(context, tags) ==
  LET matrix == Given(tags.matrix, Untagged)
  IN  IF matrix = None /\ tags.full = None THEN context
      ELSE [context EXCEPT !.details = [matrix |-> Coefficients(matrix),
                                        full   |-> tags.full = TRUE]]

DirectFrame(shape, tags) ==
  /\ way = "direct" /\ phase = "decoding" /\ Len(sent) < MaxFrames
  /\ TagsStay(tags)
  /\ sent' = Append(sent, [shape |-> shape, tags |-> tags])
  /\ IF IsHdr(stream) /\ ~ SupportedMatrix(tags.matrix)
     THEN phase' = "failed" /\ UNCHANGED <<scaler, tensor>>
     ELSE /\ scaler' = Detailed(ContextFor(shape), tags)
          /\ tensor' = Append(tensor, [size |-> planned, read |-> scaler'])
          /\ UNCHANGED phase
  /\ UNCHANGED <<inputs, way, graphVars, gpuVars>>

-------------------------------------------------------------------------------
(* On the GPU (CudaNv12ToRgb).  Everything runs on one stream: the       *)
(* decoder's copy into its only surface, which is free for the next frame*)
(* as soon as the call that converts this one returns; the conversion to a *)
(* row, in one step or through the scratch planes.                       *)

CudaWork(k) ==
  <<[op |-> "decode", to |-> k]>>
    \o (IF TwoSteps THEN <<[op |-> "split", to |-> k], [op |-> "scratch", to |-> k]>>
        ELSE <<[op |-> "surface", to |-> k]>>)

CudaFrame(shape) ==
  /\ way = "cuda" /\ phase = "decoding" /\ Len(sent) < MaxFrames
  /\ sent' = Append(sent, [shape |-> shape, tags |-> None])
  /\ IF <<shape.w, shape.h>> # planned
     THEN phase' = "failed" /\ UNCHANGED <<tensor, queue>>
     ELSE /\ tensor' = Append(tensor, 0)
          /\ queue' = queue \o CudaWork(Len(tensor'))
          /\ UNCHANGED phase
  /\ UNCHANGED <<inputs, way, graphVars, scaler, surface, scratch>>

Gpu ==
  /\ queue # <<>>
  /\ queue' = Tail(queue)
  /\ LET job == Head(queue)
     IN /\ surface' = IF job.op = "decode" THEN job.to ELSE surface
        /\ scratch' = IF job.op = "split" THEN surface ELSE scratch
        /\ tensor' = CASE job.op = "surface" -> [tensor EXCEPT ![job.to] = surface]
                     [] job.op = "scratch" -> [tensor EXCEPT ![job.to] = scratch]
                     [] OTHER -> tensor
  /\ UNCHANGED <<inputs, way, graphVars, sent, scaler, phase>>

(* The flush: the GPU's work is waited for before anything is handed out.*)
FlushAtOnce == phase' = "done"        \* mutant: nothing waits for the GPU
Synchronize == queue = <<>> /\ phase' = "done"
FlushDirect ==
  /\ way \in {"direct", "cuda"} /\ phase = "decoding" /\ sent # <<>>
  /\ Synchronize
  /\ UNCHANGED <<inputs, way, graphVars, sent, scaler, tensor, gpuVars>>

Over == (phase \in {"done", "failed"} \/ way = "refused") /\ UNCHANGED pathVars

PathNext ==
  \/ InitFilters \/ Submit \/ Filter \/ Resample \/ Sunk
  \/ \E shape \in Shapes : (\E tags \in Tags : DirectFrame(shape, tags)) \/ CudaFrame(shape)
  \/ Gpu \/ FlushDirect \/ Over

PathSpec == PathInit /\ [][PathNext]_pathVars

-------------------------------------------------------------------------------
(* zimg refuses odd sizes of subsampled YUV, YUV without a matrix and    *)
(* unknown primaries, the tone map wants linear light, and swscale       *)
(* converts only what it has coefficients for: whatever is asked for, of *)
(* whatever stream whose colours can be converted, each filter gets a    *)
(* frame it takes.                                                       *)
Convertible ==
  /\ stream.matrix \in ScaleMatrices
  /\ config.tonemaps => stream.trc # None
FiltersAccept ==
  way = "graph" /\ phase = "filtering" /\ graphs # <<>> =>
    frame.on = "cpu" /\ (Convertible => ~ Refuses(frame, Head(graphs)))

(* A frame that is through all its filters fits the row it was planned   *)
(* (NVDEC's resize, the rotation and two graphs notwithstanding), the    *)
(* right way up, at the rate asked for.                                  *)
AsPlanned ==
  /\ way = "graph" /\ phase = "filtering" /\ Through =>
       /\ Fits
       /\ frame.turned = IF request.autorotate THEN stream.display ELSE Upright
       /\ frame.rate = request.rate
  /\ way = "cuda" => DecodedSize(request, stream) = planned
  /\ way = "direct" => planned = <<stream.w, stream.h>>
                       /\ (request.autorotate => stream.display = Upright)

(* A stream is tone mapped once if it is HDR and that was asked for, never *)
(* otherwise; YUV is read with the matrix it was made with, in both graphs,*)
(* and by zimg if accuracy was asked for.                                *)
ColourAsAsked ==
  way = "graph" /\ phase = "done" =>
    /\ frame.toned = IF config.tonemaps THEN 1 ELSE 0
    /\ frame.signal = IF config.tonemaps THEN "bt709" ELSE stream.trc
    /\ frame.right
    /\ Accurate(config) /\ ~ IsRgb(stream.format) => frame.by = "zscale"

(* The scaler is kept from frame to frame; still each row is read as its *)
(* own frame's shape and tags say, or as BT.601 if they name a matrix that *)
(* swscale does not know (which an HDR stream's must not); and a frame like*)
(* the stream's first is read as the graph would have read it.           *)
AsTagged(k) ==
  LET tags  == sent[k].tags
      meant == Given(Given(tags.matrix, Untagged), "bt601")
  IN  /\ tensor[k].read.shape = sent[k].shape
      /\ tensor[k].read.details.full = (tags.full = TRUE)
      /\ IF meant = "bt601" \/ SupportedMatrix(meant) THEN tensor[k].read.details.matrix = meant
         ELSE ~ IsHdr(stream) /\ tensor[k].read.details.matrix = "bt601"
DirectAsGraph ==
  way = "direct" => \A k \in 1..Len(tensor) :
    /\ AsTagged(k)
    /\ /\ sent[k].tags.matrix = stream.matrix /\ SupportedMatrix(stream.matrix)
       /\ ~ IsRgb(stream.format)
       => tensor[k].read.details.matrix = TrueMatrix(stream)

(* The GPU works behind: what is handed out is complete all the same, each *)
(* row with its own frame.                                               *)
CudaRowsComplete ==
  way = "cuda" /\ phase = "done" => \A k \in 1..Len(tensor) : tensor[k] = k
===============================================================================
