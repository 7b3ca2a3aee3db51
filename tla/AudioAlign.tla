------------------------------- MODULE AudioAlign -------------------------------
(***************************************************************************)
(* align_audio (mod.rs): after an audio stream was decoded, its samples    *)
(* are laid onto the time line the streams share.  The gaps its timestamps *)
(* show, and the time before it, become silence: runs of samples move back *)
(* inside the tensor, under the frames' views, which then follow.          *)
(*                                                                         *)
(* Time is an integer; a sample lasts Unit of it, and comparisons of       *)
(* seconds are comparisons of integers.  Sample k of the stream is k,      *)
(* silence is 0.  A boundary between frames is judged, by find_gaps, and   *)
(* filled, by align_audio, in a step; spread_samples is a step per move    *)
(* and per zeroing.                                                        *)
(***************************************************************************)
EXTENDS Common, Sequences, SequencesExt

CONSTANTS
  Unit,        \* time of a sample
  Tick,        \* time-base tick
  MinGap,      \* MIN_AUDIO_GAP_SECONDS
  NoTime,      \* a time that is not known
  Length,      \* samples of a decoded frame
  Capacities,  \* samples the tensor may be planned with
  Stamps,      \* sequences of the timestamps of the frames written
  Starts,      \* starts of a window, or NoTime
  Others       \* when the earliest of the other streams starts, or NoTime

ASSUME AlignAssumption ==
  /\ Unit \in Nat \ {0} /\ Tick \in Nat /\ MinGap \in Nat
  /\ Length \in Nat \ {0}
  /\ Capacities \subseteq Nat
  /\ NoTime \notin Int
  /\ Starts \union Others \subseteq Int \union {NoTime}
  /\ \A pts \in Stamps : pts \in Seq(Int \union {NoTime}) /\ pts # <<>>

VARIABLES
  request,  \* AudioTiming, the other streams and the window
  tensor,   \* frame_data, one channel of it
  written,  \* samples written
  frames,   \* the views: where they start, from 0, their length and timestamp,
            \* and (for the properties) the number of their frame
  runs,     \* runs of samples: where each starts, how far it moves
  boundary, \* the frame whose boundary with the one before is judged next
  run,      \* the run being moved
  pc,
  result    \* the samples and the start time that are returned

vars == <<request, tensor, written, frames, runs, boundary, run, pc, result>>

Abs(n)      == IF n < 0 THEN -n ELSE n

(* f64::round and ceil of a time in samples.                               *)
Rounded(time) ==
  IF time < 0 THEN -((Unit - 2 * time) \div (2 * Unit)) ELSE (2 * time + Unit) \div (2 * Unit)
Ceiling(time) == -((-time) \div Unit)

(* The frames as the pipeline leaves them: one after the other, the last   *)
(* ones cut at the end of the tensor.                                      *)
ViewsOf(pts, capacity) ==
  [i \in DOMAIN pts |->
     LET at == MinOf((i - 1) * Length, capacity)
     IN [at |-> at, length |-> MinOf(i * Length, capacity) - at, pts |-> pts[i], frame |-> i]]

(* How the stream was timed.  When a window cut it, the frame before the   *)
(* window ended where the first kept frame starts, or up to 3 samples      *)
(* before; when a seek found its place, none was decoded, but the          *)
(* container reports an earlier start.                                     *)
Requests(first) ==
  IF first = NoTime
  THEN [decoded : {NoTime}, output : {NoTime}, skippedEnd : {NoTime}, reported : {NoTime},
        fill : BOOLEAN, start : {NoTime}, other : Others]
  ELSE {[decoded |-> IF skipped = NoTime THEN first ELSE skipped - Length * Unit,
         output |-> first, skippedEnd |-> skipped, reported |-> reported, fill |-> fill,
         start |-> start, other |-> other] :
           skipped \in {NoTime} \union {first - gap * Unit : gap \in {0, 3, 6}},
           reported \in {NoTime, first, first - 2 * Length * Unit},
           fill \in BOOLEAN, start \in Starts, other \in Others}

(* A window drops the frames before its start, and only these.             *)
Possible(asked) ==
  /\ asked.start # NoTime => asked.output >= asked.start
  /\ asked.skippedEnd # NoTime => asked.start # NoTime /\ asked.decoded < asked.start

Init ==
  /\ \E pts \in Stamps, capacity \in Capacities :
       /\ request \in {asked \in Requests(pts[1]) : Possible(asked)}
       /\ written = MinOf(Len(pts) * Length, capacity)
       /\ frames = ViewsOf(pts, capacity)
       /\ tensor = [k \in 1 .. capacity |-> IF k <= written THEN k ELSE 0]
  /\ runs = <<>>
  /\ boundary = 0
  /\ run = 0
  /\ pc = "align"
  /\ result = [samples |-> 0, start |-> NoTime]

-------------------------------------------------------------------------------
(* Where the streams start.                                                *)

(* timeline_origin.                                                        *)
Origin ==
  LET earliest == IF request.other = NoTime THEN request.decoded
                  ELSE MinOf(request.decoded, request.other)
  IN IF request.start = NoTime THEN earliest ELSE MaxOf(earliest, request.start)

(* gap_threshold, and the precision of a timestamp.                        *)
Threshold == MaxOf(2 * Tick, MinGap) + 2 * Unit
Precision == 2 * Tick + 2 * Unit

InWindow(time) == request.start = NoTime \/ time >= request.start
StartsInWindow ==
  InWindow(request.decoded) /\ (request.reported = NoTime \/ InWindow(request.reported))

(* A gap follows the last frame before the window.                         *)
GapBefore ==
  /\ request.skippedEnd # NoTime
  /\ request.fill
  /\ request.output - MaxOf(request.skippedEnd, Origin) > Threshold

Lead ==
  IF StartsInWindow \/ GapBefore THEN MaxOf(Rounded(request.output - Origin), 0) ELSE 0

StartTime == IF Lead > 0 THEN Origin ELSE request.output

-------------------------------------------------------------------------------
(* find_gaps, over the views that are not empty.                           *)

NonEmpty == Picked(frames, {i \in DOMAIN frames : frames[i].length > 0})

Contiguous(views) ==
  \A i \in 1 .. Len(views) - 1 : views[i + 1].at = views[i].at + views[i].length

Duration == Length * Unit

Known(views, i) == i \in DOMAIN views /\ views[i].pts # NoTime

(* Where a frame ends, by its timestamp and by its predecessor's.          *)
EndOf(views, i) ==
  LET own == views[i].pts + Duration
  IN IF Known(views, i - 1) THEN MaxOf(own, views[i - 1].pts + 2 * Duration) ELSE own

(* Where a frame starts, by its successor's timestamp.                     *)
FromAfter(views, i) ==
  IF Known(views, i + 1) THEN views[i + 1].pts - Duration ELSE NoTime

StartOf(views, i) ==
  IF FromAfter(views, i) = NoTime THEN views[i].pts ELSE MinOf(FromAfter(views, i), views[i].pts)

GapAt(views, i) ==
  LET gap == StartOf(views, i) - EndOf(views, i - 1)
      off == FromAfter(views, i) # NoTime
             /\ Abs(FromAfter(views, i) - views[i].pts) > Precision
  IN [at |-> views[i].at, gap |-> gap, samples |-> Rounded(gap),
      resume |-> IF off THEN StartOf(views, i) ELSE views[i].pts]

IsGap(views, i) ==
  Known(views, i - 1) /\ Known(views, i) /\ GapAt(views, i).gap > Threshold

(* The silence before the frame after a gap.                               *)
FillLength(gap, offset) == gap.samples \* mutant: timestamps are not returned to
Fill(gap, offset) ==
  LET toTimestamp == Rounded(gap.resume - StartTime) - (gap.at + offset)
  IN IF Abs(toTimestamp - gap.samples) <= Ceiling(Threshold) THEN toTimestamp ELSE gap.samples

(* The silence put before a frame: none where no gap is, or none is filled. *)
FillsGaps == request.fill /\ Contiguous(NonEmpty)
Silence(i, offset) ==
  IF FillsGaps /\ IsGap(NonEmpty, i) THEN Fill(GapAt(NonEmpty, i), offset) ELSE 0

-------------------------------------------------------------------------------
(* The steps.                                                              *)

capacity == Len(tensor)

(* Without a timestamp all is left as it is.                               *)
LeftAlone ==
  /\ pc = "align"
  /\ request.output = NoTime
  /\ pc' = "done"
  /\ result' = [samples |-> written, start |-> request.output]
  /\ UNCHANGED <<request, tensor, written, frames, runs, boundary, run>>

Begin ==
  /\ pc = "align"
  /\ request.output # NoTime
  /\ pc' = "gaps"
  /\ runs' = <<[start |-> 0, offset |-> Lead]>>
  /\ boundary' = 2
  /\ UNCHANGED <<request, tensor, written, frames, run, result>>

(* A boundary: the frame goes on in the run, or starts one.                *)
Judge ==
  /\ pc = "gaps"
  /\ boundary <= Len(NonEmpty)
  /\ boundary' = boundary + 1
  /\ UNCHANGED <<request, tensor, written, frames, run, pc, result>>

GoesOn ==
  /\ Judge
  /\ Silence(boundary, Last(runs).offset) <= 0
  /\ UNCHANGED runs

FillGap ==
  /\ Judge
  /\ LET offset == Last(runs).offset
         fill   == Silence(boundary, offset)
     IN /\ fill > 0
        /\ runs' = Append(runs, [start |-> NonEmpty[boundary].at, offset |-> offset + fill])

(* All are judged.  When nothing moves, all is left as it is; the last run *)
(* moves first; spread_samples refuses what it cannot move.                *)
Judged  == pc = "gaps" /\ boundary > Len(NonEmpty)
Nothing == runs = <<[start |-> 0, offset |-> 0]>>

Sorted ==
  /\ written \in 0 .. capacity
  /\ runs # <<>> /\ runs[1].start = 0 /\ runs[1].offset >= 0
  /\ \A i \in 1 .. Len(runs) - 1 :
       /\ runs[i].start < runs[i + 1].start /\ runs[i + 1].start <= written
       /\ runs[i].offset <= runs[i + 1].offset

Unmoved ==
  /\ Judged /\ Nothing
  /\ pc' = "done"
  /\ result' = [samples |-> written, start |-> request.output]
  /\ UNCHANGED <<request, tensor, written, frames, runs, boundary, run>>

SpreadRuns ==
  /\ Judged /\ ~ Nothing
  /\ IF Sorted THEN pc' = "move" /\ run' = Len(runs)
     ELSE pc' = "refused" /\ UNCHANGED run
  /\ UNCHANGED <<request, tensor, written, frames, runs, boundary, result>>

ToTheEnd == written                    \* mutant: a run lasts to the end
RunEnd == IF run = Len(runs) THEN written ELSE runs[run + 1].start
To     == runs[run].start + runs[run].offset

(* The samples of the run are copied out, then in.                         *)
Destination == To
Moved ==
  LET start  == runs[run].start
      length == MinOf(RunEnd - start, capacity - To)
  IN [k \in DOMAIN tensor |->
        IF k > Destination /\ k <= Destination + length THEN tensor[k - Destination + start]
        ELSE tensor[k]]

Move ==
  /\ pc = "move"
  /\ tensor' = Moved
  /\ pc' = "zero"
  /\ UNCHANGED <<request, written, frames, runs, boundary, run, result>>

(* The space it left is zeroed, from where the run before it will end.     *)
From == IF run = 1 THEN 0 ELSE runs[run].start + runs[run - 1].offset
Samples == MinOf(written + Last(runs).offset, capacity)

Zero ==
  /\ pc = "zero"
  /\ tensor' = [k \in DOMAIN tensor |-> IF k > From /\ k <= To THEN 0 ELSE tensor[k]]
  /\ run' = run - 1
  /\ pc' = IF run = 1 THEN "views" ELSE "move"
  /\ UNCHANGED <<request, written, frames, runs, boundary, result>>

(* The run a view lies in is the last that starts no later.                *)
FirstRun(at) == 1                      \* mutant: the views move with the first run
RunOf(at) ==
  CHOOSE i \in DOMAIN runs : runs[i].start <= at
                             /\ \A j \in DOMAIN runs : runs[j].start <= at => j <= i

MovedView(view) ==
  LET to == view.at + runs[RunOf(view.at)].offset
  IN IF view.length = 0 THEN view
     ELSE [view EXCEPT !.at = to, !.length = MinOf(@, capacity - to)]

(* Views pushed past the end go; empty ones stay.                          *)
MoveViews ==
  /\ pc = "views"
  /\ LET moved == [i \in DOMAIN frames |-> MovedView(frames[i])]
         kept  == {i \in DOMAIN frames : frames[i].length = 0 \/ moved[i].length > 0}
     IN frames' = Picked(moved, kept)
  /\ result' = [samples |-> Samples, start |-> StartTime]
  /\ pc' = "done"
  /\ UNCHANGED <<request, tensor, written, runs, boundary, run>>

Done == pc \in {"done", "refused"} /\ UNCHANGED vars

Next ==
  \/ LeftAlone
  \/ Begin
  \/ GoesOn
  \/ FillGap
  \/ Unmoved
  \/ SpreadRuns
  \/ Move
  \/ Zero
  \/ MoveViews
  \/ Done

Spec == Init /\ [][Next]_vars

-------------------------------------------------------------------------------
(* Properties.                                                             *)

(* Moving the runs inside one tensor, each over what others left, gives    *)
(* what placing every sample where its run moves it would: silence         *)
(* elsewhere, no sample lost but those past the end.  The runs found are   *)
(* never ones that spread_samples refuses.                                 *)
RunBefore(k) ==
  CHOOSE i \in DOMAIN runs : runs[i].start < k
                             /\ \A j \in DOMAIN runs : runs[j].start < k => j <= i
Placed(k) == k + runs[RunBefore(k)].offset
Spread ==
  /\ pc # "refused"
  /\ pc = "views" =>
       tensor = [p \in 1 .. capacity |->
                   IF \E k \in 1 .. written : Placed(k) = p
                   THEN CHOOSE k \in 1 .. written : Placed(k) = p ELSE 0]

(* A view still holds the samples of its own frame, from its first one on, *)
(* inside the tensor, and every sample that is left is seen through a view. *)
ViewsFollow ==
  pc = "done" =>
    /\ \A i \in DOMAIN frames : frames[i].at + frames[i].length <= capacity
    /\ \A i \in DOMAIN frames : \A n \in 1 .. frames[i].length :
         tensor[frames[i].at + n] = (frames[i].frame - 1) * Length + n
    /\ \A p \in 1 .. result.samples : tensor[p] # 0 =>
         \E i \in DOMAIN frames : p > frames[i].at /\ p <= frames[i].at + frames[i].length

(* The start time returned is that of the first sample: what is before the *)
(* first frame is as long as the time it stands for.                       *)
StartIsTrue ==
  pc = "done" /\ request.output # NoTime =>
    \A p \in DOMAIN tensor : tensor[p] = 1 =>
      2 * Abs(result.start + (p - 1) * Unit - request.output) <= Unit

(* After a gap the sound resumes when its timestamp says, to half a sample, *)
(* if that takes back no more than the threshold of drift (a sample less    *)
(* before the start, where halves are rounded the other way); if it would   *)
(* (by more than rounding), the drift from before the gap stays.           *)
ResumesOnTime ==
  Judged =>
    LET views == NonEmpty
        Time(k) == StartTime + (Placed(k) - 1) * Unit
    IN \A i \in 2 .. Len(views) :
         request.fill /\ IsGap(views, i) =>
           LET gap     == GapAt(views, i)
               resumes == Time(views[i].at + 1)
               drift   == EndOf(views, i - 1) - (Time(views[i].at) + Unit)
               taken   == Abs(drift + gap.resume - StartOf(views, i))
               less    == IF gap.resume < StartTime THEN Unit ELSE 0
           IN /\ taken + less <= Threshold => 2 * Abs(resumes - gap.resume) <= Unit
              /\ taken > Threshold + 2 * Unit =>
                   2 * Abs(StartOf(views, i) - resumes - drift) <= Unit

(* The sound returned is heard when its timestamps say: from the start     *)
(* that is returned with it, and after every gap.                          *)
SoundOnTime == StartIsTrue /\ ResumesOnTime
===============================================================================
