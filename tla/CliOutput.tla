------------------------------- MODULE CliOutput -------------------------------
(***************************************************************************)
(* fps_mode="cli": decoded frames become output rows at the stream's own   *)
(* rate, as `ffmpeg -fps_mode cfr` emits them.  CfrSync (cfr.rs) decides   *)
(* from timestamps how often the previous and the current frame are        *)
(* emitted; receive_and_filter_frames (mod.rs) converts the frame into the *)
(* output tensor, copies rows, grows the tensor within the request's       *)
(* limit, stamps the rows and hands out views of them.                     *)
(*                                                                         *)
(* One action is one iteration of that loop: the code is sequential.  The  *)
(* frame's conversion (a scaler or a filter graph, one frame out for each  *)
(* frame in) is the writing of the frame's number into a row.              *)
(*                                                                         *)
(* Time is counted in twentieths of an output slot.  Timestamps lie on     *)
(* tenths, so that the code's nudge of 2^-17 slots away from a tie is the  *)
(* odd twentieth, and every threshold (0.5, 0.6, 1.1) is on the grid.      *)
(***************************************************************************)
EXTENDS Integers, Sequences

CONSTANTS
  NoPts,         \* AV_NOPTS_VALUE
  Timestamps,    \* best-effort timestamps frames come with
  Durations,     \* their durations, 0 when unknown
  Offset,        \* CfrSync.offset
  MaxCopies,     \* MAX_FRAME_COPIES
  Planned,       \* rows of the planned tensor
  MaxRows,       \* max_cli_rows: rows the output limit has room for
  MaxFrames      \* frames the stream has at most (a model bound)

Slot == 20
Tick == 2       \* one tick of the stream's time base

ASSUME CliAssumption ==
  /\ NoPts \notin Int
  /\ Timestamps \subseteq Int \union {NoPts}
  /\ Durations \subseteq Nat
  /\ Offset \in Int
  /\ MaxCopies \in Nat \ {0}
  /\ Planned \in Nat \ {0}
  /\ MaxRows \in Nat
  /\ Planned <= MaxRows     \* check_output_tensor_size, before allocating
  /\ MaxFrames \in Nat

VARIABLES
  sync,     \* CfrSync
  tensor,   \* frame_data: what each of its rows holds
  ptr,      \* frame_data_ptr: the rows emitted, numbered from 1 here
  pts,      \* frame_pts: each emitted row's output slot
  previous, \* CliSync.previous_row, NoRow when there is none
  grew,     \* CliSync.grew
  views,    \* the decoded frames handed out: views of tensor rows
  frames,   \* frames received so far: the last one's number
  spans,    \* per frame its time: history, for the properties
  phase     \* "open", "flushed", "done" or "failed"

output == <<tensor, ptr, pts, previous, grew, views>>
vars   == <<sync, tensor, ptr, pts, previous, grew, views, frames, spans, phase>>

NoRow     == 0
Unwritten == 0

MaxOf(a, b) == IF a >= b THEN a ELSE b
MinOf(a, b) == IF a <= b THEN a ELSE b

Init ==
  /\ \E single \in BOOLEAN :
       sync = [skipInitialGap |-> single, nextSlot |-> 0, firstSlot |-> 0,
               emitted |-> 0, history |-> <<0, 0, 0>>,
               lastPts |-> NoPts, lastDuration |-> 0]
  /\ tensor = [row \in 1 .. Planned |-> Unwritten]
  /\ ptr = 0
  /\ pts = <<>>
  /\ previous = NoRow
  /\ grew = FALSE
  /\ views = {}
  /\ frames = 0
  /\ spans = <<>>
  /\ phase = "open"

-------------------------------------------------------------------------------
(* CfrSync.push.                                                           *)

(* round_ties_even, of a time.                                             *)
Round(x) ==
  LET q == x \div Slot
      r == x % Slot
  IN IF r < Slot \div 2 \/ (r = Slot \div 2 /\ q % 2 = 0) THEN q ELSE q + 1

(* A time between two slots is moved a little away from zero, off any tie. *)
Nudged(x) == IF x % Slot = 0 THEN x ELSE IF x > 0 THEN x + 1 ELSE x - 1

(* The frame's timestamp, extrapolated when it has none.                   *)
PtsOf(stamp) ==
  IF stamp # NoPts THEN stamp
  ELSE IF sync.lastPts = NoPts THEN 0
  ELSE sync.lastPts + MaxOf(sync.lastDuration, Tick)

LastDuration(p, duration) ==
  IF duration > 0 THEN duration
  ELSE IF sync.lastPts = NoPts THEN Tick
  ELSE MaxOf(p - sync.lastPts, Tick)

At(p)             == Nudged(p + Offset)
Lasting(duration) == IF duration > 0 THEN duration ELSE Slot
Gap(at)           == at - sync.nextSlot * Slot

(* With no other stream in the file, a late first frame starts the output. *)
StartsAgain(at) == sync.skipInitialGap /\ 2 * Gap(at) >= Slot   \* mutant: at any gap
StartsLate(at) == sync.skipInitialGap /\ sync.emitted = 0 /\ 2 * Gap(at) >= Slot

(* How often the frame is shown, the copies of its predecessor included;   *)
(* `length` is delta: the frame's end, counted from the next slot.         *)
Stingy(length) ==                      \* mutant: two frames only from 2.1 slots
  IF 10 * length < -11 * Slot THEN 0
  ELSE IF 10 * length > 21 * Slot THEN Round(length)
  ELSE 1
Shown(length) ==
  IF 10 * length < -11 * Slot THEN 0
  ELSE IF 10 * length > 11 * Slot THEN Round(length)
  ELSE 1

(* How many of those repeat the frame before a gap.                        *)
NoRepeats(gap, length) == 0            \* mutant: the frame itself fills the gap
Repeats(gap, length) ==
  IF 10 * gap > 11 * Slot /\ 10 * length > 11 * Slot
  THEN MinOf(Round(gap - 12), Shown(length))
  ELSE 0

(* The decision for a frame, and the CfrSync it leaves.  A frame shown too *)
(* often is not shown at all.                                              *)
Push(stamp, duration) ==
  LET p      == PtsOf(stamp)
      at     == At(p)
      late   == StartsLate(at)
      length == IF late THEN Lasting(duration) ELSE Gap(at) + Lasting(duration)
      gap    == IF late THEN 0 ELSE Gap(at)
      total  == Shown(length)
      before == Repeats(gap, length)
      shown  == IF total > MaxCopies THEN 0 ELSE total
  IN [previous |-> IF total > MaxCopies THEN 0 ELSE before,
      current  |-> IF total > MaxCopies THEN 0 ELSE total - before,
      span     |-> [at |-> at, end |-> at + Lasting(duration),
                    skipped |-> total > MaxCopies],
      sync     |->
        [skipInitialGap |-> sync.skipInitialGap,
         nextSlot     |-> (IF late THEN Round(at) ELSE sync.nextSlot) + shown,
         firstSlot    |-> IF late THEN Round(at) ELSE sync.firstSlot,
         emitted      |-> sync.emitted + shown,
         history      |-> <<before, sync.history[1], sync.history[2]>>,
         lastPts      |-> p,
         lastDuration |-> LastDuration(p, duration)]]

(* With no previous frame yet, the first one is shown in its place.        *)
Decision(stamp, duration) ==
  LET d == Push(stamp, duration)
  IN IF previous # NoRow THEN d
     ELSE [d EXCEPT !.current = d.previous + d.current, !.previous = 0]

-------------------------------------------------------------------------------
(* The output tensor.                                                      *)

(* CliSync::fits: whether the limit has room for that many rows.           *)
FitsBarely(rows) == rows < MaxRows     \* mutant: one row short
FitsLimit(rows) == rows <= MaxRows

(* ensure_cli_capacity: the tensor holds the rows, or grows to them and to *)
(* the headroom the limit leaves; past the limit the decode fails.         *)
Room(t, needed) == needed <= Len(t) \/ needed <= MaxRows

GrownTo(held, needed, wanted) ==
  MaxOf(MinOf(MaxOf(held + held \div 4 + 1, wanted), MaxRows), needed)

Grown(t, needed, wanted) ==
  IF needed <= Len(t) THEN t
  ELSE [row \in 1 .. GrownTo(Len(t), needed, wanted) |->
          IF row <= Len(t) THEN t[row] ELSE Unwritten]

(* emit_previous_copies: n rows after the first p show frame f.            *)
WithCopies(t, p, n, f) ==
  IF n = 0 THEN t
  ELSE LET g == Grown(t, p + n, p + n + 1)
       IN [row \in 1 .. Len(g) |-> IF row \in p + 1 .. p + n THEN f ELSE g[row]]

(* The conversion of frame f into the row after the first p.               *)
WithFrame(t, p, f) == [Grown(t, p + 1, p + 1) EXCEPT ![p + 1] = f]

(* pts_seconds_of, for the n rows after the first p.                       *)
Stamps(first, p, n) == [i \in 1 .. n |-> first + p + i - 1]

(* The views of a frame's row that are handed out: a frame converted only  *)
(* to be repeated later is taken off the list again.                       *)
Untruncated(row, f, current) == {[row |-> row, frame |-> f]}   \* mutant: kept
NewViews(row, f, current) ==
  IF current = 0 THEN {} ELSE {[row |-> row, frame |-> f]}

-------------------------------------------------------------------------------
(* One frame from the decoder.  Each action below is one way through the   *)
(* loop body, for the decision d; p is the row before the frame's own.     *)

Repeated(d) ==
  IF d.previous = 0 THEN tensor
  ELSE WithCopies(tensor, ptr, d.previous, tensor[previous])

Received(d) ==
  /\ phase = "open"
  /\ frames < MaxFrames
  /\ frames' = frames + 1
  /\ sync' = d.sync
  /\ spans' = Append(spans, d.span)

(* The rows before the frame fit.                                          *)
RoomBefore(d) == d.previous > 0 => Room(tensor, ptr + d.previous)

FrameEmitted(d) ==
  LET p == ptr + d.previous
      f == frames + 1
  IN /\ Received(d)
     /\ d.current > 0
     /\ RoomBefore(d)
     /\ Room(Repeated(d), p + 1)
     /\ Room(WithFrame(Repeated(d), p, f), p + d.current)
     /\ tensor' = WithCopies(WithFrame(Repeated(d), p, f), p + 1, d.current - 1, f)
     /\ ptr' = p + d.current
     /\ pts' = pts \o Stamps(d.sync.firstSlot, ptr, d.previous + d.current)
     /\ previous' = p + d.current
     /\ grew' = (grew \/ Len(tensor') > Len(tensor))
     /\ views' = views \union NewViews(p + 1, f, d.current)
     /\ UNCHANGED phase

(* Not emitted, but converted into the row past the output, where later    *)
(* gaps repeat it from.                                                    *)
FrameDropped(d) ==
  LET p == ptr + d.previous
      f == frames + 1
  IN /\ Received(d)
     /\ d.current = 0
     /\ RoomBefore(d)
     /\ FitsLimit(p + 1)
     /\ tensor' = WithFrame(Repeated(d), p, f)
     /\ ptr' = p
     /\ pts' = pts \o Stamps(d.sync.firstSlot, ptr, d.previous)
     /\ previous' = p + 1
     /\ grew' = (grew \/ Len(tensor') > Len(tensor))
     /\ views' = views \union NewViews(p + 1, f, d.current)
     /\ UNCHANGED phase

(* Not emitted, and the limit leaves no row to keep it in.                 *)
FrameForgotten(d) ==
  LET p == ptr + d.previous
  IN /\ Received(d)
     /\ d.current = 0
     /\ RoomBefore(d)
     /\ ~ FitsLimit(p + 1)
     /\ tensor' = Repeated(d)
     /\ ptr' = p
     /\ pts' = pts \o Stamps(d.sync.firstSlot, ptr, d.previous)
     /\ previous' = IF d.previous > 0 THEN p ELSE previous
     /\ grew' = (grew \/ Len(tensor') > Len(tensor))
     /\ UNCHANGED <<views, phase>>

(* The rows needed take more than the limit: the whole decode fails.       *)
FrameOverflows(d) ==
  LET p == ptr + d.previous
      f == frames + 1
  IN /\ phase = "open"
     /\ frames < MaxFrames
     /\ \/ ~ RoomBefore(d)
        \/ /\ d.current > 0
           /\ \/ ~ Room(Repeated(d), p + 1)
              \/ ~ Room(WithFrame(Repeated(d), p, f), p + d.current)
     /\ phase' = "failed"
     /\ UNCHANGED <<sync, output, frames, spans>>

Frame ==
  \E stamp \in Timestamps, duration \in Durations :
    LET d == Decision(stamp, duration)
    IN FrameEmitted(d) \/ FrameDropped(d) \/ FrameForgotten(d) \/ FrameOverflows(d)

(* The decoder, the conversion or the allocator reports an error.          *)
DecodeError ==
  /\ phase = "open"
  /\ phase' = "failed"
  /\ UNCHANGED <<sync, output, frames, spans>>

-------------------------------------------------------------------------------
(* The end of the stream.                                                  *)

Median(h) ==
  CHOOSE m \in {h[1], h[2], h[3]} :
    \E i, j \in 1 .. 3 : i # j /\ h[i] <= m /\ m <= h[j] /\ m = h[6 - i - j]

(* CfrSync.finish: the last frame repeats as recent frames did.            *)
FinalCopies ==
  LET copies == Median(sync.history) IN IF copies > MaxCopies THEN 0 ELSE copies

Finished(copies) ==
  [sync EXCEPT !.nextSlot = @ + copies, !.emitted = @ + copies]

Finish ==
  /\ phase = "open"
  /\ sync' = Finished(FinalCopies)
  /\ IF previous = NoRow \/ FinalCopies = 0
     THEN UNCHANGED output
     ELSE /\ Room(tensor, ptr + FinalCopies)
          /\ tensor' = WithCopies(tensor, ptr, FinalCopies, tensor[previous])
          /\ ptr' = ptr + FinalCopies
          /\ pts' = pts \o Stamps(sync.firstSlot, ptr, FinalCopies)
          /\ previous' = ptr + FinalCopies
          /\ grew' = (grew \/ Len(tensor') > Len(tensor))
          /\ UNCHANGED views
  /\ phase' = "flushed"
  /\ UNCHANGED <<frames, spans>>

FinishOverflows ==
  /\ phase = "open"
  /\ previous # NoRow
  /\ FinalCopies > 0
  /\ ~ Room(tensor, ptr + FinalCopies)
  /\ phase' = "failed"
  /\ UNCHANGED <<sync, output, frames, spans>>

(* trim_cli_output: the storage of a tensor that grew ends with the rows   *)
(* emitted, unless a view reaches past them.                               *)
ViewsInside == \A view \in views : view.row <= ptr

HandOut ==
  /\ phase = "flushed"
  /\ tensor' = IF grew /\ ViewsInside THEN SubSeq(tensor, 1, ptr) ELSE tensor
  /\ phase' = "done"
  /\ UNCHANGED <<sync, ptr, pts, previous, grew, views, frames, spans>>

Next ==
  \/ Frame
  \/ DecodeError
  \/ Finish
  \/ FinishOverflows
  \/ HandOut

Spec == Init /\ [][Next]_vars

-------------------------------------------------------------------------------
(* Properties.                                                             *)

(* The rows written are the slots counted: whatever was dropped, repeated, *)
(* skipped or forgotten, row r shows slot first_slot + r - 1 and carries   *)
(* that slot's timestamp, so no timestamp drifts from its row.  All rows   *)
(* lie in the tensor, and the tensor in the output limit.                  *)
TimestampsAreSlots ==
  phase # "failed" =>
    /\ ptr = sync.emitted
    /\ sync.nextSlot = sync.firstSlot + sync.emitted
    /\ Len(pts) = ptr /\ ptr <= Len(tensor) /\ Len(tensor) <= MaxRows
    /\ \A row \in 1 .. ptr : pts[row] = sync.firstSlot + row - 1

(* A view handed out as a frame goes on showing that frame: the row is an  *)
(* emitted one and is never written again, although dropped frames are     *)
(* converted into rows that later frames overwrite.                        *)
ViewsKeepTheirFrame ==
  phase # "failed" =>
    \A view \in views : view.row <= ptr /\ tensor[view.row] = view.frame

(* No row shows a frame more than 1.1 slots before the frame's own time,   *)
(* copies of it included; except a first frame that pads the start, and a  *)
(* frame refused for having too many copies, which later gaps may repeat.  *)
NeverTooEarly ==
  phase # "failed" =>
    \A row \in 1 .. ptr :
      LET f == tensor[row]
      IN f = 1 \/ spans[f].skipped \/ 10 * (spans[f].at - pts[row] * Slot) <= 11 * Slot

(* The output does not fall behind: once a frame is dealt with, and not    *)
(* refused for having too many copies, it is over by the next slot or less *)
(* than a slot later.                                                      *)
OutputKeepsUp ==
  phase = "open" /\ frames > 0 =>
    spans[frames].skipped \/ spans[frames].end - sync.nextSlot * Slot <= Slot

(* What the rows emitted show: consecutive frames, each for a run of rows; *)
(* a gap repeats the last frame decoded, even if it was itself dropped; a  *)
(* dropped frame that was not kept for want of room is never missed.       *)
Promised == INSTANCE FrameOutput
  WITH shown <- IF phase = "failed" THEN <<>> ELSE SubSeq(tensor, 1, ptr),
       last  <- IF phase = "failed" THEN 0 ELSE frames,
       phase <- IF phase = "flushed" THEN "done" ELSE phase

ImplementsFrameOutput == Promised!Spec
===============================================================================
