------------------------------- MODULE PairFrames -------------------------------
(***************************************************************************)
(* Interpolation between two frames that the caller has as tensors         *)
(* (pairwise.rs): what is refused, in which order, at which phase each     *)
(* frame is made, and where the samples of tensors and frames are.         *)
(***************************************************************************)
EXTENDS MotionSearch, Sequences

(* phase: alpha is a fraction num / den; half a step rounds up.            *)
IsBetween(num, den) == 0 < num /\ num < den
Phase(num, den) ==
  Clamped((2 * AlphaOne * num + den) \div (2 * den), 1, AlphaOne - 1)

(* A tensor is its kind, its device and its shape, as far as it matters.   *)
(* rgb_geometry: [3, H, W] is tried first, so that 3 x W x 3 is planar.    *)
Geometry(t) ==
  IF t.shape[1] = 3 THEN [h |-> t.shape[2], w |-> t.shape[3], interleaved |-> FALSE]
  ELSE [h |-> t.shape[1], w |-> t.shape[2], interleaved |-> TRUE]

IsFrame(t) ==
  /\ t.kind = "uint8" /\ t.device = "cpu"
  /\ Len(t.shape) = 3 /\ 3 \in {t.shape[1], t.shape[3]}
  /\ Geometry(t).h > 0 /\ Geometry(t).w > 0

(* interpolate_rgb_pair: the shape of what is returned.  The two may be    *)
(* laid out differently.  Without a phase nothing is converted, but the    *)
(* frames must be sound.                                                   *)
SameSize(a, b) == <<a.h, a.w>> = <<b.h, b.w>>
Result(prev, next, alphas) ==
  IF /\ \A i \in DOMAIN alphas : IsBetween(alphas[i][1], alphas[i][2])
     /\ IsFrame(prev) /\ IsFrame(next) /\ SameSize(Geometry(prev), Geometry(next))
  THEN <<Len(alphas), 3, Geometry(prev).h, Geometry(prev).w>>
  ELSE "refused"

-------------------------------------------------------------------------------
(* Where the sample of component c in column x of row y is:                *)

(* in the bytes copied out of a tensor, in the order of its shape,         *)
TensorAt(g, c, y, x) ==
  IF g.interleaved THEN (y * g.w + x) * 3 + c ELSE c * (g.h * g.w) + y * g.w + x

(* in an rgb24 frame, of which rgb24_span tells the bytes,                 *)
FrameAt(stride, c, y, x) == y * stride + 3 * x + c
Span(stride, g) == stride * (g.h - 1) + 3 * g.w

(* in the slot of frame i of the bytes that are returned, one frame of     *)
(* three planes after the other,                                           *)
Slot(g, i) == i * (3 * (g.h * g.w))
SlotAt(g, i, c, y, x) == Slot(g, i) + c * (g.h * g.w) + (y * g.w + x)

(* and in a contiguous tensor of shape [n, 3, h, w].                       *)
ResultAt(g, i, c, y, x) == ((i * 3 + c) * g.h + y) * g.w + x

Geometries == [h : Nat \ {0}, w : Nat \ {0}, interleaved : BOOLEAN]
================================================================================
