------------------------------ MODULE MotionSearch ------------------------------
(***************************************************************************)
(* The motion interpolator (motion.rs): where it reads and writes, and in  *)
(* which order it fills its motion field.  Planes are copied into buffers  *)
(* with a replicated border so that no read has to be clipped; that this   *)
(* holds for every frame size is arithmetic, and so is that 16 bits are    *)
(* enough for the sums.  VideoProofs proves both.                   *)
(*                                                                         *)
(* What the pixels are decides which vector is cheaper: here either may    *)
(* be.  Positions are pairs <<x, y>>, and a block is its position in the   *)
(* grid of blocks, in which the code counts row by row.                    *)
(***************************************************************************)
EXTENDS Common

CONSTANTS
  Size,    \* of the luma plane: <<width, height>>
  Shift    \* chroma subsampling, log2 of each axis

Axes      == 1 .. 2
Block     == 16
Window    == 32
Half      == 8
Search    == 32
Pad       == 128
AlphaOne  == 256
U16       == 65536

Luma == <<0, 0>>
Subsamplings == {<<0, 0>>, <<1, 0>>, <<1, 1>>}

(* Layout::new refuses anything else, with the number of samples a chroma  *)
(* sample stands for along an axis.                                        *)
IsLayout == Size \in (Nat \ {0}) \X (Nat \ {0}) /\ Shift \in Subsamplings
Step(shift, d) == IF shift[d] = 1 THEN 2 ELSE 1

CeilDiv(a, n)   == (a + n - 1) \div n
Truncated(a, n) == IF a >= 0 THEN a \div n ELSE - ((- a) \div n)
Clamped(a, lo, hi) == IF a < lo THEN lo ELSE IF a > hi THEN hi ELSE a

Median3(a, b, c) == MinOf(MaxOf(a, b), MaxOf(MinOf(a, b), c))

(* The planes: luma under Luma, chroma under Shift.                        *)
PlaneSize(shift) == [d \in Axes |-> CeilDiv(Size[d], Step(shift, d))]
Blocks(d)        == CeilDiv(Size[d], Block)
Grid             == (0 .. Blocks(1) - 1) \X (0 .. Blocks(2) - 1)

-------------------------------------------------------------------------------
(* A plane of a frame, with samples of one byte or two, is borrowed if its *)
(* rows are as far apart as they are long.  The last of them need not be   *)
(* followed by anything.                                                   *)

Depths == {1, 2}
LongEnough(stride, size, depth) == size[1] * depth <= stride
Borrowed(stride, size, depth)   == stride * (size[2] - 1) + size[1] * depth
SourceRow(stride, y)            == y * stride

(* PaddedPlane: the rows' stride, the bytes in all, and where a sample is, *)
(* which may lie up to Pad outside the frame.                              *)
Stride(size)      == 64 * CeilDiv(size[1] + 2 * Pad, 64)
Bytes(size)       == Stride(size) * (size[2] + 2 * Pad)
Index(size, x, y) == (y + Pad) * Stride(size) + x + Pad

(* fill: the sample that is copied to column and row <<x, y>>.             *)
Replicated(size, x, y) == <<Clamped(x, 0, size[1] - 1), Clamped(y, 0, size[2] - 1)>>

-------------------------------------------------------------------------------
(* What cost reads: n samples from <<x, y>>, on each of the window's rows. *)

InSearch(mv)  == \A d \in Axes : mv[d] \in -Search .. Search
CostFrom(at, mv, sign, row) ==
  <<Block * at[1] + sign * mv[1] - Half, Block * at[2] + sign * mv[2] - Half + row>>

(* The predictors: neighbours estimated already, and what the two          *)
(* estimates before this one found at the same place and beside it.        *)
Left(at)    == <<at[1] - 1, at[2]>>
Right(at)   == <<at[1] + 1, at[2]>>
Above(at)   == <<at[1], at[2] - 1>>
Below(at)   == <<at[1], at[2] + 1>>
AboveRight(at) == <<at[1] + 1, at[2] - 1>>

Spatial(at) ==
  {q \in {Left(at), Above(at), AboveRight(at)} : q \in Grid}
Temporal(at) ==
  {q \in {Left(at), Above(at), Right(at), Below(at)} : q \in Grid}

Zero == <<0, 0>>
VectorAt(field, q) == IF q \in Grid THEN field[q] ELSE Zero
Predicted(field, at) ==
  LET a == VectorAt(field, Left(at))
      b == VectorAt(field, Above(at))
      c == VectorAt(field, AboveRight(at))
  IN IF Above(at) \notin Grid THEN a
     ELSE IF Left(at) \notin Grid /\ AboveRight(at) \notin Grid THEN b
     ELSE <<Median3(a[1], b[1], c[1]), Median3(a[2], b[2], c[2])>>

Candidates(field, before, before2, at) ==
  {Predicted(field, at), Zero, before[at],
   <<2 * before[at][1] - before2[at][1], 2 * before[at][2] - before2[at][2]>>}
  \union {field[q] : q \in Spatial(at)} \union {before[q] : q \in Temporal(at)}

Around(mv) ==
  {<<mv[1] - 1, mv[2]>>, <<mv[1], mv[2] - 1>>, <<mv[1] + 1, mv[2]>>, <<mv[1], mv[2] + 1>>}

-------------------------------------------------------------------------------
(* estimate, block by block.                                               *)

VARIABLES
  mvs, mvsPrev, mvsPrev2,  \* the motion field, and the two before it
  at,       \* the block that is searched, or Idle
  best,     \* its cheapest vector so far
  fresh     \* the blocks of mvs that are of this estimate: history

vars == <<mvs, mvsPrev, mvsPrev2, at, best, fresh>>

Idle    == <<-1, -1>>
Vectors == (-Search .. Search) \X (-Search .. Search)
Still   == [b \in Grid |-> Zero]

Init ==
  /\ mvs = Still /\ mvsPrev = Still /\ mvsPrev2 = Still
  /\ at = Idle
  /\ best = Zero
  /\ fresh = {}

(* The fields change places; the oldest will be overwritten.               *)
Estimate ==
  /\ at = Idle
  /\ mvsPrev2' = mvsPrev
  /\ mvsPrev' = mvs
  /\ mvs' = mvsPrev2
  /\ fresh' = {}
  /\ at' = Zero
  /\ \E mv \in Candidates(mvs', mvsPrev', mvsPrev2', Zero) : InSearch(mv) /\ best' = mv

(* One of the four vectors around the best is cheaper: the search goes on. *)
Refine ==
  /\ at # Idle
  /\ \E mv \in Around(best) : InSearch(mv) /\ best' = mv
  /\ UNCHANGED <<mvs, mvsPrev, mvsPrev2, at, fresh>>

(* None is: the block is done, and the next one is searched from whichever *)
(* of its candidates is the cheapest.                                      *)
Following(b) ==
  IF Right(b) \in Grid THEN Right(b)
  ELSE IF <<0, b[2] + 1>> \in Grid THEN <<0, b[2] + 1>>
  ELSE Idle

Settle ==
  /\ at # Idle
  /\ mvs' = [mvs EXCEPT ![at] = best]
  /\ fresh' = fresh \union {at}
  /\ at' = Following(at)
  /\ IF at' = Idle THEN best' = best
     ELSE \E mv \in Candidates(mvs', mvsPrev, mvsPrev2, at') : InSearch(mv) /\ best' = mv
  /\ UNCHANGED <<mvsPrev, mvsPrev2>>

Next == Estimate \/ Refine \/ Settle

Spec == Init /\ [][Next]_vars

-------------------------------------------------------------------------------
(* compensate, for a plane: each block of the grid and of a ring around it *)
(* is a window of samples of either frame along its vector, weighted and   *)
(* added up.                                                               *)

Ring == (-1 .. Blocks(1)) \X (-1 .. Blocks(2))
Nearest(b) == <<Clamped(b[1], 0, Blocks(1) - 1), Clamped(b[2], 0, Blocks(2) - 1)>>

BlockOf(shift, d)  == Block \div Step(shift, d)
WindowOf(shift, d) == Window \div Step(shift, d)

ToPrev(c, alpha) == Truncated(2 * c * alpha, AlphaOne)
ToNext(c, alpha) == Truncated(- (2 * c) * (AlphaOne - alpha), AlphaOne)

WindowAt(shift, b, d) == b[d] * BlockOf(shift, d) - BlockOf(shift, d) \div 2
FromPrev(shift, b, mv, alpha, d) ==
  WindowAt(shift, b, d) + Truncated(ToPrev(mv[d], alpha), Step(shift, d))
FromNext(shift, b, mv, alpha, d) ==
  WindowAt(shift, b, d) + Truncated(ToNext(mv[d], alpha), Step(shift, d))

(* The accumulator: a block and a half before the frame, as much after it. *)
Offset(shift, d)   == BlockOf(shift, d) + BlockOf(shift, d) \div 2
AccSize(shift, d)  == (Blocks(d) + 3) * BlockOf(shift, d)
AccAt(shift, b, d) == WindowAt(shift, b, d) + Offset(shift, d)

(* obmc_window, and the window of a subsampled plane.                      *)
Tent(i)      == IF i < Block THEN 2 * i + 1 ELSE 4 * Block - 1 - 2 * i
Weight(i, j) == 4 * ((Tent(i) * Tent(j) + 8) \div 16)
WeightOf(shift, i, j) ==
  IF shift = <<0, 0>> THEN Weight(i, j)
  ELSE IF shift = <<1, 0>> THEN (Weight(2 * i, j) + Weight(2 * i + 1, j)) \div 2
  ELSE (Weight(2 * i, 2 * j) + Weight(2 * i + 1, 2 * j)
        + Weight(2 * i, 2 * j + 1) + Weight(2 * i + 1, 2 * j + 1)) \div 4

(* A sample of the two frames in the proportion alpha; of a deep one twice *)
(* the bits are summed.                                                    *)
Levels(depth) == IF depth = 1 THEN 256 ELSE 65536
MixedSum(a, b, alpha) == (AlphaOne - alpha) * a + alpha * b + 128
MixedSample(a, b, alpha) == MixedSum(a, b, alpha) \div 256

(* The sample that the sum of the weighted ones stands for.                *)
OutputSample(sum) == (sum + 128) \div 256

-------------------------------------------------------------------------------
(* Properties.                                                             *)

(* n samples from <<x, y>> lie in the border's reach: the buffer has them, *)
(* and they are those of the row meant, not of the next one's border.      *)
RowInside(size, x, y, n) ==
  /\ -Pad <= x /\ x + n <= size[1] + Pad
  /\ -Pad <= y /\ y < size[2] + Pad

(* The field never holds a vector that is out of the search's range: the   *)
(* border is made for no more.  What is read of it as a neighbour's vector *)
(* was found in this estimate: the field in which they are written starts  *)
(* out as that of three estimates ago.                                     *)
FieldBounded ==
  /\ mvs \in [Grid -> Vectors] /\ mvsPrev \in [Grid -> Vectors] /\ mvsPrev2 \in [Grid -> Vectors]
  /\ best \in Vectors
NeighboursFresh == at # Idle => Spatial(at) \subseteq fresh

(* Whatever is searched, the two windows compared lie in the buffers       *)
(* (motion.rs:50: "Reads reach at most a block plus the window margin plus *)
(* a full motion vector (2 * SEARCH) outside").                            *)
SearchReadsInside ==
  at # Idle =>
    \A mv \in Vectors, sign \in {-1, 1}, row \in 0 .. Window - 1 :
      RowInside(PlaneSize(Luma), CostFrom(at, mv, sign, row)[1],
                CostFrom(at, mv, sign, row)[2], Window)
===============================================================================
