------------------------------ MODULE CutDetector ------------------------------
(***************************************************************************)
(* The scene-cut detector (scenecut.rs): a pair of frames is a cut when    *)
(* their thumbnails differ far more than those of the pairs before them    *)
(* and the blocks of one are not found in the other.                       *)
(*                                                                         *)
(* What is measured of a pair is data: the difference, in quarters of a    *)
(* level, and the correlation, in hundredths, or None when the thumbnail   *)
(* is too small for it.                                                    *)
(***************************************************************************)
EXTENDS Integers, Sequences, SequencesExt

CONSTANTS
  History,     \* pair differences that are remembered
  MinHistory,  \* of these before their median is trusted
  None

RepeatDiff   == 2
SpikeMinDiff == 32
DiffFloor    == 1
NccStrict    == 50
NccCut       == 80
NccJump      == 95

MaxOf(a, b) == IF a <= b THEN b ELSE a

(* Twice the median, 0 of nothing.                                         *)
TwiceMedian(values) ==
  LET sorted == SortSeq(values, <=)
      n      == Len(values)
  IN IF n = 0 THEN 0 ELSE sorted[n \div 2 + 1] + sorted[(n + 1) \div 2]

(* CutDetector: the frame fed before, 0 if there is none, and the recent   *)
(* differences, oldest first.                                              *)
NewDetector == [prev |-> 0, history |-> <<>>]

(* d is at least `times` what came before it.                              *)
OverMedian(history, d, times) == 2 * d >= times * MaxOf(TwiceMedian(history), 2 * DiffFloor)
OverLast(history, d, times) ==
  d >= times * MaxOf(IF history = <<>> THEN 0 ELSE Last(history), DiffFloor)

IsRepeat(d) == d < RepeatDiff

IsCut(history, d, ncc) ==
  LET warm == Len(history) >= MinHistory
  IN /\ ~ IsRepeat(d) /\ d >= SpikeMinDiff
     /\ OverLast(history, d, 2) /\ OverMedian(history, d, 2)
     /\ IF ncc = None THEN warm /\ OverMedian(history, d, 3)
        ELSE \/ ncc < NccStrict
             \/ warm /\ OverMedian(history, d, 3) /\ ncc < NccCut
             \/ warm /\ OverMedian(history, d, 6) /\ OverLast(history, d, 6) /\ ncc < NccJump

(* Repeated frames are not remembered.                                     *)
RememberedAll(history, d) ==           \* mutant: they are
  IF Len(history) = History THEN Append(Tail(history), d) ELSE Append(history, d)
Remembered(history, d) ==
  IF IsRepeat(d) THEN history
  ELSE IF Len(history) = History THEN Append(Tail(history), d) ELSE Append(history, d)

(* push: whether there is a cut, and the detector after it.                *)
SeesCut(detector, d, ncc) == detector.prev # 0 /\ IsCut(detector.history, d, ncc)
Fed(detector, i, d) ==
  [prev |-> i,
   history |-> IF detector.prev = 0 THEN detector.history ELSE Remembered(detector.history, d)]
===============================================================================
