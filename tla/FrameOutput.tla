------------------------------ MODULE FrameOutput ------------------------------
(***************************************************************************)
(* What a constant-frame-rate output promises, whatever the timestamps:    *)
(* the frames come out in decode order, each a number of times in a row;   *)
(* a gap is filled with the last frame that was decoded, emitted itself or *)
(* not; or the decode fails and there is no output.                        *)
(***************************************************************************)
EXTENDS Naturals, Sequences

VARIABLES
  shown,   \* the frames emitted so far, numbered in decode order
  last,    \* the last frame decoded, 0 before the first
  phase    \* "open", "done" or "failed"

vars == <<shown, last, phase>>

Copies(f, n) == [i \in 1 .. n |-> f]

Init ==
  /\ shown = <<>>
  /\ last = 0
  /\ phase = "open"

(* A frame follows copies of the one before it, when there was one.        *)
Frame ==
  /\ phase = "open"
  /\ last' = last + 1
  /\ \E before, own \in 0 .. Len(shown') :
       /\ last = 0 => before = 0
       /\ shown' = shown \o Copies(last, before) \o Copies(last', own)
  /\ phase' = phase

End ==
  /\ phase = "open"
  /\ \E more \in 0 .. Len(shown') : shown' = shown \o Copies(last, more)
  /\ phase' = "done"
  /\ last' = last

Fail ==
  /\ phase = "open"
  /\ phase' = "failed"
  /\ shown' = <<>>
  /\ last' = 0

Next == Frame \/ End \/ Fail

Spec == Init /\ [][Next]_vars
===============================================================================
