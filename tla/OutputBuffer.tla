------------------------------ MODULE OutputBuffer ------------------------------
(***************************************************************************)
(* The memory of an output tensor that may grow while views of it are      *)
(* held (alloc.rs and its C++ shim): a tensor refers to a storage, views   *)
(* of it share that storage, and the storage owns a buffer it frees when   *)
(* the last tensor that refers to it goes.  Growing swaps the buffers of   *)
(* two storages; trimming lowers the storage's size under its views.       *)
(*                                                                         *)
(* Storage and buffer n are those of the n-th allocation.  Sizes are in    *)
(* rows.  Growth is a step per call that can fail; the decoding thread     *)
(* runs them in order, and after the hand-out the tensor and its views are *)
(* dropped in any order, on any thread.                                    *)
(***************************************************************************)
EXTENDS Integers, Sequences, FiniteSets

CONSTANTS
  Planned,      \* rows of the planned tensor
  MaxRows,      \* rows it may grow to
  MaxGrowths    \* times it grows (a model bound)

ASSUME BufferAssumption ==
  /\ Planned \in Nat \ {0}
  /\ MaxRows \in Nat /\ Planned <= MaxRows
  /\ MaxGrowths \in Nat

VARIABLES
  buffers,   \* what the rows of every buffer allocated hold: a row's number
  frees,     \* how often the deleter of every buffer has run
  storages,  \* the buffer and the size of every storage
  output,    \* frame_data: its storage and rows, or Gone
  grown,     \* the tensor grow_rows allocates, or Gone
  views,     \* the frames: views of one row of a storage
  written,   \* frame_data_ptr: rows written
  growing,   \* the next step of grow_rows, "no" outside of it
  phase      \* "open", "handed" or "failed"

vars == <<buffers, frees, storages, output, grown, views, written, growing, phase>>

Gone == [storage |-> 0, rows |-> 0]
Spare == MaxRows + 1
Blank(rows) == [row \in 1 .. rows |-> 0]

Init ==
  /\ buffers = <<Blank(Planned)>>
  /\ frees = <<0>>
  /\ storages = <<[buffer |-> 1, size |-> Planned]>>
  /\ output = [storage |-> 1, rows |-> Planned]
  /\ grown = Gone
  /\ views = {}
  /\ written = 0
  /\ growing = "no"
  /\ phase = "open"

-------------------------------------------------------------------------------
(* Tensors come and go.                                                    *)

(* The storages some tensor refers to.                                     *)
Referred(out, extra, seen) ==
  {s \in DOMAIN storages : s \in {out.storage, extra.storage} \/ \E view \in seen : view.storage = s}

(* The tensors left; a storage none of them refers to frees its buffer.    *)
Leaves(out, extra, seen) ==
  LET lost == Referred(output, grown, views) \ Referred(out, extra, seen)
  IN /\ output' = out
     /\ grown' = extra
     /\ views' = seen
     /\ frees' = [b \in DOMAIN frees |->
                    frees[b] + Cardinality({s \in lost : storages[s].buffer = b})]

(* The buffer a tensor of the storage reads and writes.                    *)
BufferOf(s) == storages[s].buffer

(* The decoder writes the next row, and a frame that is a view of it.      *)
Write ==
  /\ phase = "open" /\ growing = "no"
  /\ written < output.rows
  /\ buffers' = [buffers EXCEPT ![BufferOf(output.storage)][written + 1] = written + 1]
  /\ written' = written + 1
  /\ views' = views \union {[storage |-> output.storage, row |-> written + 1]}
  /\ UNCHANGED <<frees, storages, output, grown, growing, phase>>

(* A frame that is not emitted is written there too, and its view dropped. *)
WriteSpare ==
  /\ phase = "open" /\ growing = "no"
  /\ written < output.rows
  /\ buffers' = [buffers EXCEPT ![BufferOf(output.storage)][written + 1] = Spare]
  /\ UNCHANGED <<frees, storages, output, grown, views, written, growing, phase>>

(* An error ends the decode: everything goes.                              *)
Fails ==
  /\ phase' = "failed"
  /\ growing' = "no"
  /\ Leaves(Gone, Gone, {})

-------------------------------------------------------------------------------
(* grow_rows.  It is called when the next row does not fit.                *)

GrowAllocate ==
  /\ phase = "open" /\ growing = "no"
  /\ written = output.rows /\ output.rows < MaxRows
  /\ Len(buffers) <= MaxGrowths
  /\ \E rows \in output.rows + 1 .. MaxRows :
       /\ buffers' = Append(buffers, Blank(rows))
       /\ frees' = Append(frees, 0)
       /\ storages' = Append(storages, [buffer |-> Len(buffers) + 1, size |-> rows])
       /\ grown' = [storage |-> Len(storages) + 1, rows |-> rows]
  /\ growing' = "copy"
  /\ UNCHANGED <<output, views, written, phase>>

(* f_narrow(0, 0, old_rows).f_copy_(tensor).                               *)
CopyShort == output.rows - 1           \* mutant: one row short
CopyTo == output.rows

GrowCopy ==
  /\ growing = "copy"
  /\ LET from == buffers[BufferOf(output.storage)]
     IN buffers' = [buffers EXCEPT ![BufferOf(grown.storage)] =
                      [row \in 1 .. Len(@) |-> IF row <= CopyTo THEN from[row] ELSE @[row]]]
  /\ growing' = "swap"
  /\ UNCHANGED <<frees, storages, output, grown, views, written, phase>>

CopiedOver(a, b) == [storages EXCEPT ![a] = storages[b]]  \* mutant: one way only
Swapped(a, b) == [storages EXCEPT ![a] = storages[b], ![b] = storages[a]]

GrowSwap ==
  /\ growing = "swap"
  /\ storages' = Swapped(output.storage, grown.storage)
  /\ growing' = "stride"
  /\ UNCHANGED <<buffers, frees, output, grown, views, written, phase>>

(* *tensor = tensor.as_strided(..), then `grown` is dropped.               *)
Adopted == [storage |-> grown.storage, rows |-> grown.rows]   \* mutant: grown replaces it
Restrided == [storage |-> output.storage, rows |-> grown.rows]

GrowStride ==
  /\ growing = "stride"
  /\ growing' = "no"
  /\ Leaves(Restrided, Gone, views)
  /\ UNCHANGED <<buffers, storages, written, phase>>

(* Allocating, copying, swapping or restriding fails: `grown` is dropped   *)
(* with everything else.  A decode can fail outside of growth as well.     *)
GrowFails ==
  /\ phase = "open"
  /\ Fails
  /\ UNCHANGED <<buffers, storages, written>>

-------------------------------------------------------------------------------
(* The hand-out.                                                           *)

(* trim_cli_output's guard: no frame view reaches past the rows written.   *)
ViewsInside == \A view \in views : view.row <= written

SizeOf == written

(* A tensor that grew is trimmed, best effort: the shim may fail before it *)
(* lowers the size, or restriding after it.  Either way what is handed out *)
(* is the first rows.                                                      *)
HandOut ==
  /\ phase = "open" /\ growing = "no"
  /\ \/ /\ Len(buffers) > 1 /\ output.rows > written /\ ViewsInside
        /\ storages' = [storages EXCEPT ![output.storage].size = SizeOf]
     \/ UNCHANGED storages
  /\ output' = [output EXCEPT !.rows = written]
  /\ phase' = "handed"
  /\ UNCHANGED <<buffers, frees, grown, views, written, growing>>

(* The caller drops the tensor or one of the frames.                       *)
DropOutput ==
  /\ phase = "handed" /\ output # Gone
  /\ Leaves(Gone, grown, views)
  /\ UNCHANGED <<buffers, storages, written, growing, phase>>

DropView ==
  /\ phase = "handed"
  /\ \E view \in views : Leaves(output, grown, views \ {view})
  /\ UNCHANGED <<buffers, storages, written, growing, phase>>

Done ==
  /\ phase \in {"handed", "failed"} /\ output = Gone /\ views = {}
  /\ UNCHANGED vars

Next ==
  \/ Write
  \/ WriteSpare
  \/ GrowAllocate
  \/ GrowCopy
  \/ GrowSwap
  \/ GrowStride
  \/ GrowFails
  \/ HandOut
  \/ DropOutput
  \/ DropView
  \/ Done

Spec == Init /\ [][Next]_vars

-------------------------------------------------------------------------------
(* Properties.                                                             *)

Live == Referred(output, grown, views)

(* No tensor, view or storage refers to a buffer whose deleter has run,    *)
(* two storages never own one buffer, and no deleter runs twice: not even  *)
(* when growth fails between two of its calls.                             *)
NoUseAfterFree ==
  /\ \A s \in Live : frees[BufferOf(s)] = 0
  /\ \A s, t \in Live : BufferOf(s) = BufferOf(t) => s = t
  /\ \A b \in DOMAIN frees : frees[b] <= 1

(* A buffer no storage of a live tensor owns has been freed: the one that  *)
(* growth supersedes at once, however many views were made of it.          *)
SupersededIsFreed ==
  /\ \A b \in DOMAIN frees : (\E s \in Live : BufferOf(s) = b) \/ frees[b] = 1
  /\ growing = "no" => Cardinality({b \in DOMAIN frees : frees[b] = 0}) <= 1

(* A view shows the row it was made for through every growth, and all the  *)
(* caller gets lies inside its storage, whichever call of the last growth  *)
(* or of the trimming failed.                                              *)
ViewsKeepTheirRow ==
  /\ \A view \in views : buffers[BufferOf(view.storage)][view.row] = view.row
  /\ phase = "handed" =>
       /\ output # Gone => output.rows <= storages[output.storage].size
       /\ \A view \in views : view.row <= storages[view.storage].size

===============================================================================
