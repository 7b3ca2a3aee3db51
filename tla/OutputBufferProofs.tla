-------------------------- MODULE OutputBufferProofs --------------------------
(***************************************************************************)
(* What OutputBuffer guarantees for tensors of any size and any number of  *)
(* growths.  The output is always a tensor of the first storage, into      *)
(* which growth swaps one new buffer after the other; besides it only the  *)
(* storage that is being grown into has a tensor.                          *)
(***************************************************************************)
EXTENDS OutputBuffer, FiniteSetTheorems, SequenceTheorems, TLAPS

Newest == Len(buffers)

TypeInv ==
  /\ buffers \in Seq(Seq(Nat)) /\ Newest >= 1
  /\ frees \in Seq(Nat) /\ Len(frees) = Newest
  /\ storages \in Seq([buffer : Nat, size : Nat]) /\ Len(storages) = Newest
  /\ output \in [storage : Nat, rows : Nat]
  /\ grown \in [storage : Nat, rows : Nat]
  /\ written \in Nat
  /\ \A view \in views : view.storage = 1 /\ view.row \in 1 .. written
  /\ growing \in {"no", "copy", "swap", "stride"}
  /\ phase \in {"open", "handed", "failed"}

(* Which tensors there are.                                                *)
TensorInv ==
  /\ phase = "open" => output.storage = 1
  /\ phase = "handed" => output = Gone \/ output.storage = 1
  /\ phase # "open" => growing = "no"
  /\ phase = "failed" => output = Gone /\ views = {}
  /\ IF growing = "no" THEN grown = Gone ELSE grown.storage = Newest /\ Newest >= 2

(* Which buffers they have: before the swap the new one is the newest      *)
(* storage's, after it the first's.                                        *)
BufferInv ==
  /\ growing \in {"no", "stride"} /\ phase # "failed" => BufferOf(1) = Newest
  /\ growing = "stride" => BufferOf(Newest) = Newest - 1
  /\ growing \in {"copy", "swap"} => BufferOf(Newest) = Newest /\ BufferOf(1) = Newest - 1

(* A buffer has been freed once, and not before no tensor has it.          *)
Owned == {BufferOf(s) : s \in Live}
FreedInv == \A b \in 1 .. Newest : frees[b] = IF b \in Owned THEN 0 ELSE 1

(* How large storages are.                                                 *)
SizeInv ==
  /\ phase = "open" =>
       /\ written <= output.rows /\ output.rows <= storages[1].size
       /\ \A s \in Live : storages[s].size = Len(buffers[BufferOf(s)])
       /\ growing # "no" => output.rows < grown.rows
       /\ growing \in {"copy", "swap"} => storages[Newest].size = grown.rows
       /\ growing = "stride" => storages[1].size = grown.rows
  /\ phase = "handed" =>
       /\ output # Gone => output.rows <= storages[1].size
       /\ \A view \in views : view.row <= storages[1].size

(* What rows hold.                                                         *)
RowInv ==
  /\ \A view \in views : buffers[BufferOf(1)][view.row] = view.row
  /\ growing = "swap" => \A view \in views : buffers[Newest][view.row] = view.row

IInv == TypeInv /\ TensorInv /\ BufferInv /\ FreedInv /\ SizeInv /\ RowInv

-------------------------------------------------------------------------------
(* A function on 1 .. n is a sequence of length n.                         *)
LEMMA FunctionIsSeq ==
  ASSUME NEW S, NEW n \in Nat, NEW f \in [1 .. n -> S]
  PROVE  f \in Seq(S) /\ Len(f) = n
<1>1. f \in Seq(S)
  BY SeqDef
<1>2. Len(f) \in Nat /\ 1 .. Len(f) = 1 .. n
  BY <1>1, LenProperties
<1>q. QED
  BY <1>1, <1>2

(* The storages with a tensor.                                             *)
LiveAre ==
  /\ growing = "no" => Live \subseteq {1}
  /\ growing = "no" /\ phase = "open" => Live = {1}
  /\ growing # "no" => Live = {1, Newest}
  /\ Live \subseteq 1 .. Newest
  /\ phase = "failed" => Live = {}
  /\ phase = "handed" /\ (output # Gone \/ views # {}) => Live = {1}

LEMMA LiveStorages == TypeInv /\ TensorInv => LiveAre
<1> SUFFICES ASSUME TypeInv, TensorInv PROVE LiveAre
  OBVIOUS
<1> USE DEF Live, Referred, Gone, TypeInv, TensorInv
<1>1. 1 \in DOMAIN storages /\ 0 \notin DOMAIN storages /\ Newest \in DOMAIN storages
         /\ DOMAIN storages = 1 .. Newest
  BY DEF Newest
<1>2. \A view \in views : view.storage = 1
  OBVIOUS
<1>3. Live \subseteq 1 .. Newest
  BY <1>1
<1>4. ASSUME growing = "no" PROVE Live \subseteq {1}
  BY <1>1, <1>2, <1>4
<1>5. ASSUME growing # "no" PROVE Live = {1, Newest}
  BY <1>1, <1>2, <1>5
<1>6. ASSUME growing = "no", phase = "open" PROVE Live = {1}
  BY <1>1, <1>2, <1>6
<1>7. ASSUME phase = "failed" PROVE Live = {}
  BY <1>1, <1>2, <1>7
<1>8. ASSUME phase = "handed", output # Gone \/ views # {} PROVE Live = {1}
  <2>1. CASE output # Gone
    BY <1>1, <1>2, <1>4, <1>8, <2>1
  <2>2. CASE views # {}
    <3>1. PICK view \in views : view.storage = 1
      BY <1>2, <2>2
    <3>q. QED
      BY <1>1, <1>4, <1>8, <3>1
  <2>q. QED
    BY <1>8, <2>1, <2>2
<1>q. QED
  BY <1>3, <1>4, <1>5, <1>6, <1>7, <1>8 DEF LiveAre

LEMMA LiveStoragesNext == TypeInv' /\ TensorInv' => LiveAre'
BY LiveStorages, PTL

(* No two of them have one buffer.                                         *)
LEMMA OwnersDiffer ==
  ASSUME TypeInv, TensorInv, BufferInv
  PROVE  \A s, t \in Live : BufferOf(s) = BufferOf(t) => s = t
<1>1. CASE growing = "no"
  BY <1>1, LiveStorages DEF LiveAre
<1>2. CASE growing # "no"
  <2>1. Live = {1, Newest} /\ Newest \in Nat /\ Newest >= 2
    BY <1>2, LiveStorages DEF LiveAre, TensorInv, TypeInv, Newest
  <2>2. BufferOf(1) # BufferOf(Newest)
    BY <1>2, <2>1 DEF BufferInv, TypeInv, TensorInv
  <2>q. QED
    BY <2>1, <2>2
<1>q. QED
  BY <1>1, <1>2

(* When tensors go, exactly the buffers they alone had are freed.          *)
LEMMA LeavingFrees ==
  ASSUME TypeInv, FreedInv, NEW out, NEW extra, NEW seen,
         \A s, t \in Live : BufferOf(s) = BufferOf(t) => s = t,
         Referred(out, extra, seen) \subseteq Live,
         Live \subseteq 1 .. Newest,
         Leaves(out, extra, seen), UNCHANGED <<buffers, storages>>
  PROVE  FreedInv' /\ frees' \in Seq(Nat) /\ Len(frees') = Newest'
<1> DEFINE lost == Live \ Referred(out, extra, seen)
           Of(b) == {s \in lost : storages[s].buffer = b}
<1>1. frees' = [b \in DOMAIN frees |-> frees[b] + Cardinality(Of(b))]
  BY DEF Leaves, Live
<1>2. Live' = Referred(out, extra, seen)
  BY DEF Leaves, Live, Referred
<1>3. DOMAIN frees = 1 .. Newest
  BY DEF TypeInv
<1>5. ASSUME NEW b \in 1 .. Newest
      PROVE  frees'[b] = IF b \in Owned' THEN 0 ELSE 1
  <2>1. frees'[b] = frees[b] + Cardinality(Of(b))
    BY <1>1, <1>3
  <2>2. Owned' = {BufferOf(s) : s \in Live'}
    BY DEF Owned, BufferOf
  <2>3. CASE b \in Owned'
    <3>1. PICK s \in Live' : BufferOf(s) = b
      BY <2>2, <2>3
    <3>2. Of(b) = {}
      BY <1>2, <3>1 DEF BufferOf
    <3>3. b \in Owned
      BY <1>2, <3>1 DEF Owned
    <3>4. Cardinality(Of(b)) = 0
      BY <3>2, FS_EmptySet
    <3>q. QED
      BY <2>1, <2>3, <3>3, <3>4 DEF FreedInv
  <2>4. CASE b \notin Owned' /\ b \in Owned
    <3>1. PICK s \in Live : BufferOf(s) = b
      BY <2>4 DEF Owned
    <3>2. s \in lost
      BY <1>2, <2>2, <2>4, <3>1
    <3>3. Of(b) = {s}
      BY <3>1, <3>2 DEF BufferOf
    <3>4. Cardinality(Of(b)) = 1
      BY <3>3, FS_Singleton
    <3>q. QED
      BY <2>1, <2>4, <3>4 DEF FreedInv
  <2>5. CASE b \notin Owned
    <3>1. Of(b) = {}
      BY <2>5 DEF Owned, BufferOf
    <3>2. b \notin Owned'
      BY <1>2, <2>2, <2>5 DEF Owned
    <3>3. Cardinality(Of(b)) = 0
      BY <3>1, FS_EmptySet
    <3>q. QED
      BY <2>1, <2>5, <3>2, <3>3 DEF FreedInv
  <2>q. QED
    BY <2>3, <2>4, <2>5
<1>6. Newest' = Newest
  BY DEF Newest
<1>7. frees' \in [1 .. Newest -> Nat]
  BY <1>1, <1>3, <1>5
<1>8. Newest \in Nat
  BY DEF TypeInv, Newest
<1>9. frees' \in Seq(Nat) /\ Len(frees') = Newest
  BY <1>7, <1>8, FunctionIsSeq
<1>q. QED
  BY <1>5, <1>6, <1>9 DEF FreedInv

-------------------------------------------------------------------------------
(* One tensor of blank rows.                                               *)
LEMMA InitSafe == Init => IInv
<1> SUFFICES ASSUME Init PROVE IInv
  OBVIOUS
<1> USE DEF Init
<1>1. Blank(Planned) \in Seq(Nat) /\ Len(Blank(Planned)) = Planned
  BY BufferAssumption, FunctionIsSeq DEF Blank
<1>2. TypeInv
  BY <1>1, BufferAssumption DEF TypeInv, Newest, Gone
<1>3. TensorInv /\ BufferInv
  BY DEF TensorInv, BufferInv, BufferOf, Newest
<1>4. Live = {1}
  BY <1>2, <1>3, LiveStorages DEF LiveAre
<1>5. FreedInv
  BY <1>4 DEF FreedInv, Owned, BufferOf, Newest
<1>6. SizeInv
  BY <1>1, <1>4, BufferAssumption DEF SizeInv, BufferOf
<1>7. RowInv
  BY DEF RowInv
<1>q. QED
  BY <1>2, <1>3, <1>5, <1>6, <1>7 DEF IInv

(* Writing the next row, kept or spare, disturbs no other.                 *)
LEMMA WriteSafe ==
  ASSUME IInv, Write \/ WriteSpare
  PROVE  IInv'
<1> USE DEF IInv
<1> DEFINE b == BufferOf(1)
<1>0. /\ phase = "open" /\ growing = "no" /\ written < output.rows /\ output.storage = 1
      /\ UNCHANGED <<frees, storages, output, grown, growing, phase>>
      /\ b = Newest /\ Newest \in Nat \ {0} /\ buffers[b] \in Seq(Nat)
      /\ written \in Nat /\ output.rows \in Nat /\ written + 1 \in 1 .. Len(buffers[b])
      /\ Len(buffers[b]) \in Nat
      /\ Live = {1}
  <2>1. phase = "open" /\ growing = "no" /\ written < output.rows /\ output.storage = 1
    BY DEF Write, WriteSpare, TensorInv
  <2>2. Live = {1}
    BY <2>1, LiveStorages DEF LiveAre
  <2>3. b = Newest /\ Newest \in Nat \ {0}
    BY <2>1 DEF BufferInv, TypeInv, Newest
  <2>4. buffers[b] \in Seq(Nat)
    BY <2>3 DEF TypeInv, Newest
  <2>5. written \in Nat /\ output.rows \in Nat /\ Len(buffers[b]) \in Nat
    BY <2>4 DEF TypeInv
  <2>6. output.rows <= storages[1].size /\ storages[1].size = Len(buffers[b])
    BY <2>1, <2>2 DEF SizeInv
  <2>q. QED
    BY <2>1, <2>2, <2>3, <2>4, <2>5, <2>6 DEF Write, WriteSpare
<1> DEFINE value == IF Write THEN written + 1 ELSE Spare
<1>1. /\ value \in Nat
      /\ buffers' = [buffers EXCEPT ![b] = [buffers[b] EXCEPT ![written + 1] = value]]
  <2>1. CASE Write
    <3>1. buffers' = [buffers EXCEPT ![b] = [buffers[b] EXCEPT ![written + 1] = written + 1]]
      BY <1>0, <2>1 DEF Write
    <3>q. QED
      BY <1>0, <2>1, <3>1
  <2>2. CASE ~ Write
    <3>1. Spare \in Nat
      BY BufferAssumption DEF Spare
    <3>2. buffers' = [buffers EXCEPT ![b] = [buffers[b] EXCEPT ![written + 1] = Spare]]
      BY <1>0, <2>2 DEF WriteSpare
    <3>q. QED
      BY <2>2, <3>1, <3>2
  <2>q. QED
    BY <2>1, <2>2
<1>v. Write => value = written + 1
  OBVIOUS
<1> HIDE DEF value
<1>2. /\ buffers' \in Seq(Seq(Nat)) /\ Newest' = Newest
      /\ Len(buffers'[b]) = Len(buffers[b])
      /\ \A row \in 1 .. Len(buffers[b]) :
           buffers'[b][row] = IF row = written + 1 THEN value ELSE buffers[b][row]
  <2> DEFINE rows == [buffers[b] EXCEPT ![written + 1] = value]
  <2>1. /\ rows \in Seq(Nat) /\ Len(rows) = Len(buffers[b])
        /\ \A row \in 1 .. Len(buffers[b]) :
             rows[row] = IF row = written + 1 THEN value ELSE buffers[b][row]
    BY <1>0, <1>1, ExceptSeq
  <2>2. buffers' = [buffers EXCEPT ![b] = rows] /\ b \in 1 .. Len(buffers)
    BY <1>0, <1>1 DEF Newest
  <2> HIDE DEF rows, b
  <2>3. buffers' \in Seq(Seq(Nat)) /\ Len(buffers') = Len(buffers) /\ buffers'[b] = rows
    BY <2>1, <2>2, ExceptSeq DEF TypeInv
  <2>q. QED
    BY <2>1, <2>3 DEF Newest
<1>3. /\ written' \in {written, written + 1}
      /\ \A view \in views' : view.storage = 1 /\ view.row \in 1 .. written'
      /\ \A view \in views' :
           view \notin views =>
             view.row = written + 1 /\ buffers'[b][written + 1] = written + 1
  <2>1. CASE Write
    <3>1. buffers'[b][written + 1] = written + 1
      BY <1>0, <1>1, <1>2, <1>v, <2>1
    <3>2. written' = written + 1
          /\ views' = views \union {[storage |-> 1, row |-> written + 1]}
      BY <1>0, <2>1 DEF Write
    <3>3. \A view \in views : view.storage = 1 /\ view.row \in 1 .. written
      BY DEF TypeInv
    <3>q. QED
      BY <1>0, <3>1, <3>2, <3>3
  <2>2. CASE WriteSpare
    <3>1. UNCHANGED <<written, views>>
      BY <2>2 DEF WriteSpare
    <3>2. \A view \in views : view.storage = 1 /\ view.row \in 1 .. written
      BY DEF TypeInv
    <3>q. QED
      BY <3>1, <3>2
  <2>q. QED
    BY <2>1, <2>2
<1>4. TypeInv' /\ TensorInv' /\ BufferInv'
  <2>1. storages \in Seq([buffer : Nat, size : Nat])
    BY DEF TypeInv
  <2>2. TypeInv'
    BY <1>0, <1>2, <1>3, <2>1 DEF TypeInv
  <2>3. TensorInv' /\ BufferInv'
    BY <1>0, <1>2 DEF TensorInv, BufferInv, BufferOf
  <2>q. QED
    BY <2>2, <2>3
<1>5. Live' = {1}
  BY <1>0, <1>4, LiveStoragesNext DEF LiveAre
<1>6. FreedInv'
  BY <1>0, <1>2, <1>5, SMTT(20) DEF FreedInv, Owned, BufferOf
<1>7. SizeInv'
  <2>1. BufferOf(1)' = b /\ storages'[1].size = storages[1].size
    BY <1>0 DEF BufferOf
  <2>2. output.rows <= storages[1].size /\ storages[1].size = Len(buffers[b])
    BY <1>0 DEF SizeInv
  <2>3. written' <= output'.rows /\ storages'[1].size = Len(buffers'[b])
    BY <1>0, <1>2, <1>3, <2>1, <2>2
  <2>q. QED
    BY <1>0, <1>5, <2>1, <2>2, <2>3 DEF SizeInv
<1>8. RowInv'
  <2>1. ASSUME NEW view \in views' PROVE buffers'[b][view.row] = view.row
    <3>1. CASE view \in views
      <4>1. view.row \in 1 .. written /\ buffers[b][view.row] = view.row
        BY <3>1 DEF TypeInv, RowInv
      <4>2. view.row \in 1 .. Len(buffers[b]) /\ view.row # written + 1
        BY <1>0, <4>1
      <4>q. QED
        BY <1>2, <4>1, <4>2
    <3>q. QED
      BY <1>3, <2>1, <3>1
  <2>q. QED
    BY <1>0, <2>1 DEF RowInv, BufferOf
<1>q. QED
  BY <1>4, <1>6, <1>7, <1>8

-------------------------------------------------------------------------------
(* Growth.  A new storage of a new buffer, neither of which anything has.  *)
LEMMA AllocateSafe ==
  ASSUME IInv, GrowAllocate
  PROVE  IInv'
<1> USE DEF IInv
<1>1. PICK rows \in output.rows + 1 .. MaxRows :
        /\ buffers' = Append(buffers, Blank(rows))
        /\ frees' = Append(frees, 0)
        /\ storages' = Append(storages, [buffer |-> Newest + 1, size |-> rows])
        /\ grown' = [storage |-> Newest + 1, rows |-> rows]
  BY DEF GrowAllocate, TypeInv, Newest
<1>2. /\ phase = "open" /\ growing = "no" /\ growing' = "copy"
      /\ UNCHANGED <<output, views, written, phase>>
      /\ output.storage = 1 /\ output.rows \in Nat /\ rows \in Nat /\ output.rows < rows
      /\ Newest \in Nat \ {0} /\ BufferOf(1) = Newest /\ Live = {1}
  <2>1. phase = "open" /\ growing = "no"
    BY DEF GrowAllocate
  <2>2. output.storage = 1 /\ output.rows \in Nat
    BY <2>1 DEF TensorInv, TypeInv
  <2>3. Newest \in Nat \ {0} /\ BufferOf(1) = Newest
    BY <2>1 DEF TypeInv, Newest, BufferInv
  <2>4. Live = {1}
    BY <2>1, LiveStorages DEF LiveAre
  <2>q. QED
    BY <1>1, <2>1, <2>2, <2>3, <2>4, BufferAssumption DEF GrowAllocate
<1>3. /\ buffers' \in Seq(Seq(Nat)) /\ Newest' = Newest + 1
      /\ \A b \in 1 .. Newest : buffers'[b] = buffers[b]
      /\ Len(buffers'[Newest + 1]) = rows
  <2>1. Blank(rows) \in Seq(Nat) /\ Len(Blank(rows)) = rows
    BY <1>2, FunctionIsSeq DEF Blank
  <2>q. QED
    BY <1>1, <2>1, AppendProperties DEF TypeInv, Newest
<1>4. /\ frees' \in Seq(Nat) /\ Len(frees') = Newest + 1
      /\ \A b \in 1 .. Newest : frees'[b] = frees[b]
      /\ frees'[Newest + 1] = 0
  <2>1. frees \in Seq(Nat) /\ 0 \in Nat /\ Len(frees) = Newest
    BY DEF TypeInv
  <2>2. frees' = Append(frees, 0)
    BY <1>1
  <2>q. QED
    BY ONLY <2>1, <2>2, AppendProperties
<1>5. /\ storages' \in Seq([buffer : Nat, size : Nat]) /\ Len(storages') = Newest + 1
      /\ storages'[1] = storages[1]
      /\ storages'[Newest + 1] = [buffer |-> Newest + 1, size |-> rows]
  <2> DEFINE new == [buffer |-> Newest + 1, size |-> rows]
             All == [buffer : Nat, size : Nat]
  <2>1. new \in All
    BY <1>2
  <2>2. storages \in Seq(All) /\ Len(storages) = Newest /\ 1 \in 1 .. Newest
    BY <1>2 DEF TypeInv
  <2>3. storages' = Append(storages, new)
    BY <1>1
  <2> HIDE DEF new, All
  <2>4. /\ storages' \in Seq(All) /\ Len(storages') = Newest + 1
        /\ storages'[1] = storages[1] /\ storages'[Newest + 1] = new
    BY ONLY <2>1, <2>2, <2>3, AppendProperties
  <2>q. QED
    BY <2>4 DEF new, All
<1>6. TypeInv' /\ TensorInv'
  <2>1. grown' \in [storage : Nat, rows : Nat]
    BY <1>1, <1>2
  <2>2. TypeInv'
    BY <1>2, <1>3, <1>4, <1>5, <2>1 DEF TypeInv
  <2>q. QED
    BY <1>1, <1>2, <1>3, <2>2 DEF TensorInv
<1>7. Live' = {1, Newest + 1}
  BY <1>2, <1>3, <1>6, LiveStoragesNext DEF LiveAre
<1>8. storages'[1].buffer = Newest /\ storages'[Newest + 1].buffer = Newest + 1
  BY <1>2, <1>5 DEF BufferOf
<1>9. BufferInv'
  BY <1>2, <1>3, <1>5, <1>8 DEF BufferInv, BufferOf
<1>10. FreedInv'
  <2>1. Owned' = {Newest, Newest + 1}
    <3>1. Owned' = {storages'[s].buffer : s \in Live'}
      BY DEF Owned, BufferOf
    <3>q. QED
      BY <1>7, <1>8, <3>1
  <2>2. Owned = {Newest}
    BY <1>2 DEF Owned
  <2>q. QED
    BY <1>2, <1>3, <1>4, <2>1, <2>2 DEF FreedInv
<1>11. SizeInv'
  <2>1. written <= output.rows /\ output.rows <= storages[1].size
        /\ storages[1].size = Len(buffers[Newest])
    BY <1>2 DEF SizeInv
  <2>2. \A s \in Live' : storages'[s].size = Len(buffers'[storages'[s].buffer])
    <3>1. buffers'[Newest] = buffers[Newest]
      BY <1>2, <1>3
    <3>2. storages'[1].size = Len(buffers'[Newest])
      BY <1>5, <2>1, <3>1
    <3>3. storages'[Newest + 1].size = Len(buffers'[Newest + 1])
      BY <1>3, <1>5
    <3>q. QED
      BY <1>7, <1>8, <3>2, <3>3
  <2>3. growing' # "no" => output'.rows < grown'.rows
    BY <1>1, <1>2
  <2>4. storages'[Newest'].size = grown'.rows /\ storages'[1].size = storages[1].size
    BY <1>1, <1>3, <1>5
  <2>q. QED
    BY <1>2, <2>1, <2>2, <2>3, <2>4 DEF SizeInv, BufferOf
<1>12. RowInv'
  <2>1. buffers'[Newest] = buffers[Newest]
    BY <1>2, <1>3
  <2>2. \A view \in views : buffers[Newest][view.row] = view.row
    BY <1>2 DEF RowInv
  <2>q. QED
    BY <1>2, <1>8, <2>1, <2>2 DEF RowInv, BufferOf
<1>q. QED
  BY <1>6, <1>9, <1>10, <1>11, <1>12

(* The copy holds every row written, the views' among them.                *)
LEMMA CopySafe ==
  ASSUME IInv, GrowCopy
  PROVE  IInv'
<1> USE DEF IInv
<1> DEFINE from == buffers[BufferOf(1)]
           into == buffers[Newest]
           copy == [row \in 1 .. Len(into) |-> IF row <= output.rows THEN from[row] ELSE into[row]]
<1>1. /\ growing = "copy" /\ growing' = "swap" /\ phase = "open" /\ output.storage = 1
      /\ UNCHANGED <<frees, storages, output, grown, views, written, phase>>
      /\ grown.storage = Newest /\ Newest \in Nat /\ Newest >= 2
      /\ BufferOf(Newest) = Newest /\ BufferOf(1) = Newest - 1
      /\ Live = {1, Newest}
  BY LiveStorages DEF LiveAre, GrowCopy, TensorInv, TypeInv, Newest, BufferInv
<1>2. from \in Seq(Nat) /\ into \in Seq(Nat)
  <2>1. Newest \in 1 .. Len(buffers) /\ Newest - 1 \in 1 .. Len(buffers)
    BY <1>1 DEF Newest
  <2>q. QED
    BY <1>1, <2>1, ElementOfSeq DEF TypeInv
<1>3. /\ written \in Nat /\ output.rows \in Nat /\ written <= output.rows
      /\ output.rows <= Len(from) /\ output.rows < Len(into)
  <2>1. storages[1].size = Len(from) /\ storages[Newest].size = Len(into)
    BY <1>1 DEF SizeInv
  <2>q. QED
    BY <1>1, <2>1 DEF SizeInv, TypeInv
<1>4. copy \in Seq(Nat) /\ Len(copy) = Len(into)
  <2>1. Len(into) \in Nat /\ Len(from) \in Nat
    BY <1>2
  <2>2. \A row \in 1 .. Len(into) : copy[row] \in Nat
    <3>1. \A row \in 1 .. Len(into) : row <= output.rows => row \in 1 .. Len(from)
      BY <1>3, <2>1
    <3>q. QED
      BY <1>2, <3>1, ElementOfSeq
  <2>3. copy \in [1 .. Len(into) -> Nat]
    BY <2>2
  <2> HIDE DEF copy
  <2>q. QED
    BY <2>1, <2>3, FunctionIsSeq
<1>5. buffers' = [buffers EXCEPT ![Newest] = copy] /\ Newest \in 1 .. Len(buffers)
  BY <1>1 DEF GrowCopy, CopyTo, Newest
<1>6. \A row \in 1 .. output.rows : copy[row] = from[row]
  BY <1>2, <1>3
<1> HIDE DEF copy, into, from
<1>7. /\ buffers' \in Seq(Seq(Nat)) /\ Newest' = Newest
      /\ buffers'[Newest] = copy /\ buffers'[Newest - 1] = buffers[Newest - 1]
  <2>1. buffers \in Seq(Seq(Nat))
    BY DEF TypeInv
  <2>2. /\ buffers' \in Seq(Seq(Nat)) /\ Len(buffers') = Len(buffers)
        /\ \A b \in 1 .. Len(buffers) : buffers'[b] = IF b = Newest THEN copy ELSE buffers[b]
    BY <1>4, <1>5, <2>1, ExceptSeq
  <2>3. Newest - 1 \in 1 .. Len(buffers) /\ Newest - 1 # Newest
    BY <1>1 DEF Newest
  <2>q. QED
    BY <1>5, <2>2, <2>3 DEF Newest
<1>8. TypeInv' /\ TensorInv'
  <2>1. TypeInv'
    BY <1>1, <1>7 DEF TypeInv
  <2>q. QED
    BY <1>1, <1>7, <2>1 DEF TensorInv
<1>9. Live' = {1, Newest}
  BY <1>1, <1>7, <1>8, LiveStoragesNext DEF LiveAre
<1>10. storages'[1].buffer = Newest - 1 /\ storages'[Newest].buffer = Newest
  BY <1>1 DEF BufferOf
<1>11. BufferInv'
  BY <1>1, <1>7, <1>10 DEF BufferInv, BufferOf
<1>12. FreedInv'
  BY <1>1, <1>7, <1>9 DEF FreedInv, Owned, BufferOf
<1>13. SizeInv'
  <2>1. /\ storages[1].size = Len(buffers[Newest - 1])
        /\ storages[Newest].size = Len(buffers[Newest])
    BY <1>1 DEF SizeInv
  <2>2. \A s \in Live' : storages'[s].size = Len(buffers'[storages'[s].buffer])
    BY <1>1, <1>4, <1>7, <1>9, <1>10, <2>1 DEF into
  <2>q. QED
    BY <1>1, <1>7, <2>2 DEF SizeInv, BufferOf
<1>14. RowInv'
  <2>1. \A view \in views : view.row \in 1 .. written
    BY DEF TypeInv
  <2>2. \A view \in views : view.row \in 1 .. output.rows
    BY <1>3, <2>1
  <2>3. \A view \in views : buffers[Newest - 1][view.row] = view.row
    BY <1>1 DEF RowInv
  <2>4. \A view \in views : copy[view.row] = view.row
    BY <1>1, <1>6, <2>2, <2>3 DEF from
  <2>q. QED
    BY <1>1, <1>7, <1>10, <2>3, <2>4 DEF RowInv, BufferOf
<1>q. QED
  BY <1>8, <1>11, <1>12, <1>13, <1>14

(* The two storages exchange buffer and size; rows stay where they are.    *)
LEMMA SwapSafe ==
  ASSUME IInv, GrowSwap
  PROVE  IInv'
<1> USE DEF IInv
<1>1. /\ growing = "swap" /\ growing' = "stride" /\ phase = "open" /\ output.storage = 1
      /\ UNCHANGED <<buffers, frees, output, grown, views, written, phase>>
      /\ grown.storage = Newest /\ Newest \in Nat /\ Newest >= 2
      /\ storages[Newest].buffer = Newest /\ storages[1].buffer = Newest - 1
      /\ Live = {1, Newest}
  BY LiveStorages DEF GrowSwap, LiveAre, TensorInv, TypeInv, Newest, BufferInv, BufferOf
<1>2. storages' = [storages EXCEPT ![1] = storages[Newest], ![Newest] = storages[1]]
  BY <1>1 DEF GrowSwap, Swapped
<1>3. /\ storages' \in Seq([buffer : Nat, size : Nat]) /\ Len(storages') = Newest
      /\ storages'[1] = storages[Newest] /\ storages'[Newest] = storages[1]
  <2> DEFINE half == [storages EXCEPT ![1] = storages[Newest]]
             Storages == [buffer : Nat, size : Nat]
  <2>1. storages \in Seq(Storages) /\ Len(storages) = Newest
    BY DEF TypeInv
  <2>2. 1 \in 1 .. Newest /\ Newest \in 1 .. Newest /\ 1 # Newest
    BY <1>1
  <2> HIDE DEF Storages
  <2>3. storages[1] \in Storages /\ storages[Newest] \in Storages
    BY <2>1, <2>2, ElementOfSeq
  <2>4. half \in Seq(Storages) /\ Len(half) = Newest /\ half[1] = storages[Newest]
    BY <2>1, <2>2, <2>3, ExceptSeq
  <2>5. storages' = [half EXCEPT ![Newest] = storages[1]]
    BY <1>2
  <2> HIDE DEF half
  <2>6. /\ storages' \in Seq(Storages) /\ Len(storages') = Newest
        /\ \A s \in 1 .. Newest : storages'[s] = IF s = Newest THEN storages[1] ELSE half[s]
    BY <2>2, <2>3, <2>4, <2>5, ExceptSeq
  <2>q. QED
    BY <2>2, <2>4, <2>6 DEF Storages
<1>4. Newest' = Newest
  BY <1>1 DEF Newest
<1>5. TypeInv' /\ TensorInv'
  BY <1>1, <1>3, <1>4 DEF TypeInv, TensorInv
<1>6. Live' = {1, Newest}
  BY <1>1, <1>4, <1>5, LiveStoragesNext DEF LiveAre
<1>7. BufferInv'
  BY <1>1, <1>3, <1>4 DEF BufferInv, BufferOf
<1>8. FreedInv'
  <2>1. Owned' = {storages'[1].buffer, storages'[Newest].buffer}
    BY <1>6 DEF Owned, BufferOf
  <2>2. Owned = {storages[1].buffer, storages[Newest].buffer}
    BY <1>1 DEF Owned, BufferOf
  <2>3. Owned' = Owned
    BY <1>3, <2>1, <2>2
  <2>q. QED
    BY <1>1, <1>4, <2>3 DEF FreedInv
<1>9. SizeInv'
  <2>1. /\ storages[1].size = Len(buffers[Newest - 1])
        /\ storages[Newest].size = Len(buffers[Newest]) /\ storages[Newest].size = grown.rows
        /\ written <= output.rows /\ output.rows < grown.rows
    BY <1>1 DEF SizeInv, BufferOf
  <2>2. \A s \in Live' : storages'[s].size = Len(buffers'[storages'[s].buffer])
    BY <1>1, <1>3, <1>6, <2>1
  <2>3. output.rows <= grown.rows
    BY <2>1 DEF TypeInv
  <2>q. QED
    BY <1>1, <1>3, <2>1, <2>2, <2>3 DEF SizeInv, BufferOf
<1>10. RowInv'
  BY <1>1, <1>3 DEF RowInv, BufferOf
<1>q. QED
  BY <1>5, <1>7, <1>8, <1>9, <1>10

(* The tensor takes the new size; the other storage and its buffer go.     *)
LEMMA StrideSafe ==
  ASSUME IInv, GrowStride
  PROVE  IInv'
<1> USE DEF IInv
<1>1. /\ growing = "stride" /\ growing' = "no" /\ phase = "open" /\ output.storage = 1
      /\ UNCHANGED <<buffers, storages, written, phase>>
      /\ output' = [storage |-> 1, rows |-> grown.rows] /\ grown' = Gone /\ views' = views
      /\ Leaves(Restrided, Gone, views)
      /\ Newest \in Nat /\ Newest >= 2 /\ storages[1].buffer = Newest
      /\ Live = {1, Newest} /\ Newest' = Newest
  BY LiveStorages
  DEF GrowStride, Leaves, Restrided, LiveAre, TensorInv, TypeInv, Newest, BufferInv, BufferOf
<1>2. Referred(Restrided, Gone, views) \subseteq Live
  BY <1>1 DEF Referred, Restrided, Gone, Live, TypeInv
<1>3. FreedInv' /\ frees' \in Seq(Nat) /\ Len(frees') = Newest'
  BY <1>1, <1>2, OwnersDiffer, LiveStorages, LeavingFrees DEF LiveAre
<1>4. grown.rows \in Nat
  BY DEF TypeInv
<1>5. TypeInv' /\ TensorInv'
  <2>1. output' \in [storage : Nat, rows : Nat] /\ grown' \in [storage : Nat, rows : Nat]
    BY <1>1, <1>4 DEF Gone
  <2>2. TypeInv'
    BY <1>1, <1>3, <2>1 DEF TypeInv
  <2>q. QED
    BY <1>1, <2>2 DEF TensorInv
<1>6. Live' = {1}
  BY <1>1, <1>5, LiveStoragesNext DEF LiveAre
<1>7. BufferInv'
  BY <1>1 DEF BufferInv, BufferOf
<1>8. SizeInv'
  <2>1. /\ storages[1].size = grown.rows /\ written <= grown.rows
        /\ storages[1].size = Len(buffers[storages[1].buffer])
    <3>1. storages[1].size = grown.rows /\ written <= output.rows /\ output.rows < grown.rows
      BY <1>1 DEF SizeInv
    <3>2. written \in Nat /\ output.rows \in Nat
      BY DEF TypeInv
    <3>3. storages[1].size = Len(buffers[BufferOf(1)])
      BY <1>1 DEF SizeInv
    <3>q. QED
      BY <1>4, <3>1, <3>2, <3>3 DEF BufferOf
  <2>q. QED
    BY <1>1, <1>4, <1>6, <2>1 DEF SizeInv, BufferOf
<1>9. RowInv'
  BY <1>1 DEF RowInv, BufferOf
<1>q. QED
  BY <1>3, <1>5, <1>7, <1>8, <1>9

(* A failure at any of these calls leaves nothing, and nothing unfreed.    *)
LEMMA FailSafe ==
  ASSUME IInv, GrowFails
  PROVE  IInv'
<1> USE DEF IInv
<1>1. /\ growing' = "no" /\ phase' = "failed" /\ UNCHANGED <<buffers, storages, written>>
      /\ output' = Gone /\ grown' = Gone /\ views' = {} /\ Leaves(Gone, Gone, {})
      /\ Newest' = Newest
  BY DEF GrowFails, Fails, Leaves, Newest
<1>2. Referred(Gone, Gone, {}) \subseteq Live
  <2>1. 0 \notin DOMAIN storages
    BY DEF TypeInv, Newest
  <2>q. QED
    BY <2>1 DEF Referred, Gone
<1>3. FreedInv' /\ frees' \in Seq(Nat) /\ Len(frees') = Newest'
  BY <1>1, <1>2, OwnersDiffer, LiveStorages, LeavingFrees DEF LiveAre
<1>4. TypeInv' /\ TensorInv'
  <2>1. output' \in [storage : Nat, rows : Nat] /\ grown' \in [storage : Nat, rows : Nat]
    BY <1>1 DEF Gone
  <2>2. TypeInv'
    BY <1>1, <1>3, <2>1 DEF TypeInv
  <2>q. QED
    BY <1>1, <2>2 DEF TensorInv
<1>5. BufferInv' /\ SizeInv' /\ RowInv'
  BY <1>1 DEF BufferInv, SizeInv, RowInv
<1>q. QED
  BY <1>3, <1>4, <1>5
-------------------------------------------------------------------------------
(* The hand-out lowers the size of the storage to no less than what the    *)
(* caller gets.                                                            *)
LEMMA HandOutSafe ==
  ASSUME IInv, HandOut
  PROVE  IInv'
<1> USE DEF IInv
<1>1. /\ phase = "open" /\ phase' = "handed" /\ growing = "no" /\ output.storage = 1
      /\ UNCHANGED <<buffers, frees, grown, views, written, growing>>
      /\ output' = [storage |-> 1, rows |-> written] /\ grown = Gone
      /\ written \in Nat /\ Newest \in Nat /\ Newest >= 1 /\ Newest' = Newest
      /\ Live = {1} /\ storages[1].buffer = Newest
      /\ written <= storages[1].size
  <2>1. phase = "open" /\ growing = "no"
    BY DEF HandOut
  <2>2. output.storage = 1 /\ grown = Gone /\ Live = {1} /\ storages[1].buffer = Newest
    BY <2>1, LiveStorages DEF LiveAre, TensorInv, BufferInv, BufferOf
  <2>3. written <= output.rows /\ output.rows <= storages[1].size
    BY <2>1 DEF SizeInv
  <2>4. written \in Nat /\ output.rows \in Nat /\ Newest \in Nat /\ Newest >= 1
        /\ storages[1].size \in Nat
    <3>1. Newest \in Nat /\ Newest >= 1 /\ written \in Nat /\ output.rows \in Nat
      BY DEF TypeInv, Newest
    <3>2. storages \in Seq([buffer : Nat, size : Nat]) /\ 1 \in 1 .. Len(storages)
      BY <3>1 DEF TypeInv
    <3>3. storages[1] \in [buffer : Nat, size : Nat]
      BY <3>2, ElementOfSeq
    <3>q. QED
      BY <3>1, <3>3
  <2>5. output' = [storage |-> 1, rows |-> written]
    BY <2>2 DEF HandOut, TypeInv
  <2>6. written <= storages[1].size
    BY <2>3, <2>4
  <2>q. QED
    BY <2>1, <2>2, <2>4, <2>5, <2>6 DEF HandOut, Newest
<1>2. /\ storages' \in Seq([buffer : Nat, size : Nat]) /\ Len(storages') = Newest
      /\ storages'[1].buffer = Newest /\ written <= storages'[1].size
  <2>1. CASE UNCHANGED storages
    BY <1>1, <2>1 DEF TypeInv
  <2>2. CASE storages' = [storages EXCEPT ![1].size = written]
    <3> DEFINE Storages == [buffer : Nat, size : Nat]
               trimmed == [storages[1] EXCEPT !.size = written]
    <3>1. storages \in Seq(Storages) /\ Len(storages) = Newest /\ 1 \in 1 .. Newest
      BY <1>1 DEF TypeInv
    <3>2. storages[1] \in Storages
      BY <3>1, ElementOfSeq
    <3>3. trimmed \in Storages /\ trimmed.buffer = Newest /\ trimmed.size = written
      BY <1>1, <3>2
    <3>4. storages' = [storages EXCEPT ![1] = trimmed]
      BY <2>2
    <3> HIDE DEF trimmed, Storages
    <3>5. storages' \in Seq(Storages) /\ Len(storages') = Newest /\ storages'[1] = trimmed
      BY <3>1, <3>3, <3>4, ExceptSeq
    <3>q. QED
      BY <1>1, <3>3, <3>5 DEF Storages
  <2>q. QED
    BY <1>1, <2>1, <2>2 DEF HandOut, SizeOf
<1>3. TypeInv' /\ TensorInv'
  <2>1. output' \in [storage : Nat, rows : Nat]
    BY <1>1
  <2>2. TypeInv'
    BY <1>1, <1>2, <2>1 DEF TypeInv
  <2>q. QED
    BY <1>1, <2>2 DEF TensorInv
<1>4. Live' = {1}
  <2>1. output' # Gone
    BY <1>1 DEF Gone
  <2>q. QED
    BY <1>1, <1>3, <2>1, LiveStoragesNext DEF LiveAre
<1>5. BufferInv'
  BY <1>1, <1>2 DEF BufferInv, BufferOf
<1>6. FreedInv'
  <2>1. Owned = {Newest} /\ Owned' = {Newest}
    BY <1>1, <1>2, <1>4 DEF Owned, BufferOf
  <2>q. QED
    BY <1>1, <2>1 DEF FreedInv
<1>7. SizeInv'
  <2>1. \A view \in views : view.row \in 1 .. written
    BY DEF TypeInv
  <2>2. storages'[1].size \in Nat
    <3>1. 1 \in 1 .. Len(storages')
      BY <1>1, <1>2
    <3>2. storages'[1] \in [buffer : Nat, size : Nat]
      BY <1>2, <3>1, ElementOfSeq
    <3>q. QED
      BY <3>2
  <2>q. QED
    BY <1>1, <1>2, <2>1, <2>2 DEF SizeInv
<1>8. RowInv'
  BY <1>1, <1>2 DEF RowInv, BufferOf
<1>q. QED
  BY <1>3, <1>5, <1>6, <1>7, <1>8

(* The caller's tensors go one by one.                                     *)
LEMMA DropSafe ==
  ASSUME IInv, DropOutput \/ DropView
  PROVE  IInv'
<1> USE DEF IInv
<1>1. PICK out \in {output, Gone}, seen \in SUBSET views : Leaves(out, grown, seen)
  BY DEF DropOutput, DropView
<1>2. /\ phase = "handed" /\ growing = "no" /\ grown = Gone
      /\ UNCHANGED <<buffers, storages, written, growing, phase>>
      /\ output' = out /\ grown' = Gone /\ views' = seen
      /\ Newest' = Newest
  BY <1>1 DEF DropOutput, DropView, Leaves, TensorInv, Newest
<1>3. Referred(out, grown, seen) \subseteq Live
  <2>1. 0 \notin DOMAIN storages
    BY DEF TypeInv, Newest
  <2>q. QED
    BY <1>1, <2>1 DEF Referred, Live, Gone
<1>4. FreedInv' /\ frees' \in Seq(Nat) /\ Len(frees') = Newest'
  BY <1>1, <1>2, <1>3, OwnersDiffer, LiveStorages, LeavingFrees DEF LiveAre
<1>5. TypeInv' /\ TensorInv'
  <2>1. output' \in [storage : Nat, rows : Nat] /\ grown' \in [storage : Nat, rows : Nat]
    BY <1>1, <1>2 DEF Gone, TypeInv
  <2>2. TypeInv'
    BY <1>1, <1>2, <1>4, <2>1 DEF TypeInv
  <2>q. QED
    BY <1>1, <1>2, <2>2 DEF TensorInv
<1>6. BufferInv' /\ SizeInv' /\ RowInv'
  BY <1>1, <1>2 DEF BufferInv, SizeInv, RowInv, BufferOf
<1>q. QED
  BY <1>4, <1>5, <1>6

LEMMA StepSafe == IInv /\ [Next]_vars => IInv'
<1> SUFFICES ASSUME IInv, [Next]_vars PROVE IInv'
  OBVIOUS
<1>1. CASE UNCHANGED vars
  <2> USE <1>1 DEF vars, IInv
  <2>1. TypeInv' /\ TensorInv' /\ BufferInv'
    BY DEF TypeInv, TensorInv, BufferInv, BufferOf, Newest
  <2>2. Live' = Live /\ Newest' = Newest
    BY DEF Live, Referred, Newest
  <2>3. FreedInv'
    BY <2>2 DEF FreedInv, Owned, BufferOf
  <2>4. SizeInv' /\ RowInv'
    BY <2>2 DEF SizeInv, RowInv, BufferOf
  <2>q. QED
    BY <2>1, <2>3, <2>4
<1>2. CASE Done
  BY <1>1, <1>2 DEF Done
<1>q. QED
  BY <1>1, <1>2, WriteSafe, AllocateSafe, CopySafe, SwapSafe, StrideSafe, FailSafe, HandOutSafe,
     DropSafe DEF Next

LEMMA InvariantHolds == Spec => []IInv
BY InitSafe, StepSafe, PTL DEF Spec
-------------------------------------------------------------------------------
(* No tensor reads memory that was freed, and none is freed twice, however *)
(* often the tensor grew and wherever growing failed.                      *)
THEOREM NeverUsedAfterFree == Spec => []NoUseAfterFree
<1>1. IInv => NoUseAfterFree
  <2> SUFFICES ASSUME IInv PROVE NoUseAfterFree
    OBVIOUS
  <2> USE DEF IInv
  <2>1. \A s, t \in Live : BufferOf(s) = BufferOf(t) => s = t
    BY OwnersDiffer
  <2>2. ASSUME NEW s \in Live PROVE frees[BufferOf(s)] = 0
    <3>1. BufferOf(s) \in 1 .. Newest
      <4>1. Newest \in Nat /\ Newest >= 1
        BY DEF TypeInv, Newest
      <4>2. phase # "failed"
        BY <2>2, LiveStorages DEF LiveAre
      <4>3. CASE growing = "no"
        BY <2>2, <4>1, <4>2, <4>3, LiveStorages DEF LiveAre, BufferInv
      <4>4. CASE growing # "no"
        <5>1. s \in {1, Newest} /\ growing \in {"copy", "swap", "stride"} /\ Newest >= 2
          BY <2>2, <4>4, LiveStorages DEF LiveAre, TypeInv, TensorInv
        <5>q. QED
          BY <4>1, <4>2, <5>1 DEF BufferInv
      <4>q. QED
        BY <4>3, <4>4
    <3>q. QED
      BY <3>1 DEF FreedInv, Owned
  <2>3. DOMAIN frees = 1 .. Newest
    BY DEF TypeInv
  <2>4. \A b \in DOMAIN frees : frees[b] <= 1
    BY <2>3 DEF FreedInv
  <2>q. QED
    BY <2>1, <2>2, <2>4 DEF NoUseAfterFree
<1>q. QED
  BY <1>1, InvariantHolds, PTL

(* Nothing is kept that no tensor has: a superseded buffer goes at once.   *)
THEOREM SupersededAlwaysFreed == Spec => []SupersededIsFreed
<1>1. IInv => SupersededIsFreed
  <2> SUFFICES ASSUME IInv PROVE SupersededIsFreed
    OBVIOUS
  <2> USE DEF IInv
  <2> DEFINE kept == {b \in DOMAIN frees : frees[b] = 0}
  <2>1. DOMAIN frees = 1 .. Newest
    BY DEF TypeInv
  <2>2. \A b \in DOMAIN frees : (\E s \in Live : BufferOf(s) = b) \/ frees[b] = 1
    BY <2>1 DEF FreedInv, Owned
  <2>3. ASSUME growing = "no" PROVE Cardinality(kept) <= 1
    <3>1. kept \subseteq {BufferOf(1)}
      BY <2>1, <2>3, LiveStorages DEF LiveAre, FreedInv, Owned
    <3>2. kept = {} \/ kept = {BufferOf(1)}
      BY <3>1
    <3>3. Cardinality({}) = 0 /\ Cardinality({BufferOf(1)}) = 1
      BY FS_EmptySet, FS_Singleton
    <3>q. QED
      BY <3>2, <3>3
  <2>q. QED
    BY <2>2, <2>3 DEF SupersededIsFreed
<1>q. QED
  BY <1>1, InvariantHolds, PTL

(* Frames stay what they show, and inside their storage.                   *)
THEOREM ViewsAlwaysKeepTheirRow == Spec => []ViewsKeepTheirRow
<1>1. IInv => ViewsKeepTheirRow
  <2> SUFFICES ASSUME IInv PROVE ViewsKeepTheirRow
    OBVIOUS
  <2>1. \A view \in views : view.storage = 1
    BY DEF IInv, TypeInv
  <2>2. phase = "handed" => output = Gone \/ output.storage = 1
    BY DEF IInv, TensorInv
  <2>q. QED
    BY <2>1, <2>2 DEF IInv, SizeInv, RowInv, ViewsKeepTheirRow
<1>q. QED
  BY <1>1, InvariantHolds, PTL
===============================================================================
