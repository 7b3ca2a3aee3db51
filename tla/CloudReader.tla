------------------------------ MODULE CloudReader ------------------------------
(***************************************************************************)
(* cloud_storage_avio_reader of src/decoder/io.rs: FFmpeg reads a cloud    *)
(* object through a read callback and a seek callback.  Both work on a     *)
(* buffer as large as the object (`data`) with one indicator per byte      *)
(* (`marked`), filled by reader tasks that run on the Tokio runtime, each  *)
(* copying one suffix stream of the object.  The callbacks are called one  *)
(* at a time, by the FFmpeg thread; the tasks run at any time; one mutex   *)
(* guards the buffer and the list of readers.                              *)
(*                                                                         *)
(* One action is one critical section.  What a task does between two of    *)
(* them (waiting for the stream) touches only its own state, so it is part *)
(* of the step that follows.  The iterations of the read callback that     *)
(* find their bytes missing but covered change nothing and are not steps.  *)
(***************************************************************************)
EXTENDS Integers, Sequences, FiniteSets

CONSTANTS
  ObjSize,      \* obj_size: the size the first request reports
  Content,      \* the object's bytes
  ReaderId,     \* slots for reader tasks that are running (a model bound)
  ReadSizes,    \* buf.len(): the lengths FFmpeg reads with
  SeekOffsets,  \* the offsets FFmpeg seeks with
  MaxChunk,     \* the longest chunk a stream delivers (a model bound)
  SeekWindow,   \* ffmpeg_buffer_size
  Segment,      \* data_segment_size
  MaxRespawns,  \* MAX_READER_RESPAWNS
  MaxFaults     \* how often the network fails (a model bound)

Byte == 0 .. 255
Pos  == 0 .. ObjSize - 1

ASSUME CloudAssumption ==
  /\ ObjSize \in Nat \ {0}
  /\ Content \in [Pos -> Byte]
  /\ ReadSizes \subseteq Nat \ {0}
  /\ SeekOffsets \subseteq Int
  /\ MaxChunk \in Nat
  /\ SeekWindow \in Nat \ {0}
  /\ Segment \in Nat
  /\ MaxRespawns \in Nat
  /\ MaxFaults \in Nat

VARIABLES
  data,       \* CloudStorageBuffer.data
  marked,     \* the positions whose CloudStorageBuffer.indicators is true
  readPos,    \* CloudStorageBuffer.read_position
  live,       \* the readers whose handle is not is_finished()
  task,       \* per running reader: range.start, current_position, the offset
              \* of the next byte of its stream, and whether it has stopped
  pc,         \* where the FFmpeg thread is
  want,       \* the read callback's buf.len()
  respawns,   \* the positions this read call respawned at; its length is
              \* respawn_attempts, its last element the stalled position
  reply,      \* what the last callback returned
  faults      \* network faults so far

buffer == <<data, marked>>
vars   == <<data, marked, readPos, live, task, pc, want, respawns, reply, faults>>

-------------------------------------------------------------------------------
MinOf(a, b)  == IF a <= b THEN a ELSE b
Window(p, n) == p .. MinOf(ObjSize, p + n) - 1

ShortMissing(p, n) == Window(p, n - 1) \ marked     \* mutant: one byte unchecked
Missing(p, n) == Window(p, n) \ marked

(* The first byte of the hole, when the window has one.                    *)
LastMissing(p, n) ==                                \* mutant: the hole's end
  CHOOSE i \in Missing(p, n) : \A j \in Missing(p, n) : j <= i
FirstMissing(p, n) ==
  CHOOSE i \in Missing(p, n) : \A j \in Missing(p, n) : i <= j

(* `covered`: a live reader whose range (it ends with the object) holds i. *)
CoveredByDead(i) == \E r \in ReaderId : task[r].start <= i  \* mutant: no is_finished
Covered(i) == \E r \in live : task[r].start <= i

Blank == [start |-> 0, next |-> 0, stream |-> 0, stops |-> FALSE]

(* readers.push(DataReader) and runtime.spawn(cloud_asset_reader): the     *)
(* stream was opened at p, the task starts writing at p.                   *)
Spawn(r, p) ==
  /\ r \in ReaderId \ live
  /\ live' = live \union {r}
  /\ task' = [task EXCEPT ![r] =
                [start |-> p, next |-> p, stream |-> p, stops |-> FALSE]]

(* The callback returns.                                                   *)
Return(answer) ==
  /\ pc' = "idle"
  /\ want' = 0
  /\ respawns' = <<>>
  /\ reply' = answer

Failed == [kind |-> "error"]

NetworkFault ==
  /\ faults < MaxFaults
  /\ faults' = faults + 1

Init ==
  /\ data = [i \in Pos |-> 0]
  /\ marked = {}
  /\ readPos = 0
  /\ \E r \in ReaderId : live = {r}
  /\ task = [r \in ReaderId |-> Blank]
  /\ pc = "idle"
  /\ want = 0
  /\ respawns = <<>>
  /\ reply = [kind |-> "ready"]
  /\ faults = 0

-------------------------------------------------------------------------------
(* The reader tasks.                                                       *)

(* cloud_asset_reader stops when the byte after the next one is present.   *)
NextPosition(new) == MinOf(ObjSize - 1, new + 1)

(* The indicators a chunk sets.                                            *)
LateWritten(old, new)  == old + 1 .. new - 1             \* mutant: first byte left out
EagerWritten(old, new) == old .. MinOf(ObjSize - 1, new) \* mutant: one byte too many
Written(old, new) == old .. new - 1

IgnoreLock == TRUE                                       \* mutant: mutex released
Unlocked == pc # "seek"

(* The buffer with the k bytes of the stream at `from` copied to `at`.     *)
Copied(at, k, from) ==
  [i \in Pos |-> IF i \in at .. at + k - 1 THEN Content[from + i - at] ELSE data[i]]

Advanced(t, k, stop) ==
  [start |-> t.start, next |-> t.next + k, stream |-> t.stream + k, stops |-> stop]

(* A chunk of k bytes arrives and is copied into the buffer; the task goes *)
(* on, or finds the byte at NextPosition present and stops.                *)
WriteChunk(r, k) ==
  LET old == task[r].next
      new == old + k
  IN /\ r \in live
     /\ ~ task[r].stops
     /\ Unlocked
     /\ new <= ObjSize
     /\ data' = Copied(old, k, task[r].stream)
     /\ marked' = marked \union Written(old, new)
     /\ task' = [task EXCEPT ![r] =
                   Advanced(task[r], k, NextPosition(new) \in marked')]
     /\ UNCHANGED <<readPos, live, pc, want, respawns, reply, faults>>

ReaderChunk(r) == \E k \in 1 .. MaxChunk : WriteChunk(r, k)

(* The stream yields an error, ends early, or delivers more bytes than the *)
(* object had when it was opened: the task ends, its range unfilled.       *)
ReaderFail(r) ==
  /\ r \in live
  /\ ~ task[r].stops
  /\ NetworkFault
  /\ live' = live \ {r}
  /\ task' = [task EXCEPT ![r] = Blank]
  /\ UNCHANGED <<buffer, readPos, pc, want, respawns, reply>>

(* A task that has stopped releases the mutex first: is_finished() turns   *)
(* true some time later, and the callbacks count it as running until then. *)
ReaderEnd(r) ==
  /\ r \in live
  /\ task[r].stops
  /\ live' = live \ {r}
  /\ task' = [task EXCEPT ![r] = Blank]
  /\ UNCHANGED <<buffer, readPos, pc, want, respawns, reply, faults>>

ReaderStep(r) == ReaderChunk(r) \/ ReaderFail(r) \/ ReaderEnd(r)

-------------------------------------------------------------------------------
(* The read callback.                                                      *)

ReadCall(n) ==
  /\ pc = "idle"
  /\ pc' = "read"
  /\ want' = n
  /\ reply' = [kind |-> "none"]
  /\ UNCHANGED <<buffer, readPos, live, task, respawns, faults>>

ReadEof ==
  /\ pc = "read"
  /\ Window(readPos, want) = {}
  /\ Return([kind |-> "eof"])
  /\ UNCHANGED <<buffer, readPos, live, task, faults>>

(* data_ready: the bytes are copied out and the position moves past them.  *)
ReadReady ==
  /\ pc = "read"
  /\ Window(readPos, want) # {}
  /\ Missing(readPos, want) = {}
  /\ Return([kind |-> "bytes", at |-> readPos,
             bytes |-> [i \in Window(readPos, want) |-> data[i]]])
  /\ readPos' = MinOf(ObjSize, readPos + want)
  /\ UNCHANGED <<buffer, live, task, faults>>

(* Nobody is fetching the first missing byte: it is remembered, the mutex  *)
(* is released, and after the backoff a new stream is opened there.        *)
ReadStall ==
  /\ pc = "read"
  /\ Missing(readPos, want) # {}
  /\ ~ Covered(FirstMissing(readPos, want))
  /\ Len(respawns) < MaxRespawns
  /\ respawns' = Append(respawns, FirstMissing(readPos, want))
  /\ pc' = "reopen"
  /\ UNCHANGED <<buffer, readPos, live, task, want, reply, faults>>

ReadGiveUp ==
  /\ pc = "read"
  /\ Missing(readPos, want) # {}
  /\ ~ Covered(FirstMissing(readPos, want))
  /\ Len(respawns) >= MaxRespawns
  /\ Return(Failed)
  /\ UNCHANGED <<buffer, readPos, live, task, faults>>

Hole == respawns[Len(respawns)]

Reopen ==
  /\ pc = "reopen"
  /\ \E r \in ReaderId : Spawn(r, Hole)
  /\ pc' = "read"
  /\ UNCHANGED <<buffer, readPos, want, respawns, reply, faults>>

ReopenFail ==
  /\ pc = "reopen"
  /\ NetworkFault
  /\ Return(Failed)
  /\ UNCHANGED <<buffer, readPos, live, task>>

-------------------------------------------------------------------------------
(* The seek callback.                                                      *)

Whence == {"set", "cur", "end"}

Target(whence, offset) ==
  CASE whence = "set" -> offset
    [] whence = "cur" -> readPos + offset
    [] whence = "end" -> ObjSize + offset

Clamp(t) == IF t \in 0 .. ObjSize THEN t ELSE ObjSize

(* The nearest byte before p that is present, 0 when there is none.        *)
ClosestAvailable(p) ==
  LET before == {i \in marked : i < p}
  IN IF before = {} THEN 0
     ELSE CHOOSE i \in before : \A j \in before : j <= i

(* A live reader is fetching from less than a segment before p.            *)
NearData(p) == p - ClosestAvailable(p) < Segment         \* mutant: nobody checked
Approaching(p) ==
  /\ p - ClosestAvailable(p) < Segment
  /\ Covered(ClosestAvailable(p))

SeekSize ==
  /\ pc = "idle"
  /\ Return([kind |-> "size", to |-> ObjSize])
  /\ UNCHANGED <<buffer, readPos, live, task, faults>>

(* Only a SEEK_END outside of the object is refused; nothing has moved.    *)
SeekRefused(offset) ==
  /\ pc = "idle"
  /\ Target("end", offset) \notin 0 .. ObjSize
  /\ Return(Failed)
  /\ UNCHANGED <<buffer, readPos, live, task, faults>>

(* The window at the target is present, or on its way.                     *)
SeekReady(whence, offset) ==
  LET t == Target(whence, offset)
      p == Clamp(t)
  IN /\ pc = "idle"
     /\ whence = "end" => t = p
     /\ Missing(p, SeekWindow) = {} \/ Approaching(p)
     /\ readPos' = p
     /\ Return([kind |-> "seeked", to |-> t])
     /\ UNCHANGED <<buffer, live, task, faults>>

(* Neither: the callback opens a stream at the target, with the mutex      *)
(* held.  A window with a missing byte starts inside the object, so the    *)
(* target is the position itself.                                          *)
SeekFetch(whence, offset) ==
  LET t == Target(whence, offset)
      p == Clamp(t)
  IN /\ pc = "idle"
     /\ whence = "end" => t = p
     /\ Missing(p, SeekWindow) # {}
     /\ ~ Approaching(p)
     /\ live # ReaderId                      \* model bound: a free slot
     /\ readPos' = p
     /\ pc' = "seek"
     /\ reply' = [kind |-> "none"]
     /\ UNCHANGED <<buffer, live, task, want, respawns, faults>>

SeekOpen ==
  /\ pc = "seek"
  /\ \E r \in ReaderId : Spawn(r, readPos)
  /\ Return([kind |-> "seeked", to |-> readPos])
  /\ UNCHANGED <<buffer, readPos, faults>>

SeekOpenFail ==
  /\ pc = "seek"
  /\ NetworkFault
  /\ Return(Failed)
  /\ UNCHANGED <<buffer, readPos, live, task>>

SeekCall ==
  \E offset \in SeekOffsets :
    \/ SeekRefused(offset)
    \/ \E whence \in Whence : SeekReady(whence, offset) \/ SeekFetch(whence, offset)

-------------------------------------------------------------------------------
(* FFmpeg closes the context: the callbacks and their Arcs are dropped.    *)
(* Each running task owns an Arc of its own, so CloudStorageReaderContext  *)
(* is dropped, and its handles aborted, only once no task runs any more.   *)
Close ==
  /\ pc = "idle"
  /\ pc' = "closed"
  /\ UNCHANGED <<buffer, readPos, live, task, want, respawns, reply, faults>>

Callback ==
  \/ ReadEof
  \/ ReadReady
  \/ ReadStall
  \/ ReadGiveUp
  \/ Reopen
  \/ ReopenFail
  \/ SeekOpen
  \/ SeekOpenFail

Next ==
  \/ \E n \in ReadSizes : ReadCall(n)
  \/ SeekSize
  \/ SeekCall
  \/ Callback
  \/ Close
  \/ \E r \in ReaderId : ReaderStep(r)

Spec == Init /\ [][Next]_vars

(* The runtime schedules the tasks, every stream delivers a chunk, an      *)
(* error or its end, and a callback that has been called runs on.  Nothing *)
(* obliges FFmpeg to make another call or to close.                        *)
FairSpec ==
  /\ Spec
  /\ WF_vars(Callback)
  /\ \A r \in ReaderId : WF_vars(ReaderStep(r))

-------------------------------------------------------------------------------
(* Properties.                                                             *)

Task ==
  [start : Pos, next : 0 .. ObjSize, stream : 0 .. ObjSize, stops : BOOLEAN]

Answer ==
  [kind : {"ready", "none", "eof", "error"}]
    \union [kind : {"size"}, to : {ObjSize}]
    \union [kind : {"seeked"}, to : Int]

BytesAnswer ==
  /\ reply.at \in Pos
  /\ DOMAIN reply.bytes \subseteq Pos
  /\ reply = [kind |-> "bytes", at |-> reply.at, bytes |-> reply.bytes]

(* The state stays in range: the read position inside the object whatever  *)
(* FFmpeg seeks to, the respawns of a call within their budget.            *)
TypeOK ==
  /\ data \in [Pos -> Byte]
  /\ marked \subseteq Pos
  /\ readPos \in 0 .. ObjSize
  /\ live \subseteq ReaderId
  /\ task \in [ReaderId -> Task]
  /\ pc \in {"idle", "read", "reopen", "seek", "closed"}
  /\ want \in Nat
  /\ respawns \in Seq(Pos) /\ Len(respawns) <= MaxRespawns
  /\ reply \in Answer \/ BytesAnswer
  /\ faults \in 0 .. MaxFaults

(* A reader leaves no gap behind it: all it has passed is present.  So a   *)
(* missing byte in the range of a live reader is still ahead of it, which  *)
(* is what lets the read callback wait for a reader it only knows by its   *)
(* range (io.rs `covered`).                                                *)
CoverageIsHonest ==
  \A r \in live : task[r].start .. task[r].next - 1 \subseteq marked

(* An indicator never runs ahead of its byte, whichever readers overlap,   *)
(* die or are respawned there.                                             *)
MarkedIsContent == \A i \in marked : data[i] = Content[i]

(* The hole the read callback found under the mutex is still a hole, and   *)
(* still nobody's, when it opens a stream for it after the mutex was       *)
(* released and the backoff slept: readers that were running meanwhile     *)
(* cannot have filled it.                                                  *)
StalledHoleStaysMissing ==
  pc = "reopen" => Hole \notin marked /\ ~ Covered(Hole)

(* The respawns of one call move forward: a position is tried again only   *)
(* while it is the first hole, and never one before it.                    *)
RespawnsAdvance ==
  \A i, j \in 1 .. Len(respawns) : i <= j => respawns[i] <= respawns[j]

(* The stream a seek opens is still needed while it is being opened: some  *)
(* byte of the window is missing.                                          *)
SeekOpensOnlyWhenNeeded ==
  pc = "seek" => Missing(readPos, SeekWindow) # {}

(* What a callback found missing under the mutex is still missing when a   *)
(* stream is opened for it.                                                *)
OpenedForMissing == StalledHoleStaysMissing /\ SeekOpensOnlyWhenNeeded

(* When a seek is answered, the window behind it is present or the first   *)
(* missing byte of it lies in the range of a running reader: the next read *)
(* need not respawn one unless a reader has stopped in between.            *)
SeekPrimes ==
  [][SeekCall \/ SeekOpen =>
       (reply'.kind = "seeked" =>
          (\/ Missing(readPos, SeekWindow) = {}
           \/ Covered(FirstMissing(readPos, SeekWindow)))')]_vars

(* A callback that has been called returns, however readers die: it does   *)
(* not wait for a reader that is gone, nor respawn forever.                *)
CallReturns == pc \in {"read", "reopen", "seek"} ~> pc = "idle"

(* What the caller can see of the state: the answer, or the call being     *)
(* served.                                                                 *)
Visible ==
  IF pc \in {"read", "reopen"} THEN [kind |-> "reading", want |-> want]
  ELSE IF pc = "seek" THEN [kind |-> "seeking", to |-> readPos]
  ELSE reply

Source == INSTANCE ByteSource
            WITH Size <- ObjSize, position <- readPos, reply <- Visible

(* The caller sees an ordinary seekable source of the object's bytes: no   *)
(* zero-filled, short, torn or misplaced read however the tasks interleave *)
(* and fail.                                                               *)
ImplementsByteSource == Source!Spec

-------------------------------------------------------------------------------
(* What comments of io.rs say and the code does not do.                    *)

(* "No live reader covers this position: its reader died before delivering *)
(* the bytes": a stall needs a fault.                                      *)
StallOnlyAfterFault == pc = "reopen" => faults > 0

(* "Ensure that any tasks running on a global tokio runtime are aborted":  *)
(* once FFmpeg has dropped the context, nothing is fetched any more.       *)
NoFetchAfterClose == [][pc = "closed" => UNCHANGED marked]_vars
===============================================================================
