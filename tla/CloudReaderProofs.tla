--------------------------- MODULE CloudReaderProofs ---------------------------
(* Proofs about CloudReader, for every object, every number of readers,    *)
(* every chunking and every number of network faults.                      *)
EXTENDS CloudReader, WellFoundedInduction, TLAPS

(* The first missing byte exists whenever the window misses one.           *)
LEMMA LeastExists ==
  ASSUME NEW S \in SUBSET Nat, S # {}
  PROVE  \E x \in S : \A y \in S : x <= y
<1> DEFINE R == {ss \in Nat \X Nat : ss[1] < ss[2]}
<1>1. IsWellFoundedOn(R, Nat)
  BY NatLessThanWellFounded, Zenon DEF OpToRel
<1>2. PICK x \in S : \A y \in S : ~ (<<y, x>> \in R)
  BY <1>1, WFMin
<1>3. ASSUME NEW y \in S PROVE x <= y
  <2>1. <<y, x>> \notin R  BY <1>2
  <2>2. <<y, x>>[1] = y /\ <<y, x>>[2] = x /\ <<y, x>> \in Nat \X Nat
    OBVIOUS
  <2>3. ~ (y < x)  BY <2>1, <2>2, Zenon
  <2>. QED  BY <2>3
<1>. QED  BY <1>3

(* What FirstMissing returns: a missing byte of the window with no missing *)
(* byte before it.                                                         *)
LEMMA FirstMissingIsFirst ==
  ASSUME NEW p \in Nat, NEW n \in Nat, Missing(p, n) # {}
  PROVE  /\ FirstMissing(p, n) \in Missing(p, n)
         /\ FirstMissing(p, n) \in Pos
         /\ FirstMissing(p, n) \notin marked
         /\ p <= FirstMissing(p, n)
         /\ \A j \in p .. FirstMissing(p, n) - 1 : j \in marked
<1> USE CloudAssumption
<1>1. Window(p, n) \subseteq Pos /\ \A j \in Window(p, n) : p <= j
  BY DEF Window, MinOf, Pos
<1>2. Missing(p, n) \in SUBSET Nat
  BY <1>1 DEF Missing, Pos
<1>3. \E x \in Missing(p, n) : \A y \in Missing(p, n) : x <= y
  BY <1>2, LeastExists
<1>4. /\ FirstMissing(p, n) \in Missing(p, n)
      /\ \A y \in Missing(p, n) : FirstMissing(p, n) <= y
  BY <1>3 DEF FirstMissing
<1>5. ASSUME NEW j \in p .. FirstMissing(p, n) - 1 PROVE j \in marked
  <2>1. FirstMissing(p, n) \in Window(p, n)
    BY <1>4 DEF Missing
  <2>2. j \in Window(p, n)
    BY <2>1 DEF Window, MinOf
  <2>. QED  BY <2>1, <2>2, <1>1, <1>4 DEF Missing, Pos
<1>. QED  BY <1>1, <1>4, <1>5 DEF Missing

-------------------------------------------------------------------------------
(* A running task writes where its stream delivers, at or past its start.  *)
ReaderShape ==
  \A r \in ReaderId : /\ task[r].start <= task[r].next
                      /\ task[r].stream = task[r].next

(* A stalled call knows its hole, no call but a read knows any, and a seek *)
(* fetches inside the object; a read asks for something.                   *)
CallShape ==
  /\ pc = "reopen" => respawns # <<>>
  /\ pc \notin {"read", "reopen"} => respawns = <<>>
  /\ pc = "seek" => readPos \in Pos
  /\ pc \in {"read", "reopen"} => want > 0

TypeInv == TypeOK /\ ReaderShape /\ CallShape

(* The named steps of Next, so that each proof goes through them once.     *)
LEMMA NextCases ==
  ASSUME Next, NEW ACTION P,
         \A n \in ReadSizes : ReadCall(n) => P,
         SeekSize => P,
         \A o \in SeekOffsets : SeekRefused(o) => P,
         \A w \in Whence, o \in SeekOffsets : SeekReady(w, o) => P,
         \A w \in Whence, o \in SeekOffsets : SeekFetch(w, o) => P,
         ReadEof => P, ReadReady => P, ReadStall => P, ReadGiveUp => P,
         Reopen => P, ReopenFail => P, SeekOpen => P, SeekOpenFail => P,
         Close => P,
         \A r \in ReaderId, k \in 1 .. MaxChunk : WriteChunk(r, k) => P,
         \A r \in ReaderId : ReaderFail(r) => P,
         \A r \in ReaderId : ReaderEnd(r) => P
  PROVE  P
BY DEF Next, SeekCall, Callback, ReaderStep, ReaderChunk

(* A chunk copied inside the buffer leaves a buffer of bytes.              *)
LEMMA CopiedType ==
  ASSUME data \in [Pos -> Byte], NEW at \in Nat, NEW k \in Nat, at + k <= ObjSize
  PROVE  Copied(at, k, at) \in [Pos -> Byte]
<1>1. Content \in [Pos -> Byte]
  BY CloudAssumption
<1>2. \A i \in at .. at + k - 1 : at + i - at \in Pos
  BY CloudAssumption DEF Pos
<1>. QED  BY <1>1, <1>2 DEF Copied

(* A task that has copied a chunk writes where its stream delivers.        *)
LEMMA AdvancedType ==
  ASSUME NEW t \in Task, NEW k \in Nat, NEW stop \in BOOLEAN, t.next + k <= ObjSize,
         t.start <= t.next, t.stream = t.next
  PROVE  /\ Advanced(t, k, stop) \in Task
         /\ Advanced(t, k, stop).start = t.start
         /\ Advanced(t, k, stop).next = t.next + k
         /\ Advanced(t, k, stop).stream = t.next + k
         /\ Advanced(t, k, stop).start <= Advanced(t, k, stop).next
         /\ Advanced(t, k, stop).stream = Advanced(t, k, stop).next
BY CloudAssumption DEF Advanced, Task, Pos

(* A chunk advances its task, which stops or goes on.                      *)
LEMMA ChunkAdvances ==
  ASSUME NEW r \in ReaderId, NEW k \in 1 .. MaxChunk, WriteChunk(r, k)
  PROVE  \E stop \in BOOLEAN : task' = [task EXCEPT ![r] = Advanced(task[r], k, stop)]
<1> DEFINE stop == NextPosition(task[r].next + k) \in marked'
<1>1. stop \in BOOLEAN
  OBVIOUS
<1>2. task' = [task EXCEPT ![r] = Advanced(task[r], k, stop)]
  BY DEF WriteChunk
<1> HIDE DEF stop
<1>. QED  BY <1>1, <1>2

(* The initial state is in range.                                          *)
LEMMA TypeInit == Init => TypeInv
<1> SUFFICES ASSUME Init PROVE TypeInv
  OBVIOUS
<1> USE CloudAssumption DEF Init
<1>0. Blank \in Task /\ Blank.start <= Blank.next /\ Blank.stream = Blank.next
  BY DEF Blank, Task, Pos
<1>1. data \in [Pos -> Byte]
  BY DEF Byte, Pos
<1>2. reply \in Answer
  BY DEF Answer
<1>3. respawns \in Seq(Pos) /\ Len(respawns) <= MaxRespawns
  OBVIOUS
<1>4. task \in [ReaderId -> Task] /\ ReaderShape
  <2> HIDE DEF Init
  <2>. QED  BY <1>0 DEF Init, ReaderShape
<1>5. TypeOK
  BY <1>1, <1>2, <1>3, <1>4 DEF TypeOK
<1>. QED
  BY <1>4, <1>5 DEF TypeInv, CallShape

(* Every callback that returns leaves a well-typed idle thread.            *)
LEMMA ReturnType ==
  ASSUME NEW STATE answer, Return(answer), TypeInv
  PROVE  /\ pc' = "idle" /\ want' \in Nat /\ reply' = answer
         /\ respawns' = <<>> /\ respawns' \in Seq(Pos)
         /\ Len(respawns') <= MaxRespawns
BY CloudAssumption DEF Return

(* A reader spawned inside the object is well typed.                       *)
LEMMA SpawnType ==
  ASSUME NEW r, NEW STATE p, Spawn(r, p), p \in Pos, TypeInv
  PROVE  /\ live' \subseteq ReaderId /\ task' \in [ReaderId -> Task]
         /\ ReaderShape'
BY CloudAssumption DEF Spawn, TypeInv, TypeOK, Task, Pos, ReaderShape

(* Every step keeps the state in range.                                    *)
LEMMA TypeStep == TypeInv /\ [Next]_vars => TypeInv'
<1> SUFFICES ASSUME TypeInv, [Next]_vars PROVE TypeInv'
  OBVIOUS
<1> USE CloudAssumption
<1> DEFINE Inside == data' \in [Pos -> Byte] /\ marked' \subseteq Pos
<1>0. /\ data \in [Pos -> Byte] /\ marked \subseteq Pos /\ readPos \in 0 .. ObjSize
      /\ live \subseteq ReaderId /\ task \in [ReaderId -> Task]
      /\ pc \in {"idle", "read", "reopen", "seek", "closed"} /\ want \in Nat
      /\ respawns \in Seq(Pos) /\ Len(respawns) <= MaxRespawns
      /\ reply \in Answer \/ BytesAnswer
      /\ faults \in 0 .. MaxFaults
  BY DEF TypeInv, TypeOK
<1>1. CASE UNCHANGED vars
  BY <1>0, <1>1 DEF vars, TypeInv, TypeOK, ReaderShape, CallShape, BytesAnswer
<1>2. ASSUME NEW n \in ReadSizes, ReadCall(n) PROVE TypeInv'
  <2>1. reply' \in Answer
    BY <1>2 DEF ReadCall, Answer
  <2>. QED
    BY <1>2, <1>0, <2>1
    DEF ReadCall, buffer, TypeInv, TypeOK, ReaderShape, CallShape
<1>3. ASSUME SeekSize PROVE TypeInv'
  <2>1. reply' \in Answer
    BY <1>3 DEF SeekSize, Return, Answer
  <2>. QED
    BY <1>3, <1>0, <2>1, ReturnType
    DEF SeekSize, buffer, TypeInv, TypeOK, ReaderShape, CallShape
<1>F. Failed \in Answer
  BY DEF Failed, Answer
<1>4. ASSUME NEW o \in SeekOffsets, SeekRefused(o) PROVE TypeInv'
  BY <1>4, <1>0, <1>F, ReturnType
  DEF SeekRefused, buffer, TypeInv, TypeOK, ReaderShape, CallShape
<1>T. ASSUME NEW w \in Whence, NEW o \in SeekOffsets
      PROVE  Target(w, o) \in Int /\ Clamp(Target(w, o)) \in 0 .. ObjSize
  BY <1>0 DEF Target, Whence, Clamp
<1>5. ASSUME NEW w \in Whence, NEW o \in SeekOffsets, SeekReady(w, o) PROVE TypeInv'
  <2>1. reply' \in Answer
    BY <1>5, <1>T DEF SeekReady, Return, Answer
  <2>. QED
    BY <1>5, <1>0, <1>T, <2>1, ReturnType
    DEF SeekReady, Return, buffer, TypeInv, TypeOK, ReaderShape, CallShape
<1>6. ASSUME NEW w \in Whence, NEW o \in SeekOffsets, SeekFetch(w, o) PROVE TypeInv'
  <2>1. reply' \in Answer
    BY <1>6 DEF SeekFetch, Answer
  <2>2. readPos' \in Pos
    BY <1>6, <1>T DEF SeekFetch, Missing, Window, MinOf, Pos
  <2>. QED
    BY <1>6, <1>0, <1>T, <2>1, <2>2
    DEF SeekFetch, buffer, TypeInv, TypeOK, ReaderShape, CallShape
<1>7. ASSUME ReadEof PROVE TypeInv'
  <2>1. reply' \in Answer
    BY <1>7 DEF ReadEof, Return, Answer
  <2>. QED
    BY <1>7, <1>0, <2>1
    DEF ReadEof, Return, buffer, TypeInv, TypeOK, ReaderShape, CallShape
<1>8. ASSUME ReadReady PROVE TypeInv'
  <2>1. Window(readPos, want) \subseteq Pos /\ readPos \in Pos
    BY <1>8, <1>0 DEF ReadReady, Window, MinOf, Pos
  <2>2. BytesAnswer'
    BY <1>8, <2>1 DEF ReadReady, Return, BytesAnswer
  <2>3. readPos' \in 0 .. ObjSize
    BY <1>8, <1>0 DEF ReadReady, MinOf
  <2>. QED
    BY <1>8, <1>0, <2>2, <2>3
    DEF ReadReady, Return, buffer, TypeInv, TypeOK, ReaderShape, CallShape
<1>9. ASSUME ReadStall PROVE TypeInv'
  <2>1. FirstMissing(readPos, want) \in Pos
    BY <1>9, <1>0, FirstMissingIsFirst DEF ReadStall
  <2>2. /\ respawns' \in Seq(Pos) /\ respawns' # <<>>
        /\ Len(respawns') = Len(respawns) + 1
    BY <1>9, <1>0, <2>1 DEF ReadStall
  <2>. QED
    BY <1>9, <1>0, <2>2
    DEF ReadStall, buffer, TypeInv, TypeOK, ReaderShape, CallShape, BytesAnswer
<1>10. ASSUME ReadGiveUp PROVE TypeInv'
  BY <1>10, <1>0, <1>F
  DEF ReadGiveUp, Return, buffer, TypeInv, TypeOK, ReaderShape, CallShape
<1>11. ASSUME Reopen PROVE TypeInv'
  <2>1. Hole \in Pos
    BY <1>11, <1>0 DEF Reopen, Hole, TypeInv, CallShape
  <2>. QED
    BY <1>11, <1>0, <2>1, SpawnType
    DEF Reopen, buffer, TypeInv, TypeOK, CallShape, BytesAnswer
<1>12. ASSUME ReopenFail PROVE TypeInv'
  BY <1>12, <1>0, <1>F
  DEF ReopenFail, NetworkFault, Return, buffer, TypeInv, TypeOK, ReaderShape, CallShape
<1>13. ASSUME SeekOpen PROVE TypeInv'
  <2>1. reply' \in Answer
    BY <1>13, <1>0 DEF SeekOpen, Return, Answer
  <2>2. readPos \in Pos
    BY <1>13 DEF SeekOpen, TypeInv, CallShape
  <2>. QED
    BY <1>13, <1>0, <2>1, <2>2, SpawnType
    DEF SeekOpen, Return, buffer, TypeInv, TypeOK, CallShape
<1>14. ASSUME SeekOpenFail PROVE TypeInv'
  BY <1>14, <1>0, <1>F
  DEF SeekOpenFail, NetworkFault, Return, buffer, TypeInv, TypeOK, ReaderShape, CallShape
<1>15. ASSUME Close PROVE TypeInv'
  BY <1>15, <1>0
  DEF Close, buffer, TypeInv, TypeOK, ReaderShape, CallShape, BytesAnswer
<1>16. ASSUME NEW r \in ReaderId, NEW k \in 1 .. MaxChunk, WriteChunk(r, k)
       PROVE  TypeInv'
  <2> DEFINE old == task[r].next
  <2>2. /\ old \in Nat /\ old + k <= ObjSize /\ k \in Nat /\ task[r] \in Task
        /\ task[r].start <= old /\ task[r].stream = old /\ task[r].start \in Pos
    BY <1>0, <1>16 DEF WriteChunk, Task, Pos, TypeInv, ReaderShape
  <2>3. data' \in [Pos -> Byte]
    <3>1. data' = Copied(old, k, old)
      BY <1>16, <2>2 DEF WriteChunk
    <3>2. Copied(old, k, old) \in [Pos -> Byte]
      BY <1>0, <2>2, CopiedType
    <3>. QED  BY <3>1, <3>2
  <2>4. marked' \subseteq Pos
    <3>1. marked' = marked \union Written(old, old + k)
      BY <1>16 DEF WriteChunk
    <3>2. Written(old, old + k) \subseteq Pos
      BY <2>2 DEF Written, Pos
    <3>. QED  BY <1>0, <3>1, <3>2
  <2>5. task' \in [ReaderId -> Task] /\ ReaderShape'
    <3>1. ASSUME NEW t \in Task, t.start <= t.next, t.stream = t.next,
                 task' = [task EXCEPT ![r] = t]
          PROVE  task' \in [ReaderId -> Task] /\ ReaderShape'
      <4>1. task' \in [ReaderId -> Task]
        BY <3>1, <1>0
      <4>2. ASSUME NEW q \in ReaderId
            PROVE  task'[q].start <= task'[q].next /\ task'[q].stream = task'[q].next
        BY <3>1, <1>0 DEF TypeInv, ReaderShape
      <4>. QED  BY <4>1, <4>2 DEF ReaderShape
    <3>2. PICK stop \in BOOLEAN : task' = [task EXCEPT ![r] = Advanced(task[r], k, stop)]
      BY <1>16, ChunkAdvances
    <3>3. /\ Advanced(task[r], k, stop) \in Task
          /\ Advanced(task[r], k, stop).start <= Advanced(task[r], k, stop).next
          /\ Advanced(task[r], k, stop).stream = Advanced(task[r], k, stop).next
      BY <2>2, AdvancedType
    <3>. QED  BY <3>1, <3>2, <3>3
  <2>6. live' \subseteq ReaderId
    BY <1>0, <1>16 DEF WriteChunk
  <2>. QED
    BY <1>16, <1>0, <2>3, <2>4, <2>5, <2>6
    DEF WriteChunk, TypeInv, TypeOK, CallShape, BytesAnswer
<1>17. ASSUME NEW r \in ReaderId, ReaderFail(r) PROVE TypeInv'
  <2>1. task' \in [ReaderId -> Task] /\ ReaderShape'
    BY <1>17, <1>0 DEF ReaderFail, Blank, Task, Pos, TypeInv, ReaderShape
  <2>. QED
    BY <1>17, <1>0, <2>1
    DEF ReaderFail, NetworkFault, buffer, TypeInv, TypeOK, CallShape, BytesAnswer
<1>18. ASSUME NEW r \in ReaderId, ReaderEnd(r) PROVE TypeInv'
  <2>1. task' \in [ReaderId -> Task] /\ ReaderShape'
    BY <1>18, <1>0 DEF ReaderEnd, Blank, Task, Pos, TypeInv, ReaderShape
  <2>. QED
    BY <1>18, <1>0, <2>1
    DEF ReaderEnd, buffer, TypeInv, TypeOK, CallShape, BytesAnswer
<1>. QED
  <2>1. CASE Next
    BY ONLY <2>1, <1>2, <1>3, <1>4, <1>5, <1>6, <1>7, <1>8, <1>9, <1>10, <1>11,
       <1>12, <1>13, <1>14, <1>15, <1>16, <1>17, <1>18, NextCases
  <2>. QED  BY <1>1, <2>1
(* The state stays in range in every behaviour: whatever FFmpeg seeks to   *)
(* and however long its reads are, the read position stays in the object,  *)
(* no chunk is written outside the buffer, and no read call respawns more  *)
(* than MAX_READER_RESPAWNS readers.                                       *)
THEOREM TypeCorrect == Spec => []TypeOK
<1>1. Spec => []TypeInv
  BY TypeInit, TypeStep, PTL DEF Spec
<1>2. TypeInv => TypeOK
  BY DEF TypeInv
<1>. QED  BY <1>1, <1>2, PTL
-------------------------------------------------------------------------------
(* The inductive invariant.  Beside the properties themselves it says that *)
(* between the read position and each position this call respawned at      *)
(* nothing is missing: so the next hole is never before the last one.      *)
RespawnPrefix ==
  \A i \in 1 .. Len(respawns) :
    /\ readPos <= respawns[i]
    /\ \A j \in readPos .. respawns[i] - 1 : j \in marked

BufferInv == CoverageIsHonest /\ MarkedIsContent
CallInv   == /\ StalledHoleStaysMissing
             /\ RespawnPrefix
             /\ RespawnsAdvance
             /\ SeekOpensOnlyWhenNeeded

IInv == TypeInv /\ BufferInv /\ CallInv

(* The invariants hold when only the first reader runs.                    *)
LEMMA SafeInit == Init => BufferInv /\ CallInv
BY CloudAssumption
DEF Init, BufferInv, CallInv, CoverageIsHonest, MarkedIsContent, Blank,
    StalledHoleStaysMissing, RespawnPrefix, RespawnsAdvance, SeekOpensOnlyWhenNeeded

(* What one chunk does: only bytes from the task's start on become         *)
(* present, all of them with their content, and the task passes them.      *)
LEMMA ChunkEffect ==
  ASSUME NEW r \in ReaderId, NEW k \in 1 .. MaxChunk, WriteChunk(r, k), TypeInv
  PROVE  /\ task[r].next \in Nat /\ task[r].start \in Nat /\ task[r].start <= task[r].next
         /\ task[r].next + k <= ObjSize /\ k \in Nat
         /\ marked' = marked \union (task[r].next .. task[r].next + k - 1)
         /\ data' = Copied(task[r].next, k, task[r].next)
         /\ live' \subseteq live
         /\ \A q \in live' : /\ task'[q].start = task[q].start
                              /\ task'[q].next = IF q = r THEN task[r].next + k ELSE task[q].next
<1> USE CloudAssumption
<1>1. /\ task \in [ReaderId -> Task] /\ live \subseteq ReaderId /\ task[r] \in Task
      /\ task[r].start <= task[r].next /\ task[r].stream = task[r].next
  BY DEF TypeInv, TypeOK, ReaderShape
<1>2. /\ task[r].next \in Nat /\ task[r].start \in Nat
      /\ task[r].next + k <= ObjSize /\ k \in Nat
  BY <1>1 DEF WriteChunk, Task, Pos
<1>3. /\ marked' = marked \union (task[r].next .. task[r].next + k - 1)
      /\ data' = Copied(task[r].next, k, task[r].next)
      /\ live' \subseteq live
  <2>1. marked' = marked \union (task[r].next .. task[r].next + k - 1)
    <3>1. marked' = marked \union Written(task[r].next, task[r].next + k)
      BY DEF WriteChunk
    <3>. QED  BY <1>2, <3>1 DEF Written
  <2>2. data' = Copied(task[r].next, k, task[r].next)
    BY <1>1 DEF WriteChunk
  <2>3. live' \subseteq live
    BY DEF WriteChunk
  <2>. QED  BY <2>1, <2>2, <2>3
<1>4. ASSUME NEW q \in live'
      PROVE  /\ task'[q].start = task[q].start
             /\ task'[q].next = IF q = r THEN task[r].next + k ELSE task[q].next
  <2>1. PICK stop \in BOOLEAN : task' = [task EXCEPT ![r] = Advanced(task[r], k, stop)]
    BY ChunkAdvances
  <2>. QED  BY <2>1, <1>1, <1>2, <1>3, <1>4, AdvancedType
<1>. QED  BY <1>1, <1>2, <1>3, <1>4

(* A chunk keeps the invariants: it fills no stalled hole, since that hole *)
(* lies before the start of every running reader.                          *)
LEMMA ChunkSafe ==
  ASSUME NEW r \in ReaderId, NEW k \in 1 .. MaxChunk, WriteChunk(r, k), IInv
  PROVE  BufferInv' /\ CallInv'
<1> USE CloudAssumption
<1> DEFINE from == task[r].next
           to   == task[r].next + k - 1
<1>1. /\ from \in Nat /\ task[r].start \in Nat /\ task[r].start <= from
      /\ from + k <= ObjSize /\ k \in Nat
      /\ marked' = marked \union (from .. to)
      /\ data' = Copied(from, k, from)
      /\ live' \subseteq live /\ r \in live
      /\ UNCHANGED <<readPos, pc, want, respawns>>
      /\ pc # "seek"
  BY ChunkEffect DEF IInv, WriteChunk, Unlocked
<1>2. ASSUME NEW q \in live'
      PROVE  /\ task'[q].start = task[q].start
             /\ task'[q].next = IF q = r THEN from + k ELSE task[q].next
  BY <1>2, ChunkEffect DEF IInv
<1>3. CoverageIsHonest'
  <2>1. ASSUME NEW q \in live' PROVE task'[q].start .. task'[q].next - 1 \subseteq marked'
    <3>1. task[q].start .. task[q].next - 1 \subseteq marked
      BY <1>1, <2>1 DEF IInv, BufferInv, CoverageIsHonest
    <3>2. task[q].start \in Nat /\ task[q].next \in Nat
      BY <1>1, <2>1 DEF IInv, TypeInv, TypeOK, Task, Pos
    <3>3. CASE q # r
      BY <1>1, <1>2, <2>1, <3>1, <3>3
    <3>4. CASE q = r
      BY <1>1, <1>2, <2>1, <3>1, <3>2, <3>4
    <3>. QED  BY <3>3, <3>4
  <2>. QED  BY <2>1 DEF CoverageIsHonest
<1>4. MarkedIsContent'
  <2>1. ASSUME NEW i \in marked' PROVE data'[i] = Content[i]
    <3>1. i \in Pos
      BY <1>1, <2>1 DEF IInv, TypeInv, TypeOK, Pos
    <3>2. CASE i \in from .. to
      BY <1>1, <3>1, <3>2 DEF Copied
    <3>3. CASE i \notin from .. to
      BY <1>1, <2>1, <3>1, <3>3 DEF Copied, IInv, BufferInv, MarkedIsContent
    <3>. QED  BY <3>2, <3>3
  <2>. QED  BY <2>1 DEF MarkedIsContent
<1>5. StalledHoleStaysMissing'
  <2> SUFFICES ASSUME pc' = "reopen" PROVE Hole' \notin marked' /\ ~ Covered(Hole)'
    BY DEF StalledHoleStaysMissing
  <2>1. /\ Hole' = Hole /\ Hole \notin marked /\ Hole \in Pos
        /\ \A q \in live : ~ (task[q].start <= Hole)
    BY <1>1 DEF Hole, Covered, IInv, CallInv, StalledHoleStaysMissing, TypeInv, TypeOK, CallShape
  <2>2. Hole \notin from .. to
    BY <1>1, <2>1 DEF Pos
  <2>3. \A q \in live' : ~ (task'[q].start <= Hole')
    BY <1>1, <1>2, <2>1
  <2>. QED  BY <1>1, <2>1, <2>2, <2>3 DEF Covered, Hole
<1>6. RespawnPrefix'
  BY <1>1 DEF RespawnPrefix, IInv, CallInv
<1>7. RespawnsAdvance' /\ SeekOpensOnlyWhenNeeded'
  BY <1>1 DEF RespawnsAdvance, SeekOpensOnlyWhenNeeded, IInv, CallInv
<1>. QED  BY <1>3, <1>4, <1>5, <1>6, <1>7 DEF BufferInv, CallInv
(* The steps that leave the buffer alone and start no reader keep what the *)
(* buffer promises; so does a reader that ends.                            *)
LEMMA BufferKept ==
  ASSUME BufferInv, UNCHANGED buffer, live' \subseteq live,
         \A r \in live' : task'[r] = task[r]
  PROVE  BufferInv'
BY DEF BufferInv, CoverageIsHonest, MarkedIsContent, buffer

LEMMA SpawnKept ==
  ASSUME IInv, UNCHANGED buffer, NEW r, NEW STATE p, p \in Pos, Spawn(r, p)
  PROVE  BufferInv'
<1>1. /\ live' = live \union {r} /\ r \in ReaderId
      /\ task' = [task EXCEPT ![r] = [start |-> p, next |-> p, stream |-> p,
                                      stops |-> FALSE]]
      /\ task \in [ReaderId -> Task] /\ live \subseteq ReaderId
  BY DEF Spawn, IInv, TypeInv, TypeOK
<1>2. ASSUME NEW q \in live' PROVE task'[q].start .. task'[q].next - 1 \subseteq marked
  <2>1. CASE q = r
    BY <1>1, <2>1, CloudAssumption DEF Pos
  <2>2. CASE q # r
    BY <1>1, <1>2, <2>2 DEF IInv, BufferInv, CoverageIsHonest
  <2>. QED  BY <2>1, <2>2
<1>. QED
  BY <1>2 DEF IInv, BufferInv, CoverageIsHonest, MarkedIsContent, buffer

(* A callback that returns, or a thread that is idle or closed, has no     *)
(* stalled hole, no respawns and no stream to open.                        *)
LEMMA NoCallSafe ==
  ASSUME pc' \in {"idle", "closed"}, respawns' = <<>>
  PROVE  CallInv'
BY DEF CallInv, StalledHoleStaysMissing, RespawnPrefix, RespawnsAdvance,
       SeekOpensOnlyWhenNeeded

(* A new stall is at the first hole: nothing before it is missing, so it is*)
(* at or past every hole this call respawned at.                           *)
LEMMA StallSafe == ASSUME IInv, ReadStall PROVE CallInv'
<1> DEFINE first == FirstMissing(readPos, want)
           n == Len(respawns)
<1>1. /\ readPos \in Nat /\ want \in Nat /\ respawns \in Seq(Pos)
      /\ Missing(readPos, want) # {} /\ ~ Covered(first)
      /\ respawns' = Append(respawns, first) /\ pc' = "reopen"
      /\ UNCHANGED <<marked, live, task, readPos>>
  BY CloudAssumption DEF IInv, TypeInv, TypeOK, ReadStall, buffer
<1>2. /\ first \in Pos /\ first \notin marked /\ readPos <= first
      /\ \A j \in readPos .. first - 1 : j \in marked
  BY <1>1, FirstMissingIsFirst
<1> HIDE DEF first
<1>3. /\ n \in Nat /\ Len(respawns') = n + 1 /\ respawns'[n + 1] = first
      /\ \A i \in 1 .. n : respawns'[i] = respawns[i] /\ respawns[i] \in Pos
  BY <1>1, <1>2
<1>4. ASSUME NEW i \in 1 .. n
      PROVE  /\ readPos <= respawns[i]
             /\ \A j \in readPos .. respawns[i] - 1 : j \in marked
             /\ respawns[i] <= first
  <2>1. /\ readPos <= respawns[i]
        /\ \A j \in readPos .. respawns[i] - 1 : j \in marked
    BY DEF IInv, CallInv, RespawnPrefix
  <2>2. ~ (first < respawns[i])
    BY <1>1, <1>2, <1>3, <2>1 DEF Pos
  <2>. QED  BY <1>2, <1>3, <2>1, <2>2 DEF Pos
<1>5. StalledHoleStaysMissing'
  BY <1>1, <1>2, <1>3 DEF StalledHoleStaysMissing, Hole, Covered
<1>6. RespawnPrefix'
  BY <1>1, <1>2, <1>3, <1>4 DEF RespawnPrefix
<1>7. RespawnsAdvance'
  <2> SUFFICES ASSUME NEW i \in 1 .. n + 1, NEW j \in 1 .. n + 1, i <= j
               PROVE  respawns'[i] <= respawns'[j]
    BY <1>3 DEF RespawnsAdvance
  <2>1. CASE j \in 1 .. n
    BY <1>3, <2>1 DEF IInv, CallInv, RespawnsAdvance
  <2>2. CASE j = n + 1
    BY <1>2, <1>3, <1>4, <2>2 DEF Pos
  <2>. QED  BY <2>1, <2>2, <1>3
<1>8. SeekOpensOnlyWhenNeeded'
  BY <1>1 DEF SeekOpensOnlyWhenNeeded
<1>. QED  BY <1>5, <1>6, <1>7, <1>8 DEF CallInv
(* A reader that ends, by itself or by a fault, takes nothing with it: the *)
(* hole of a stalled call is nobody's all the more.                        *)
LEMMA EndSafe ==
  ASSUME IInv, NEW r \in ReaderId, live' = live \ {r},
         task' = [task EXCEPT ![r] = Blank],
         UNCHANGED <<buffer, readPos, pc, want, respawns>>
  PROVE  BufferInv' /\ CallInv'
<1>0. BufferInv /\ CallInv
  BY DEF IInv
<1>1. live' \subseteq live /\ \A q \in live' : task'[q] = task[q]
  BY DEF IInv, TypeInv, TypeOK
<1>2. BufferInv'
  BY <1>0, <1>1, BufferKept
<1>3. StalledHoleStaysMissing'
  BY <1>0, <1>1 DEF CallInv, StalledHoleStaysMissing, Hole, Covered, buffer
<1>4. RespawnPrefix' /\ RespawnsAdvance' /\ SeekOpensOnlyWhenNeeded'
  BY <1>0
  DEF CallInv, RespawnPrefix, RespawnsAdvance, SeekOpensOnlyWhenNeeded, Missing, buffer
<1>. QED  BY <1>2, <1>3, <1>4 DEF CallInv

(* Every step keeps the buffer's and the call's invariants.                *)
LEMMA SafeStep == IInv /\ [Next]_vars => BufferInv' /\ CallInv'
<1> SUFFICES ASSUME IInv, [Next]_vars PROVE BufferInv' /\ CallInv'
  OBVIOUS
<1>0. BufferInv /\ CallInv
  BY DEF IInv
<1>1. CASE UNCHANGED vars
  BY <1>0, <1>1
  DEF vars, BufferInv, CallInv, CoverageIsHonest, MarkedIsContent, RespawnPrefix,
      StalledHoleStaysMissing, RespawnsAdvance, SeekOpensOnlyWhenNeeded, Covered, Hole, Missing
<1>2. ASSUME NEW n \in ReadSizes, ReadCall(n) PROVE BufferInv' /\ CallInv'
  <2>1. respawns = <<>>
    BY <1>2 DEF ReadCall, IInv, TypeInv, CallShape
  <2>2. CallInv'
    BY <1>2, <2>1
    DEF ReadCall, CallInv, RespawnPrefix, StalledHoleStaysMissing, RespawnsAdvance,
        SeekOpensOnlyWhenNeeded
  <2>. QED  BY <1>0, <1>2, <2>2, BufferKept DEF ReadCall
<1>3. ASSUME SeekSize PROVE BufferInv' /\ CallInv'
  BY <1>0, <1>3, BufferKept, NoCallSafe DEF SeekSize, Return
<1>4. ASSUME NEW o \in SeekOffsets, SeekRefused(o) PROVE BufferInv' /\ CallInv'
  BY <1>0, <1>4, BufferKept, NoCallSafe DEF SeekRefused, Return
<1>5. ASSUME NEW w \in Whence, NEW o \in SeekOffsets, SeekReady(w, o)
      PROVE  BufferInv' /\ CallInv'
  BY <1>0, <1>5, BufferKept, NoCallSafe DEF SeekReady, Return
<1>6. ASSUME NEW w \in Whence, NEW o \in SeekOffsets, SeekFetch(w, o)
      PROVE  BufferInv' /\ CallInv'
  <2>1. respawns = <<>>
    BY <1>6 DEF SeekFetch, IInv, TypeInv, CallShape
  <2>2. SeekOpensOnlyWhenNeeded'
    BY <1>6 DEF SeekFetch, SeekOpensOnlyWhenNeeded, Missing, buffer
  <2>3. CallInv'
    BY <1>6, <2>1, <2>2
    DEF SeekFetch, CallInv, RespawnPrefix, StalledHoleStaysMissing, RespawnsAdvance
  <2>. QED  BY <1>0, <1>6, <2>3, BufferKept DEF SeekFetch
<1>7. ASSUME ReadEof PROVE BufferInv' /\ CallInv'
  BY <1>0, <1>7, BufferKept, NoCallSafe DEF ReadEof, Return
<1>8. ASSUME ReadReady PROVE BufferInv' /\ CallInv'
  BY <1>0, <1>8, BufferKept, NoCallSafe DEF ReadReady, Return
<1>9. ASSUME ReadStall PROVE BufferInv' /\ CallInv'
  BY <1>0, <1>9, BufferKept, StallSafe DEF ReadStall
<1>10. ASSUME ReadGiveUp PROVE BufferInv' /\ CallInv'
  BY <1>0, <1>10, BufferKept, NoCallSafe DEF ReadGiveUp, Return
<1>11. ASSUME Reopen PROVE BufferInv' /\ CallInv'
  <2>1. PICK r \in ReaderId : Spawn(r, Hole)
    BY <1>11 DEF Reopen
  <2>2. Hole \in Pos
    BY <1>11 DEF Reopen, Hole, IInv, TypeInv, TypeOK, CallShape
  <2>3. BufferInv'
    BY <1>11, <2>1, <2>2, SpawnKept DEF Reopen
  <2>4. CallInv'
    BY <1>0, <1>11
    DEF Reopen, buffer, CallInv, RespawnPrefix, StalledHoleStaysMissing, RespawnsAdvance,
        SeekOpensOnlyWhenNeeded
  <2>. QED  BY <2>3, <2>4
<1>12. ASSUME ReopenFail PROVE BufferInv' /\ CallInv'
  BY <1>0, <1>12, BufferKept, NoCallSafe DEF ReopenFail, Return
<1>13. ASSUME SeekOpen PROVE BufferInv' /\ CallInv'
  <2>1. PICK r \in ReaderId : Spawn(r, readPos)
    BY <1>13 DEF SeekOpen
  <2>2. readPos \in Pos
    BY <1>13 DEF SeekOpen, IInv, TypeInv, CallShape
  <2>3. BufferInv'
    BY <1>13, <2>1, <2>2, SpawnKept DEF SeekOpen
  <2>. QED  BY <1>13, <2>3, NoCallSafe DEF SeekOpen, Return
<1>14. ASSUME SeekOpenFail PROVE BufferInv' /\ CallInv'
  BY <1>0, <1>14, BufferKept, NoCallSafe DEF SeekOpenFail, Return
<1>15. ASSUME Close PROVE BufferInv' /\ CallInv'
  <2>1. respawns' = <<>>
    BY <1>15 DEF Close, IInv, TypeInv, CallShape
  <2>. QED  BY <1>0, <1>15, <2>1, BufferKept, NoCallSafe DEF Close
<1>16. ASSUME NEW r \in ReaderId, NEW k \in 1 .. MaxChunk, WriteChunk(r, k)
       PROVE  BufferInv' /\ CallInv'
  BY <1>16, ChunkSafe
<1>17. ASSUME NEW r \in ReaderId, ReaderFail(r) PROVE BufferInv' /\ CallInv'
  BY <1>17, EndSafe DEF ReaderFail
<1>18. ASSUME NEW r \in ReaderId, ReaderEnd(r) PROVE BufferInv' /\ CallInv'
  BY <1>18, EndSafe DEF ReaderEnd
<1>. QED
  <2> DEFINE P == BufferInv' /\ CallInv'
  <2>1. CASE Next
    <3> SUFFICES P
      OBVIOUS
    <3>. QED
      BY ONLY <2>1, <1>2, <1>3, <1>4, <1>5, <1>6, <1>7, <1>8, <1>9, <1>10, <1>11,
         <1>12, <1>13, <1>14, <1>15, <1>16, <1>17, <1>18, NextCases
  <2>. QED  BY <1>1, <2>1

(* The inductive invariant holds in every behaviour.                       *)
LEMMA InvariantHolds == Spec => []IInv
<1>1. Init => IInv
  BY TypeInit, SafeInit DEF IInv
<1>2. IInv /\ [Next]_vars => IInv'
  BY TypeStep, SafeStep DEF IInv
<1>. QED  BY <1>1, <1>2, PTL DEF Spec

(* No reader leaves a gap behind it.                                       *)
THEOREM CoverageAlwaysHonest == Spec => []CoverageIsHonest
<1>1. IInv => CoverageIsHonest  BY DEF IInv, BufferInv
<1>. QED  BY <1>1, InvariantHolds, PTL

(* Every byte whose indicator is set is the object's byte.                 *)
THEOREM MarkedAlwaysContent == Spec => []MarkedIsContent
<1>1. IInv => MarkedIsContent  BY DEF IInv, BufferInv
<1>. QED  BY <1>1, InvariantHolds, PTL

(* What a callback found missing under the mutex is still missing when a   *)
(* stream is opened for it, by a read after the mutex was released or by a *)
(* seek that keeps it.                                                     *)
THEOREM AlwaysOpenedForMissing == Spec => []OpenedForMissing
<1>1. IInv => OpenedForMissing  BY DEF IInv, CallInv, OpenedForMissing
<1>. QED  BY <1>1, InvariantHolds, PTL

(* The respawns of a call never go back.                                   *)
THEOREM RespawnsAlwaysAdvance == Spec => []RespawnsAdvance
<1>1. IInv => RespawnsAdvance  BY DEF IInv, CallInv
<1>. QED  BY <1>1, InvariantHolds, PTL
-------------------------------------------------------------------------------
(* The refinement: every step is a step of ByteSource or leaves what the   *)
(* caller sees unchanged.                                                  *)
LEMMA IdleVisible ==
  ASSUME TypeInv, pc \in {"idle", "closed"}
  PROVE  Visible = reply /\ reply.kind \notin {"reading", "seeking"}
BY DEF Visible, TypeInv, TypeOK, Answer, BytesAnswer

(* The reader starts as a source that has answered.                        *)
LEMMA RefineInit == Init => Source!Init
BY DEF Init, Source!Init, Visible

(* A step that changes neither the position nor what the callbacks are     *)
(* doing is a stutter for the caller.                                      *)
LEMMA RefineStutter ==
  ASSUME UNCHANGED <<readPos, pc, want, reply>>
  PROVE  UNCHANGED Source!vars
BY DEF Source!vars, Visible

(* A callback that returns -1 fails for the caller.                        *)
LEMMA RefineFail ==
  ASSUME Return(Failed), UNCHANGED readPos
  PROVE  Source!Fail
BY DEF Return, Failed, Source!Fail, Visible

(* Every step is one of ByteSource's, or the caller sees nothing of it.    *)
LEMMA RefineStep == IInv /\ [Next]_vars => [Source!Next]_(Source!vars)
<1> SUFFICES ASSUME IInv, [Next]_vars PROVE Source!Next \/ UNCHANGED Source!vars
  OBVIOUS
<1> USE CloudAssumption
<1> DEFINE P == Source!Next \/ UNCHANGED Source!vars
<1>0. /\ TypeInv /\ MarkedIsContent
      /\ readPos \in 0 .. ObjSize /\ want \in Nat /\ marked \subseteq Pos
  BY DEF IInv, BufferInv, TypeInv, TypeOK
<1>1. CASE UNCHANGED vars
  BY <1>1, RefineStutter DEF vars
<1>2. ASSUME NEW n \in ReadSizes, ReadCall(n) PROVE P
  <2>1. Visible' = [kind |-> "reading", want |-> n]
    BY <1>2 DEF ReadCall, Visible
  <2>2. Source!Read(n)
    BY <1>0, <1>2, <2>1, IdleVisible DEF ReadCall, Source!Read, Source!Serving
  <2>. QED  BY <2>2 DEF Source!Next
<1>3. ASSUME SeekSize PROVE P
  <2>1. Visible' = [kind |-> "size", to |-> ObjSize]
    BY <1>3 DEF SeekSize, Return, Visible
  <2>2. Source!AskSize
    BY <1>0, <1>3, <2>1, IdleVisible DEF SeekSize, Source!AskSize, Source!Serving
  <2>. QED  BY <2>2 DEF Source!Next
<1>4. ASSUME NEW o \in SeekOffsets, SeekRefused(o) PROVE P
  BY <1>4, RefineFail DEF SeekRefused, Source!Next
<1>5. ASSUME NEW w \in Whence, NEW o \in SeekOffsets, SeekReady(w, o) PROVE P
  <2>1. /\ Visible' = [kind |-> "seeked", to |-> Target(w, o)]
        /\ readPos' = Clamp(Target(w, o))
    BY <1>5 DEF SeekReady, Return, Visible
  <2>2. Visible'.kind = "seeked" /\ Visible'.to = Target(w, o)
    BY <2>1
  <2>3. Source!Seek
    BY <1>0, <1>5, <2>1, <2>2, IdleVisible
    DEF SeekReady, Clamp, Source!Seek, Source!Serving
  <2>. QED  BY <2>3 DEF Source!Next
<1>6. ASSUME NEW w \in Whence, NEW o \in SeekOffsets, SeekFetch(w, o) PROVE P
  <2>1. Visible' = [kind |-> "seeking", to |-> readPos']
    BY <1>6 DEF SeekFetch, Visible
  <2>2. readPos' \in 0 .. ObjSize - 1
    BY <1>0, <1>6 DEF SeekFetch, Missing, Window, MinOf, Clamp
  <2>3. Source!SeekBegin
    BY <1>0, <1>6, <2>1, <2>2, IdleVisible DEF SeekFetch, Source!SeekBegin, Source!Serving
  <2>. QED  BY <2>3 DEF Source!Next
<1>7. ASSUME ReadEof PROVE P
  <2>1. Visible = [kind |-> "reading", want |-> want] /\ Visible' = [kind |-> "eof"]
    BY <1>7 DEF ReadEof, Return, Visible
  <2>2. readPos = ObjSize
    <3>1. want > 0
      BY <1>0, <1>7 DEF ReadEof, TypeInv, CallShape
    <3>. QED  BY <1>0, <1>7, <3>1 DEF ReadEof, Window, MinOf
  <2>3. Source!EndOfFile
    BY <1>7, <2>1, <2>2 DEF ReadEof, Source!EndOfFile
  <2>. QED  BY <2>3 DEF Source!Next
<1>8. ASSUME ReadReady PROVE P
  <2> DEFINE answer == [i \in Window(readPos, want) |-> data[i]]
  <2>1. /\ Visible = [kind |-> "reading", want |-> want]
        /\ Visible' = [kind |-> "bytes", at |-> readPos, bytes |-> answer]
    BY <1>8 DEF ReadReady, Return, Visible
  <2>2. /\ Window(readPos, want) = readPos .. Source!Right(want) - 1
        /\ readPos' = Source!Right(want)
        /\ readPos < ObjSize
    BY <1>0, <1>8 DEF ReadReady, Window, MinOf, Source!Right
  <2>3. \A i \in Window(readPos, want) : data[i] = Content[i]
    BY <1>0, <1>8 DEF ReadReady, Missing, MarkedIsContent
  <2>4. answer = [i \in readPos .. Source!Right(want) - 1 |-> Content[i]]
    BY <2>2, <2>3
  <2>5. Visible.kind = "reading" /\ Visible.want = want
    BY <2>1
  <2>6. Source!Deliver
    BY <2>1, <2>2, <2>4, <2>5 DEF Source!Deliver
  <2>. QED  BY <2>6 DEF Source!Next
<1>9. ASSUME ReadStall PROVE P
  BY <1>9 DEF ReadStall, Source!vars, Visible
<1>10. ASSUME ReadGiveUp PROVE P
  BY <1>10, RefineFail DEF ReadGiveUp, Source!Next
<1>11. ASSUME Reopen PROVE P
  BY <1>11 DEF Reopen, Source!vars, Visible
<1>12. ASSUME ReopenFail PROVE P
  BY <1>12, RefineFail DEF ReopenFail, Source!Next
<1>13. ASSUME SeekOpen PROVE P
  <2>1. /\ Visible = [kind |-> "seeking", to |-> readPos]
        /\ Visible' = [kind |-> "seeked", to |-> readPos]
    BY <1>13 DEF SeekOpen, Return, Visible
  <2>2. Source!SeekEnd
    BY <1>13, <2>1 DEF SeekOpen, Source!SeekEnd
  <2>. QED  BY <2>2 DEF Source!Next
<1>14. ASSUME SeekOpenFail PROVE P
  BY <1>14, RefineFail DEF SeekOpenFail, Source!Next
<1>15. ASSUME Close PROVE P
  BY <1>15 DEF Close, Source!vars, Visible
<1>16. ASSUME NEW r \in ReaderId, NEW k \in 1 .. MaxChunk, WriteChunk(r, k) PROVE P
  BY <1>16, RefineStutter DEF WriteChunk
<1>17. ASSUME NEW r \in ReaderId, ReaderFail(r) PROVE P
  BY <1>17, RefineStutter DEF ReaderFail
<1>18. ASSUME NEW r \in ReaderId, ReaderEnd(r) PROVE P
  BY <1>18, RefineStutter DEF ReaderEnd
<1>. QED
  <2>1. CASE Next
    <3> SUFFICES P
      OBVIOUS
    <3>. HIDE DEF P
    <3>. QED
      BY ONLY <2>1, <1>2, <1>3, <1>4, <1>5, <1>6, <1>7, <1>8, <1>9, <1>10, <1>11,
         <1>12, <1>13, <1>14, <1>15, <1>16, <1>17, <1>18, NextCases
  <2>. QED  BY <1>1, <2>1

(* FFmpeg sees a seekable source of the object's bytes: whichever reader   *)
(* tasks run, overlap, stop or die, a read that succeeds hands over the    *)
(* object's own bytes, in full.                                            *)
THEOREM Refinement == Spec => ImplementsByteSource
<1>1. Init => Source!Init
  BY RefineInit
<1>2. IInv /\ [Next]_vars => [Source!Next]_(Source!vars)
  BY RefineStep
<1>. QED  BY <1>1, <1>2, InvariantHolds, PTL DEF Spec, ImplementsByteSource, Source!Spec

-------------------------------------------------------------------------------
(* The other reader, over bytes that are in memory.                        *)

CONSTANTS HeldSize, HeldContent
VARIABLES heldAt, heldReply

Memory == INSTANCE MemoryReader
  WITH Size <- HeldSize, Content <- HeldContent, position <- heldAt, reply <- heldReply
Held == INSTANCE ByteSource
  WITH Size <- HeldSize, Content <- HeldContent, position <- heldAt, reply <- heldReply

HeldInv ==
  /\ heldAt \in 0 .. HeldSize
  /\ heldReply.kind # "seeking"
  /\ heldReply.kind = "reading" => heldReply.want \in Nat \ {0}

(* A source in memory is an ordinary seekable source of its bytes (no byte *)
(* is misplaced, none is left out, the end is reported at the end and      *)
(* nowhere else), whatever FFmpeg reads and seeks; buffers are not empty.  *)
THEOREM MemoryIsASource ==
  ASSUME HeldSize \in Nat
  PROVE  Memory!Spec => Held!Spec
<1> USE CloudAssumption
<1>1. Memory!Init => HeldInv
  BY DEF Memory!Init, HeldInv
<1>2. HeldInv /\ [Memory!Next]_Memory!vars => HeldInv'
  <2> SUFFICES ASSUME HeldInv, [Memory!Next]_Memory!vars PROVE HeldInv'
    OBVIOUS
  <2>1. ASSUME NEW n \in ReadSizes, Memory!ReadCall(n) PROVE HeldInv'
    BY <2>1 DEF HeldInv, Memory!ReadCall
  <2>2. CASE Memory!ReadEof
    BY <2>2 DEF HeldInv, Memory!ReadEof
  <2>3. CASE Memory!ReadData
    BY <2>3 DEF HeldInv, Memory!ReadData, Memory!Right
  <2>4. ASSUME NEW whence \in {"set", "cur", "end"}, NEW offset \in SeekOffsets,
               Memory!SeekTo(whence, offset) \/ Memory!SeekRefused(whence, offset)
        PROVE  HeldInv'
    BY <2>4 DEF HeldInv, Memory!SeekTo, Memory!SeekRefused
  <2>5. CASE Memory!SeekSize
    BY <2>5 DEF HeldInv, Memory!SeekSize
  <2>6. CASE UNCHANGED Memory!vars
    BY <2>6 DEF HeldInv, Memory!vars
  <2>q. QED
    BY <2>1, <2>2, <2>3, <2>4, <2>5, <2>6 DEF Memory!Next
<1>3. Memory!Init => Held!Init
  BY DEF Memory!Init, Held!Init
<1>4. HeldInv /\ [Memory!Next]_Memory!vars => [Held!Next]_(Held!vars)
  <2> SUFFICES ASSUME HeldInv, [Memory!Next]_Memory!vars PROVE Held!Next \/ UNCHANGED Held!vars
    OBVIOUS
  <2>1. ASSUME NEW n \in ReadSizes, Memory!ReadCall(n) PROVE Held!Next
    <3>1. Held!Read(n)
      BY <2>1 DEF HeldInv, Memory!ReadCall, Held!Read, Held!Serving
    <3>q. QED
      BY <3>1 DEF Held!Next
  <2>2. CASE Memory!ReadEof
    <3>1. Held!EndOfFile
      BY <2>2 DEF HeldInv, Memory!ReadEof, Memory!Right, Held!EndOfFile
    <3>q. QED
      BY <3>1 DEF Held!Next
  <2>3. CASE Memory!ReadData
    <3>1. Memory!Right = Held!Right(heldReply.want) /\ heldAt < HeldSize
      BY <2>3 DEF HeldInv, Memory!ReadData, Memory!Right, Held!Right
    <3>2. Held!Deliver
      BY <2>3, <3>1 DEF Memory!ReadData, Held!Deliver
    <3>q. QED
      BY <3>2 DEF Held!Next
  <2>4. ASSUME NEW whence \in {"set", "cur", "end"}, NEW offset \in SeekOffsets,
               Memory!SeekTo(whence, offset)
        PROVE  Held!Next
    <3>1. Held!Seek
      BY <2>4 DEF HeldInv, Memory!SeekTo, Held!Seek, Held!Serving
    <3>q. QED
      BY <3>1 DEF Held!Next
  <2>5. ASSUME NEW whence \in {"set", "cur", "end"}, NEW offset \in SeekOffsets,
               Memory!SeekRefused(whence, offset)
        PROVE  Held!Next
    <3>1. Held!Fail
      BY <2>5 DEF Memory!SeekRefused, Held!Fail
    <3>q. QED
      BY <3>1 DEF Held!Next
  <2>6. CASE Memory!SeekSize
    <3>1. Held!AskSize
      BY <2>6 DEF HeldInv, Memory!SeekSize, Held!AskSize, Held!Serving
    <3>q. QED
      BY <3>1 DEF Held!Next
  <2>7. CASE UNCHANGED Memory!vars
    BY <2>7 DEF Memory!vars, Held!vars
  <2>q. QED
    BY <2>1, <2>2, <2>3, <2>4, <2>5, <2>6, <2>7 DEF Memory!Next
<1>q. QED
  BY <1>1, <1>2, <1>3, <1>4, PTL DEF Memory!Spec, Held!Spec
===============================================================================
