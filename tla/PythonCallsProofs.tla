--------------------------- MODULE PythonCallsProofs ---------------------------
(***************************************************************************)
(* What ClientCache and PythonCalls guarantee for any number of threads,   *)
(* configurations, calls and assignments and any set of requests.          *)
(*                                                                         *)
(* The client cache first: its invariant adds to the properties why they   *)
(* are kept: a cached client is never replaced, and a client that has been *)
(* built but not inserted is neither cached nor held by another thread.    *)
(* Then the Python calls: each is a call of ClientCache, whose theorems it *)
(* inherits; no assignment is refused; and a result has the order that was *)
(* asked for.                                                              *)
(***************************************************************************)
EXTENDS PythonCalls, TLAPS

-------------------------------------------------------------------------------
(* The client cache.                                                       *)

(* What a thread is doing agrees with what it asked for and holds.         *)
Holding ==
  \A t \in Threads :
    /\ pc[t] \in {"lookup", "build", "insert"} => want[t] \in Configs
    /\ built[t] # None => pc[t] = "insert"
    /\ pc[t] = "insert" => built[t] # None

(* Whoever runs the initialiser of a cell is the one the cell names.       *)
Initialising ==
  \A t \in Threads, k \in Cells :
    pc[t] = Starting(k) => cells[k] = [state |-> "starting", by |-> t]

(* What was cached when a call began is cached still.                      *)
CacheKept ==
  \A t \in Threads, c \in Configs : found[t][c] # None => cache[c] = found[t][c]

(* Every client comes from one build, and is in one place only.            *)
Distinct ==
  /\ \A c \in Configs : cache[c] <= builds
  /\ \A t \in Threads : built[t] <= builds
  /\ \A t \in Threads, c \in Configs : built[t] # None => built[t] # cache[c]
  /\ \A t, u \in Threads : built[t] # None /\ built[t] = built[u] => t = u

IInv ==
  TypeOK /\ Initialising /\ Holding /\ CacheKept /\ Distinct
  /\ OneClientPerConfig /\ ClientsNotShared /\ LateCallsNeverBuild

(* The initial state, with nothing cached and nobody calling.              *)
LEMMA InitSafe == Init => IInv
<1> SUFFICES ASSUME Init PROVE IInv
  OBVIOUS
<1> USE CacheAssumption DEF Init, Empty, Unset, None, Cells
<1>1. TypeOK
  BY DEF TypeOK, Labels
<1>2. Initialising /\ Holding /\ CacheKept /\ Distinct
  BY DEF Initialising, Starting, Holding, CacheKept, Distinct
<1>3. OneClientPerConfig /\ ClientsNotShared /\ LateCallsNeverBuild
  BY DEF OneClientPerConfig, ClientsNotShared, LateCallsNeverBuild
<1>q. QED
  BY <1>1, <1>2, <1>3 DEF IInv

(* A call that returns leaves its thread idle, its locals reset.           *)
LEMMA ReturnsTyped ==
  ASSUME TypeOK, NEW t \in Threads, Returns(t)
  PROVE  /\ pc' \in [Threads -> Labels]
         /\ want' \in [Threads -> Configs \union {Gcs}]
         /\ found' \in [Threads -> [Configs -> Nat]]
         /\ pc'[t] = "idle"
         /\ \A u \in Threads \ {t} : pc'[u] = pc[u]
<1>1. Empty \in [Configs -> Nat]
  BY DEF Empty, None
<1>2. "idle" \in Labels
  BY DEF Labels
<1>q. QED
  BY <1>1, <1>2 DEF Returns, TypeOK

(* An action that touches neither the cache nor the clients in hand, and   *)
(* moves no thread to building or inserting, disturbs only types.          *)
LEMMA Quiet ==
  ASSUME IInv, TypeOK', Initialising', UNCHANGED <<cache, built, handed, builds>>, NEW t \in Threads,
         \A u \in Threads \ {t} :
           pc'[u] = pc[u] /\ want'[u] = want[u] /\ found'[u] = found[u],
         pc'[t] \notin {"build", "insert"},
         pc[t] # "insert",
         pc'[t] = "lookup" => want'[t] \in Configs,
         found'[t] \in {found[t], Empty, cache}
  PROVE  IInv'
<1>1. Holding'
  BY DEF IInv, Holding
<1>2. CacheKept'
  BY DEF IInv, CacheKept, Empty
<1>3. Distinct'
  BY DEF IInv, Distinct
<1>4. OneClientPerConfig' /\ ClientsNotShared'
  BY DEF IInv, OneClientPerConfig, ClientsNotShared
<1>5. LateCallsNeverBuild'
  BY DEF IInv, LateCallsNeverBuild
<1>q. QED
  BY <1>1, <1>2, <1>3, <1>4, <1>5 DEF IInv

(* Beginning a call, and what happens at the two cells.                    *)
LEMMA CellsSafe ==
  ASSUME IInv, NEW t \in Threads,
         \/ Call(t) \/ UseRuntime(t) \/ UseGcs(t)
         \/ \E k \in Cells : Begin(t, k) \/ Settle(t, k)
  PROVE  IInv'
<1> USE DEF Cells, Goes, Returns, Starting
<1>0. TypeOK /\ Initialising
  BY DEF IInv
<1>1. CASE Call(t)
  <2>1. TypeOK'
    BY <1>0, <1>1, CacheAssumption DEF Call, TypeOK, Labels
  <2>2. pc[t] # "insert" /\ pc'[t] = "runtime" /\ found'[t] = cache
    BY <1>0, <1>1 DEF Call, TypeOK
  <2>3. Initialising'
    BY <1>0, <1>1 DEF Call, TypeOK, Initialising
  <2>q. QED
    BY <1>0, <1>1, <2>1, <2>2, <2>3, Quiet DEF Call, TypeOK
<1>2. CASE UseRuntime(t)
  <2>1. TypeOK'
    <3>1. CASE Usable("runtime")
      BY <1>0, <1>2, <3>1 DEF UseRuntime, Usable, TypeOK, Labels
    <3>2. CASE ~ Usable("runtime")
      <4>1. Returns(t)
        BY <1>2, <3>2 DEF UseRuntime
      <4>q. QED
        BY <1>0, <1>2, <4>1, ReturnsTyped DEF UseRuntime, TypeOK
    <3>q. QED
      BY <3>1, <3>2
  <2>2. pc[t] # "insert" /\ pc'[t] \notin {"build", "insert"}
        /\ (pc'[t] = "lookup" => want'[t] \in Configs) /\ found'[t] \in {found[t], Empty}
    BY <1>0, <1>2 DEF UseRuntime, TypeOK
  <2>3. Initialising'
    BY <1>0, <1>2 DEF UseRuntime, TypeOK, Initialising
  <2>q. QED
    BY <1>0, <1>2, <2>1, <2>2, <2>3, Quiet DEF UseRuntime, TypeOK
<1>3. CASE UseGcs(t)
  <2>1. TypeOK'
    BY <1>0, <1>3, CacheAssumption DEF UseGcs, TypeOK, Labels, Empty, None
  <2>2. pc[t] # "insert" /\ pc'[t] = "idle" /\ found'[t] = Empty
    BY <1>0, <1>3 DEF UseGcs, TypeOK
  <2>3. Initialising'
    BY <1>0, <1>3 DEF UseGcs, TypeOK, Initialising
  <2>q. QED
    BY <1>0, <1>3, <2>1, <2>2, <2>3, Quiet DEF UseGcs, TypeOK
<1>4. ASSUME NEW k \in Cells, Begin(t, k) PROVE IInv'
  <2>1. TypeOK'
    BY <1>0, <1>4, CacheAssumption DEF Begin, TypeOK, Labels, Unset
  <2>2. pc[t] # "insert" /\ pc'[t] \in {"start_runtime", "start_gcs"} /\ found'[t] = found[t]
    BY <1>0, <1>4 DEF Begin, TypeOK
  <2>3. Initialising'
    BY <1>0, <1>4 DEF Begin, TypeOK, Initialising, Unset
  <2>q. QED
    BY <1>0, <1>4, <2>1, <2>2, <2>3, Quiet DEF Begin, TypeOK
<1>5. ASSUME NEW k \in Cells, Settle(t, k) PROVE IInv'
  <2>1. TypeOK'
    <3>1. PICK ok \in BOOLEAN :
            cells' = [cells EXCEPT ![k] = [state |-> Outcome(ok), by |-> t]]
      BY <1>5 DEF Settle
    <3>2. Outcome(ok) \in {"ready", "failed"}
      BY DEF Outcome
    <3>3. cells[k] = [state |-> "starting", by |-> t]
      BY <1>0, <1>5 DEF Settle, Initialising
    <3>4. cells[k].state # "ready"
      BY <3>3
    <3>q. QED
      BY <1>0, <1>5, <3>1, <3>2, <3>4 DEF Settle, TypeOK, Labels
  <2>2. pc[t] # "insert" /\ pc'[t] \in Cells /\ found'[t] = found[t]
    BY <1>0, <1>5 DEF Settle, TypeOK
  <2>3. Initialising'
    BY <1>0, <1>5 DEF Settle, TypeOK, Initialising
  <2>q. QED
    BY <1>0, <1>5, <2>1, <2>2, <2>3, Quiet DEF Settle, TypeOK
<1>q. QED
  BY <1>1, <1>2, <1>3, <1>4, <1>5

(* A lookup hands out the cached client, or goes on to build because no    *)
(* client was cached when the call began.                                  *)
LEMMA LookupSafe ==
  ASSUME IInv, NEW t \in Threads, Lookup(t)
  PROVE  IInv'
<1>0. /\ TypeOK
      /\ want[t] \in Configs
      /\ pc[t] = "lookup"
  BY DEF IInv, Lookup, Holding
<1>1. CASE Misses(t)
  <2>0. found[t][want[t]] = None
    BY <1>0, <1>1 DEF IInv, CacheKept, Misses
  <2>1. TypeOK'
    BY <1>0, <1>1 DEF Lookup, Goes, TypeOK, Labels
  <2>4. Initialising'
    BY <1>0, <1>1 DEF Lookup, Goes, Starting, IInv, TypeOK, Initialising, Cells
  <2>2. Holding' /\ CacheKept' /\ Distinct'
    <3>1. built[t] = None
      BY <1>0 DEF IInv, Holding
    <3>q. QED
      BY <1>0, <1>1, <3>1 DEF Lookup, Goes, IInv, TypeOK, Holding, CacheKept, Distinct
  <2>3. OneClientPerConfig' /\ ClientsNotShared' /\ LateCallsNeverBuild'
    BY <1>0, <1>1, <2>0
    DEF Lookup, Goes, IInv, TypeOK, OneClientPerConfig, ClientsNotShared, LateCallsNeverBuild
  <2>q. QED
    BY <2>1, <2>2, <2>3, <2>4 DEF IInv
<1>2. CASE ~ Misses(t)
  <2>1. TypeOK'
    <3>1. [config |-> want[t], client |-> cache[want[t]]] \in [config : Configs, client : Nat]
      BY <1>0 DEF TypeOK
    <3>2. handed' \subseteq [config : Configs, client : Nat]
      BY <1>0, <1>2, <3>1 DEF Lookup, TypeOK
    <3>3. Returns(t)
      BY <1>2 DEF Lookup
    <3>q. QED
      BY <1>0, <1>2, <3>2, <3>3, ReturnsTyped DEF Lookup, TypeOK
  <2>2. Holding'
    BY <1>0, <1>2 DEF Lookup, Returns, IInv, TypeOK, Holding
  <2>3. CacheKept'
    BY <1>0, <1>2 DEF Lookup, Returns, IInv, TypeOK, CacheKept, Empty
  <2>4. Distinct'
    BY <1>0, <1>2 DEF Lookup, Returns, IInv, TypeOK, Distinct
  <2>5. OneClientPerConfig' /\ ClientsNotShared' /\ LateCallsNeverBuild'
    BY <1>0, <1>2
    DEF Lookup, Returns, Misses, IInv, TypeOK, OneClientPerConfig, ClientsNotShared,
        LateCallsNeverBuild
  <2>6. Initialising'
    BY <1>0, <1>2 DEF Lookup, Returns, Starting, IInv, TypeOK, Initialising, Cells
  <2>q. QED
    BY <2>1, <2>2, <2>3, <2>4, <2>5, <2>6 DEF IInv
<1>q. QED
  BY <1>1, <1>2

(* A build makes a client nobody else has.                                 *)
LEMMA BuildSafe ==
  ASSUME IInv, NEW t \in Threads, Build(t)
  PROVE  IInv'
<1>0. /\ TypeOK
      /\ pc[t] = "build"
      /\ built[t] = None
      /\ cache' = cache /\ handed' = handed
  BY DEF IInv, Build, Holding
<1>1. CASE builds' = builds + 1 /\ built' = [built EXCEPT ![t] = builds + 1] /\ Goes(t, "insert")
  <2>1. TypeOK'
    BY <1>0, <1>1 DEF Build, Goes, TypeOK, Labels
  <2>2. Holding'
    BY <1>0, <1>1 DEF Goes, IInv, TypeOK, Holding, None
  <2>3. CacheKept' /\ OneClientPerConfig' /\ ClientsNotShared'
    BY <1>0, <1>1 DEF Goes, IInv, CacheKept, OneClientPerConfig, ClientsNotShared
  <2>4. Distinct'
    BY <1>0, <1>1 DEF IInv, TypeOK, Distinct, None
  <2>5. LateCallsNeverBuild'
    BY <1>0, <1>1 DEF Goes, IInv, TypeOK, LateCallsNeverBuild
  <2>6. Initialising'
    BY <1>0, <1>1 DEF Build, Goes, Starting, IInv, TypeOK, Initialising, Cells
  <2>q. QED
    BY <2>1, <2>2, <2>3, <2>4, <2>5, <2>6 DEF IInv
<1>2. CASE Returns(t) /\ UNCHANGED <<builds, built>>
  <2>1. TypeOK'
    BY <1>0, <1>2, CacheAssumption DEF Build, Returns, TypeOK, Labels, Empty, None
  <2>2. pc'[t] = "idle" /\ found'[t] = Empty
    BY <1>0, <1>2 DEF Returns, TypeOK
  <2>3. Initialising'
    BY <1>0, <1>2 DEF Build, Returns, Starting, IInv, TypeOK, Initialising, Cells
  <2>q. QED
    BY <1>0, <1>2, <2>1, <2>2, <2>3, Quiet DEF Returns, TypeOK
<1>q. QED
  BY <1>1, <1>2 DEF Build

(* An insert caches the client built only if none is cached, so that what  *)
(* was handed out before stays the cached one.                             *)
LEMMA InsertSafe ==
  ASSUME IInv, NEW t \in Threads, Insert(t)
  PROVE  IInv'
<1>0. /\ TypeOK
      /\ pc[t] = "insert"
      /\ want[t] \in Configs
      /\ built[t] # None
      /\ builds' = builds
  BY DEF IInv, Insert, Holding
<1>1. Winner(t) \in Nat /\ Winner(t) # None
  BY <1>0 DEF Winner, TypeOK, None
<1>2. TypeOK'
  BY <1>0, <1>1, CacheAssumption DEF Insert, Returns, TypeOK, Labels, Empty, None
<1>3. Holding'
  BY <1>0 DEF Insert, Returns, IInv, TypeOK, Holding
<1>4. \A c \in Configs : cache[c] # None => cache'[c] = cache[c]
  BY <1>0 DEF Insert, Winner, TypeOK
<1>5. CacheKept'
  BY <1>0, <1>4 DEF Insert, Returns, IInv, TypeOK, CacheKept, Empty
<1>6. Distinct'
  <2>1. \A c \in Configs : cache'[c] = cache[c] \/ (c = want[t] /\ cache'[c] = built[t])
    BY <1>0 DEF Insert, Winner, TypeOK
  <2>2. \A u \in Threads : built'[u] = IF u = t THEN None ELSE built[u]
    BY <1>0 DEF Insert, TypeOK
  <2>3. \A c \in Configs : cache'[c] <= builds'
    BY <1>0, <2>1 DEF IInv, Distinct
  <2>4. \A u \in Threads : built'[u] <= builds'
    BY <1>0, <2>2 DEF IInv, TypeOK, Distinct, None
  <2>5. \A u \in Threads, c \in Configs : built'[u] # None => built'[u] # cache'[c]
    BY <1>0, <2>1, <2>2 DEF IInv, Distinct
  <2>6. \A u, v \in Threads : built'[u] # None /\ built'[u] = built'[v] => u = v
    BY <1>0, <2>2 DEF IInv, Distinct
  <2>q. QED
    BY <2>3, <2>4, <2>5, <2>6 DEF Distinct
<1>7. OneClientPerConfig'
  BY <1>0, <1>1, <1>4 DEF Insert, IInv, TypeOK, OneClientPerConfig
<1>8. ClientsNotShared'
  BY <1>0 DEF Insert, Winner, IInv, TypeOK, Distinct, ClientsNotShared
<1>9. LateCallsNeverBuild'
  BY <1>0 DEF Insert, Returns, IInv, TypeOK, LateCallsNeverBuild
<1>10. Initialising'
  BY <1>0 DEF Insert, Returns, Starting, IInv, TypeOK, Initialising, Cells
<1>q. QED
  BY <1>2, <1>3, <1>5, <1>6, <1>7, <1>8, <1>9, <1>10 DEF IInv

(* Every step keeps the invariant.                                         *)
LEMMA StepSafe == IInv /\ [Next]_vars => IInv'
<1> SUFFICES ASSUME IInv, [Next]_vars PROVE IInv'
  OBVIOUS
<1>1. ASSUME NEW t \in Threads, Call(t) \/ Step(t) PROVE IInv'
  BY <1>1, CellsSafe, LookupSafe, BuildSafe, InsertSafe DEF Step
<1>2. CASE UNCHANGED vars
  BY <1>2 DEF vars, IInv, TypeOK, Initialising, Starting, Holding, CacheKept, Distinct,
              OneClientPerConfig, ClientsNotShared, LateCallsNeverBuild
<1>q. QED
  BY <1>1, <1>2 DEF Next, Done

(* The state stays in range, and no thread gets past a runtime that could  *)
(* not be made (get_runtime's error is returned by every later call).      *)
THEOREM TypeCorrect == Spec => []TypeOK
<1>1. IInv => TypeOK
  BY DEF IInv
<1>q. QED
  BY InitSafe, StepSafe, <1>1, PTL DEF Spec

(* All calls for one configuration return one client, however many threads *)
(* build it at once (get_s3_client's or_insert).                           *)
THEOREM AlwaysOneClientPerConfig == Spec => []OneClientPerConfig
<1>1. IInv => OneClientPerConfig
  BY DEF IInv
<1>q. QED
  BY InitSafe, StepSafe, <1>1, PTL DEF Spec

(* No client is cached for two configurations.                             *)
THEOREM ClientsNeverShared == Spec => []ClientsNotShared
<1>1. IInv => ClientsNotShared
  BY DEF IInv
<1>q. QED
  BY InitSafe, StepSafe, <1>1, PTL DEF Spec

(* A call that begins once a client is cached never builds another.        *)
THEOREM LateCallsNeverBuildAnother == Spec => []LateCallsNeverBuild
<1>1. IInv => LateCallsNeverBuild
  BY DEF IInv
<1>q. QED
  BY InitSafe, StepSafe, <1>1, PTL DEF Spec

-------------------------------------------------------------------------------
(* Shapes.                                                                 *)

Wanted(nhwc) == IF nhwc THEN <<"T", "H", "W", "C">> ELSE <<"T", "C", "H", "W">>

(* from_stream's permutations give either stored order the one asked for.  *)
LEMMA StreamOrder ==
  ASSUME NEW dtype \in {"uint8", "float32"}, NEW nhwc \in BOOLEAN
  PROVE  OfStream(dtype, nhwc) = Wanted(nhwc)
<1>1. CASE dtype = "float32" /\ nhwc
  <2>1. Permuted(<<"T", "C", "H", "W">>, <<1, 3, 4, 2>>) = <<"T", "H", "W", "C">>
    BY DEF Permuted
  <2>q. QED
    BY <1>1, <2>1 DEF OfStream, Stored, Wanted
<1>2. CASE dtype = "uint8" /\ ~ nhwc
  <2>1. Permuted(<<"T", "H", "W", "C">>, <<1, 4, 2, 3>>) = <<"T", "C", "H", "W">>
    BY DEF Permuted
  <2>q. QED
    BY <1>2, <2>1 DEF OfStream, Stored, Wanted
<1>3. CASE dtype = "float32" <=> ~ nhwc
  BY <1>3 DEF OfStream, Stored, Wanted
<1>q. QED
  BY <1>1, <1>2, <1>3

(* So do from_plan's sizes.                                                *)
LEMMA PlanOrder ==
  ASSUME NEW dtype \in {"uint8", "float32"}, NEW nhwc \in BOOLEAN
  PROVE  OfPlan(dtype, nhwc) = Wanted(nhwc)
BY DEF OfPlan, Stored, Wanted

-------------------------------------------------------------------------------
(* The inductive invariant: a function that has not given the lock up has  *)
(* it, only such a function borrows the request, and what a call carries   *)
(* along is what its request said when it was made.                        *)

Carried ==
  /\ request \in Requests
  /\ call \in [Threads -> [asked : SUBSET Requests, media : Configs \union {Gcs},
                           nhwc : BOOLEAN]]
  /\ \A t \in Threads : \A r \in call[t].asked : call[t].nhwc = (r.order = "NHWC")

Stages == {"python", "entered", "copied", "unborrowed", "called", "native", "back"}

(* Where a function runs with the lock, and where it borrows as well.      *)
Locked    == {"entered", "copied", "unborrowed"}
Borrowing == {"entered", "copied"}

BorrowedUnderLock ==
  /\ stage \in [Threads -> Stages]
  /\ borrows \subseteq Threads
  /\ \A t \in Threads : stage[t] \in Locked => gil = t
  /\ \A t \in borrows : stage[t] \in Borrowing

PyInv == Carried /\ BorrowedUnderLock /\ AssignmentsSucceed /\ ResultsAsAsked

LEMMA PyInitSafe == PyInit => PyInv
BY DEF PyInit, PyInv, Carried, BorrowedUnderLock, Stages, Locked, Borrowing, NoCall,
       AssignmentsSucceed, ResultsAsAsked

(* Python code runs only when no function borrows the request.             *)
LEMMA NobodyBorrows ==
  ASSUME BorrowedUnderLock, NEW t \in Threads, gil = t, stage[t] = "python"
  PROVE  borrows = {}
BY DEF BorrowedUnderLock, Locked, Borrowing

(* An assignment finds the request free.                                   *)
LEMMA AssignSafe ==
  ASSUME PyInv, NEW t \in Threads, Assign(t)
  PROVE  PyInv'
<1>1. borrows = {}
  BY NobodyBorrows DEF PyInv, Assign
<1>2. /\ request' \in Requests /\ refused' = refused
      /\ UNCHANGED <<gil, borrows, stage, call, returned>>
  BY <1>1 DEF Assign
<1>q. QED
  BY <1>2 DEF PyInv, Carried, BorrowedUnderLock, AssignmentsSucceed, ResultsAsAsked

(* A step that neither returns nor assigns nor touches what calls carry    *)
(* disturbs only who has the lock and who borrows.                         *)
LEMMA Moving ==
  ASSUME PyInv, BorrowedUnderLock', UNCHANGED <<request, call, returned, refused>>
  PROVE  PyInv'
BY DEF PyInv, Carried, AssignmentsSucceed, ResultsAsAsked

(* Taking the lock and giving it up, and the steps of a call up to its     *)
(* return: the borrow is taken under the lock and dropped before it.       *)
LEMMA LockSafe ==
  ASSUME PyInv, NEW t \in Threads,
         \/ TakeGil(t) \/ Switch(t) \/ Enter(t) \/ Drop(t) \/ Release(t)
         \/ Open(t) \/ Work(t) \/ Finish(t)
  PROVE  PyInv'
<1> USE DEF Stages, Locked, Borrowing
<1>0. BorrowedUnderLock
  BY DEF PyInv
<1>1. CASE TakeGil(t)
  <2>1. /\ gil = NoThread /\ gil' = t /\ UNCHANGED <<borrows, stage>>
    BY <1>1 DEF TakeGil
  <2>2. \A u \in Threads : stage[u] \notin Locked
    BY <1>0, <2>1, CacheAssumption DEF BorrowedUnderLock
  <2>3. BorrowedUnderLock'
    BY <1>0, <2>1, <2>2 DEF BorrowedUnderLock
  <2>q. QED
    BY <1>1, <2>3, Moving DEF TakeGil
<1>2. CASE Switch(t)
  <2>1. BorrowedUnderLock'
    BY <1>0, <1>2 DEF Switch, BorrowedUnderLock
  <2>q. QED
    BY <1>2, <2>1, Moving DEF Switch
<1>3. CASE Enter(t)
  <2>1. BorrowedUnderLock'
    BY <1>0, <1>3 DEF Enter, BorrowedUnderLock
  <2>q. QED
    BY <1>3, <2>1, Moving DEF Enter
<1>4. CASE Drop(t)
  <2>1. BorrowedUnderLock'
    BY <1>0, <1>4 DEF Drop, Dropped, BorrowedUnderLock
  <2>q. QED
    BY <1>4, <2>1, Moving DEF Drop
<1>5. CASE Release(t)
  <2>1. BorrowedUnderLock'
    BY <1>0, <1>5 DEF Release, BorrowedUnderLock
  <2>q. QED
    BY <1>5, <2>1, Moving DEF Release
<1>6. CASE Open(t) \/ Finish(t)
  <2>1. BorrowedUnderLock'
    BY <1>0, <1>6 DEF Open, Finish, BorrowedUnderLock
  <2>q. QED
    BY <1>6, <2>1, Moving DEF Open, Finish
<1>7. CASE Work(t)
  <2>1. BorrowedUnderLock'
    BY <1>0, <1>7 DEF Work, python, BorrowedUnderLock
  <2>q. QED
    BY <1>7, <2>1, Moving DEF Work, python
<1>q. QED
  BY <1>1, <1>2, <1>3, <1>4, <1>5, <1>6, <1>7

(* A call copies the request, or is refused with an error.                 *)
LEMMA CopySafe ==
  ASSUME PyInv, NEW t \in Threads, Copy(t)
  PROVE  PyInv'
<1>1. /\ Carried /\ BorrowedUnderLock
      /\ request' = request /\ refused' = refused
  BY DEF PyInv, Copy
<1>4. BorrowedUnderLock'
  BY <1>1 DEF Copy, BorrowedUnderLock, Stages, Locked, Borrowing
<1>2. CASE Converts(request)
  <2>1. PICK config \in Configs :
          call' = [call EXCEPT ![t] =
                    [asked |-> {request}, nhwc |-> request.order = "NHWC",
                     media |-> IF request.input = "gs" THEN Gcs ELSE config]]
    BY <1>2 DEF Copy
  <2>2. returned' = returned
    BY <1>2 DEF Copy
  <2>3. Carried'
    BY <1>1, <2>1 DEF Carried
  <2>q. QED
    BY <1>1, <1>4, <2>2, <2>3 DEF PyInv, AssignmentsSucceed, ResultsAsAsked
<1>3. CASE ~ Converts(request)
  <2>1. /\ returned' = returned \union {[asked |-> request, got |-> Failed]}
        /\ call' = call
    BY <1>3 DEF Copy
  <2>q. QED
    BY <1>1, <1>4, <2>1 DEF PyInv, Carried, AssignmentsSucceed, ResultsAsAsked
<1>q. QED
  BY <1>2, <1>3

(* What is returned is laid out by the copy.                               *)
LEMMA ReturnSafe ==
  ASSUME PyInv, NEW t \in Threads, Return(t)
  PROVE  PyInv'
<1>1. /\ Carried /\ BorrowedUnderLock
      /\ request' = request /\ refused' = refused
      /\ call' = [call EXCEPT ![t] = NoCall]
  BY DEF PyInv, Return
<1>0. PICK asked \in call[t].asked : \E result \in Results(asked, Layout(t)) :
        returned' = returned \union {[asked |-> asked, got |-> result]}
  BY DEF Return
<1>2. PICK result \in Results(asked, Layout(t)) :
        returned' = returned \union {[asked |-> asked, got |-> result]}
  BY <1>0
<1>3. /\ asked \in Requests
      /\ Layout(t) \in BOOLEAN
      /\ Layout(t) = (asked.order = "NHWC")
  BY <1>1 DEF Carried, Layout
<1>4. asked.dtype \in {"uint8", "float32"}
  BY <1>3, RequestAssumption
<1>5. result = Failed \/ result = Wanted(asked.order = "NHWC")
  BY <1>2, <1>3, <1>4, StreamOrder, PlanOrder DEF Results
<1>6. ResultsAsAsked'
  BY <1>2, <1>5 DEF PyInv, ResultsAsAsked, Wanted
<1>7. Carried'
  BY <1>1 DEF Carried, NoCall
<1>8. BorrowedUnderLock'
  BY <1>1 DEF Return, BorrowedUnderLock, Stages, Locked, Borrowing
<1>q. QED
  BY <1>1, <1>6, <1>7, <1>8 DEF PyInv, AssignmentsSucceed

LEMMA PyStepSafe == PyInv /\ [PyNext]_allVars => PyInv'
<1> SUFFICES ASSUME PyInv, [PyNext]_allVars PROVE PyInv'
  OBVIOUS
<1>1. CASE UNCHANGED allVars
  BY <1>1 DEF allVars, python, PyInv, Carried, BorrowedUnderLock, AssignmentsSucceed,
              ResultsAsAsked
<1>q. QED
  BY <1>1, AssignSafe, LockSafe, CopySafe, ReturnSafe DEF PyNext

-------------------------------------------------------------------------------

(* No assignment to the request is refused while calls are on their way.   *)
THEOREM AlwaysAssignable == PySpec => []AssignmentsSucceed
<1>1. PyInv => AssignmentsSucceed
  BY DEF PyInv
<1>q. QED
  BY PyInitSafe, PyStepSafe, <1>1, PTL DEF PySpec

(* Every result is laid out as its request asked when the call was made,   *)
(* whatever is assigned to the request in the meantime.                    *)
THEOREM AlwaysAsAsked == PySpec => []ResultsAsAsked
<1>1. PyInv => ResultsAsAsked
  BY DEF PyInv
<1>q. QED
  BY PyInitSafe, PyStepSafe, <1>1, PTL DEF PySpec

(* The Python functions use the clients as ClientCache does: each of their *)
(* steps is one of ClientCache's or leaves its state alone.                *)
THEOREM PythonUsesTheCache == PySpec => Spec
<1>1. PyInit => Init
  BY DEF PyInit
<1>2. [PyNext]_allVars => [Next]_vars
  BY DEF allVars, PyNext, TakeGil, Switch, Assign, Enter, Copy, Drop, Release,
                        Open, Work, Finish, Return, Next
<1>q. QED
  BY <1>1, <1>2, PTL DEF PySpec, Spec

(* So every Python thread that asks for a configuration gets one client.   *)
THEOREM PythonSharesClients == PySpec => []OneClientPerConfig
BY PythonUsesTheCache, AlwaysOneClientPerConfig, PTL
===============================================================================
