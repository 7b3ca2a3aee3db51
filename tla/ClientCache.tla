------------------------------ MODULE ClientCache ------------------------------
(***************************************************************************)
(* The process-wide state of lib.rs that every decoding thread shares: the *)
(* tokio runtime and the GCS client, each a OnceLock that keeps a failure  *)
(* as it keeps a value, and the map of S3 clients by configuration, where  *)
(* a client is looked up and inserted under a mutex but built outside it.  *)
(*                                                                         *)
(* A thread calls for the client of an object's URI (open_cloud_stream,    *)
(* after get_runtime); GCS is the URI without a configuration.  A client   *)
(* is a number: that of the successful build it comes from.                *)
(***************************************************************************)
EXTENDS Integers

CONSTANTS
  Threads,    \* threads that decode
  Configs,    \* S3Config values
  Gcs,        \* a gs:// URI asks for this
  NoThread,
  MaxCalls    \* calls made in all (a model bound)

ASSUME CacheAssumption ==
  /\ Gcs \notin Configs
  /\ NoThread \notin Threads
  /\ MaxCalls \in Nat

VARIABLES
  cells,   \* GLOBAL_RUNTIME and GLOBAL_GCS_CLIENT
  cache,   \* S3_CLIENTS: the client of each configuration, or None
  pc,      \* per thread, what it does next
  want,    \* per thread, what it asks a client for
  built,   \* per thread, the S3 client it has built, not yet inserted
  found,   \* per thread, what the cache held when its call began: history
  handed,  \* the S3 clients calls have returned: history
  builds,  \* clients built so far
  calls

vars == <<cells, cache, pc, want, built, found, handed, builds, calls>>

Cells == {"runtime", "gcs"}
Unset == [state |-> "unset", by |-> NoThread]
None  == 0
Empty == [c \in Configs |-> None]

Init ==
  /\ cells = [k \in Cells |-> Unset]
  /\ cache = Empty
  /\ pc = [t \in Threads |-> "idle"]
  /\ want = [t \in Threads |-> Gcs]
  /\ built = [t \in Threads |-> None]
  /\ found = [t \in Threads |-> Empty]
  /\ handed = {}
  /\ builds = 0
  /\ calls = 0

(* The call goes on, or returns and forgets its locals.                    *)
Goes(t, label) ==
  /\ pc' = [pc EXCEPT ![t] = label]
  /\ UNCHANGED <<want, found>>

Returns(t) ==
  /\ pc' = [pc EXCEPT ![t] = "idle"]
  /\ want' = [want EXCEPT ![t] = Gcs]
  /\ found' = [found EXCEPT ![t] = Empty]

Call(t) ==
  /\ pc[t] = "idle"
  /\ calls < MaxCalls
  /\ calls' = calls + 1
  /\ \E w \in Configs \union {Gcs} : want' = [want EXCEPT ![t] = w]
  /\ found' = [found EXCEPT ![t] = cache]
  /\ pc' = [pc EXCEPT ![t] = "runtime"]
  /\ UNCHANGED <<cells, cache, built, handed, builds>>

-------------------------------------------------------------------------------
(* OnceLock::get_or_init: the first thread runs the initialiser, the       *)
(* others wait for it; its result, an error too, stays.                    *)

Starting(k) == IF k = "runtime" THEN "start_runtime" ELSE "start_gcs"

Begin(t, k) ==
  /\ pc[t] = k
  /\ cells[k] = Unset
  /\ cells' = [cells EXCEPT ![k] = [state |-> "starting", by |-> t]]
  /\ Goes(t, Starting(k))
  /\ UNCHANGED <<cache, built, handed, builds, calls>>

Abandoned(ok) == IF ok THEN "ready" ELSE "starting"   \* mutant: an error is not stored
Outcome(ok) == IF ok THEN "ready" ELSE "failed"

Settle(t, k) ==
  /\ pc[t] = Starting(k)
  /\ \E ok \in BOOLEAN :
       /\ cells' = [cells EXCEPT ![k] = [state |-> Outcome(ok), by |-> t]]
       /\ Goes(t, k)
  /\ UNCHANGED <<cache, built, handed, builds, calls>>

Usable(k) == cells[k].state = "ready"

(* get_runtime returns, with the runtime or the error kept for ever.       *)
UseRuntime(t) ==
  /\ pc[t] = "runtime"
  /\ cells["runtime"].state \in {"ready", "failed"}
  /\ IF Usable("runtime") THEN Goes(t, IF want[t] = Gcs THEN "gcs" ELSE "lookup")
     ELSE Returns(t)
  /\ UNCHANGED <<cells, cache, built, handed, builds, calls>>

(* get_storage returns.                                                    *)
UseGcs(t) ==
  /\ pc[t] = "gcs"
  /\ cells["gcs"].state \in {"ready", "failed"}
  /\ Returns(t)
  /\ UNCHANGED <<cells, cache, built, handed, builds, calls>>

-------------------------------------------------------------------------------
(* get_s3_client.                                                          *)

Misses(t) == cache[want[t]] = None

Lookup(t) ==
  /\ pc[t] = "lookup"
  /\ IF Misses(t)
     THEN /\ Goes(t, "build")
          /\ UNCHANGED handed
     ELSE /\ handed' = handed \union {[config |-> want[t], client |-> cache[want[t]]]}
          /\ Returns(t)
  /\ UNCHANGED <<cells, cache, built, builds, calls>>

(* build_s3_client, outside the mutex; a failure is returned, not cached.  *)
Build(t) ==
  /\ pc[t] = "build"
  /\ \/ /\ builds' = builds + 1
        /\ built' = [built EXCEPT ![t] = builds + 1]
        /\ Goes(t, "insert")
     \/ /\ Returns(t)
        /\ UNCHANGED <<builds, built>>
  /\ UNCHANGED <<cells, cache, handed, calls>>

(* entry(key).or_insert(client): the first insert wins.                    *)
LastWins(t) == built[t]                \* mutant: insert instead of or_insert
Winner(t) == IF cache[want[t]] = None THEN built[t] ELSE cache[want[t]]

Insert(t) ==
  /\ pc[t] = "insert"
  /\ cache' = [cache EXCEPT ![want[t]] = Winner(t)]
  /\ handed' = handed \union {[config |-> want[t], client |-> Winner(t)]}
  /\ built' = [built EXCEPT ![t] = None]
  /\ Returns(t)
  /\ UNCHANGED <<cells, builds, calls>>

-------------------------------------------------------------------------------

Step(t) ==
  \/ \E k \in Cells : Begin(t, k) \/ Settle(t, k)
  \/ UseRuntime(t)
  \/ UseGcs(t)
  \/ Lookup(t)
  \/ Build(t)
  \/ Insert(t)

Done == calls = MaxCalls /\ (\A t \in Threads : pc[t] = "idle") /\ UNCHANGED vars

Next == (\E t \in Threads : Call(t) \/ Step(t)) \/ Done

Spec == Init /\ [][Next]_vars

(* Operating-system threads: each one that can go on does.                 *)
FairSpec == Spec /\ \A t \in Threads : WF_vars(Step(t))

-------------------------------------------------------------------------------
(* Properties.                                                             *)

Labels == {"idle", "runtime", "start_runtime", "gcs", "start_gcs",
           "lookup", "build", "insert"}

(* The state stays in range, and a thread is past the runtime only when    *)
(* there is one.                                                           *)
TypeOK ==
  /\ cells \in [Cells -> [state : {"unset", "starting", "ready", "failed"},
                          by : Threads \union {NoThread}]]
  /\ cache \in [Configs -> Nat]
  /\ pc \in [Threads -> Labels]
  /\ want \in [Threads -> Configs \union {Gcs}]
  /\ built \in [Threads -> Nat]
  /\ found \in [Threads -> [Configs -> Nat]]
  /\ handed \subseteq [config : Configs, client : Nat]
  /\ builds \in Nat
  /\ calls \in Nat
  /\ \A t \in Threads :
       pc[t] \in {"gcs", "start_gcs", "lookup", "build", "insert"} =>
         cells["runtime"].state = "ready"

(* However many threads build a client of one configuration at once, every *)
(* call for it returns the same one, the cached one: no connection pool is *)
(* handed out that later calls do not share.                               *)
OneClientPerConfig ==
  \A h \in handed : h.client # None /\ h.client = cache[h.config]

(* Two configurations never share a client: a build that ends after others *)
(* have inserted theirs still goes to its own key.                         *)
ClientsNotShared ==
  \A c, d \in Configs : cache[c] # None /\ cache[c] = cache[d] => c = d

(* Only a call that overlaps the first one builds in vain: once a client   *)
(* of the configuration is cached, later calls never build another.        *)
LateCallsNeverBuild ==
  \A t \in Threads : pc[t] \in {"build", "insert"} => found[t][want[t]] = None

(* Every call returns: nobody waits for ever for an initialiser that has   *)
(* ended, with a value or with an error.                                   *)
CallReturns == \A t \in Threads : pc[t] # "idle" ~> pc[t] = "idle"
===============================================================================
