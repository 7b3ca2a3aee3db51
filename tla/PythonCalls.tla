------------------------------- MODULE PythonCalls -------------------------------
(***************************************************************************)
(* The Python module's functions (ffi/mod.rs): several Python threads call *)
(* plan_asset and decode_asset with one request object, whose video_stream *)
(* any of them may assign to whenever it has the interpreter's lock.  A    *)
(* call borrows and copies the request under the lock, ends the borrow and *)
(* gives the lock up for the work, of which getting the storage client,    *)
(* ClientCache, is the part that threads share; it takes the lock again to *)
(* return.                                                                 *)
(*                                                                         *)
(* Of a request the model keeps what decides between clients and between   *)
(* layouts: whether its input is on S3 or on GCS, which no assignment      *)
(* changes, the element type and the dimension order, with "other" for a   *)
(* string that the conversions refuse.                                     *)
(***************************************************************************)
EXTENDS ClientCache, FiniteSets

CONSTANTS
  Requests,    \* values of the request object
  MaxAssigns   \* assignments to it (a model bound)

ASSUME RequestAssumption ==
  Requests \subseteq [input : {"s3", "gs"}, dtype : {"uint8", "float32"},
                      order : {"NCHW", "NHWC", "other"}]

VARIABLES
  gil,       \* the thread that has the interpreter's lock, or NoThread
  request,   \* the request object
  borrows,   \* threads with a PyRef of it
  stage,     \* per thread: in Python, or how far its call has come
  call,      \* per thread, what its call was asked and what it copied
  returned,  \* what calls were asked and returned: history
  refused,   \* whether an assignment failed with "Already borrowed": history
  assigns

python  == <<gil, request, borrows, stage, call, returned, refused, assigns>>
allVars == <<vars, python>>

NoCall == [asked |-> {}, media |-> Gcs, nhwc |-> FALSE]

PyInit ==
  /\ Init
  /\ gil = NoThread
  /\ request \in Requests
  /\ borrows = {}
  /\ stage = [t \in Threads |-> "python"]
  /\ call = [t \in Threads |-> NoCall]
  /\ returned = {}
  /\ refused = FALSE
  /\ assigns = 0

-------------------------------------------------------------------------------
(* Shapes, by the names of their dimensions.                               *)

Failed == <<>>   \* an exception

(* A plan's and a tensor's, in the order they are stored in.               *)
Stored(dtype) == IF dtype = "float32" THEN <<"T", "C", "H", "W">> ELSE <<"T", "H", "W", "C">>

(* from_stream permutes when the order stored is not the one asked for.    *)
Permuted(shape, order) == [d \in 1 .. 4 |-> shape[order[d]]]
OfStream(dtype, nhwc) ==
  LET planar == dtype = "float32"
  IN IF planar /\ nhwc THEN Permuted(Stored(dtype), <<1, 3, 4, 2>>)
     ELSE IF ~ planar /\ ~ nhwc THEN Permuted(Stored(dtype), <<1, 4, 2, 3>>)
     ELSE Stored(dtype)

(* from_plan takes the sizes from their places and puts them in order.     *)
OfPlan(dtype, nhwc) ==
  LET s == Stored(dtype)
      t == s[1]
      h == IF dtype = "float32" THEN s[3] ELSE s[2]
      w == IF dtype = "float32" THEN s[4] ELSE s[3]
  IN IF nhwc THEN <<t, h, w, "C">> ELSE <<t, "C", h, w>>

-------------------------------------------------------------------------------
(* Python code, which gives the lock up now and then.                      *)

TakeGil(t) ==
  /\ gil = NoThread
  /\ stage[t] \in {"python", "back"}
  /\ gil' = t
  /\ UNCHANGED <<vars, request, borrows, stage, call, returned, refused, assigns>>

Switch(t) ==
  /\ gil = t
  /\ stage[t] = "python"
  /\ gil' = NoThread
  /\ UNCHANGED <<vars, request, borrows, stage, call, returned, refused, assigns>>

(* A setter borrows the object mutably, or raises.                         *)
Assign(t) ==
  /\ gil = t
  /\ stage[t] = "python"
  /\ assigns < MaxAssigns
  /\ assigns' = assigns + 1
  /\ IF borrows = {}
     THEN /\ request' \in {r \in Requests \ {request} : r.input = request.input}
          /\ UNCHANGED refused
     ELSE refused' = TRUE /\ UNCHANGED request
  /\ UNCHANGED <<vars, gil, borrows, stage, call, returned>>

-------------------------------------------------------------------------------
(* plan_asset and decode_asset.                                            *)

(* The caller's arguments are taken with the interpreter's lock, which the *)
(* function keeps until it gives it up itself: a PyRef borrows the request *)
(* until it is dropped.                                                    *)
Entering == {t \in Threads : stage[t] \in {"entered", "copied", "unborrowed", "called"}}

Enter(t) ==
  /\ gil = t
  /\ stage[t] = "python"
  /\ calls + Cardinality(Entering) < MaxCalls
  /\ borrows' = borrows \union {t}
  /\ stage' = [stage EXCEPT ![t] = "entered"]
  /\ UNCHANGED <<vars, gil, request, call, returned, refused, assigns>>

(* to_decoder_request, to_decoder_config and wants_nhwc copy what the call *)
(* needs, or fail, and the function returns with its PyRef gone.           *)
Converts(r) == r.order # "other"

Copy(t) ==
  /\ stage[t] = "entered"
  /\ IF Converts(request)
     THEN /\ \E config \in Configs :
               call' = [call EXCEPT ![t] =
                         [asked |-> {request}, nhwc |-> request.order = "NHWC",
                          media |-> IF request.input = "gs" THEN Gcs ELSE config]]
          /\ stage' = [stage EXCEPT ![t] = "copied"]
          /\ UNCHANGED <<borrows, returned>>
     ELSE /\ returned' = returned \union {[asked |-> request, got |-> Failed]}
          /\ borrows' = borrows \ {t}
          /\ stage' = [stage EXCEPT ![t] = "python"]
          /\ UNCHANGED call
  /\ UNCHANGED <<vars, gil, request, refused, assigns>>

(* drop(request).                                                          *)
Kept(t) == borrows              \* mutant: the PyRef is dropped when the function returns
Dropped(t) == borrows \ {t}

Drop(t) ==
  /\ stage[t] = "copied"
  /\ borrows' = Dropped(t)
  /\ stage' = [stage EXCEPT ![t] = "unborrowed"]
  /\ UNCHANGED <<vars, gil, request, call, returned, refused, assigns>>

(* allow_threads.                                                          *)
Release(t) ==
  /\ stage[t] = "unborrowed"
  /\ gil' = NoThread
  /\ stage' = [stage EXCEPT ![t] = "called"]
  /\ UNCHANGED <<vars, request, borrows, call, returned, refused, assigns>>

(* The media is opened by the copy, wherever that leads.                   *)
Open(t) ==
  /\ stage[t] = "called"
  /\ Call(t)
  /\ want'[t] = call[t].media
  /\ stage' = [stage EXCEPT ![t] = "native"]
  /\ UNCHANGED <<gil, request, borrows, call, returned, refused, assigns>>

Work(t) == Step(t) /\ UNCHANGED python

(* It has been decoded or planned, or that failed.                         *)
Finish(t) ==
  /\ stage[t] = "native"
  /\ pc[t] = "idle"
  /\ stage' = [stage EXCEPT ![t] = "back"]
  /\ UNCHANGED <<vars, gil, request, borrows, call, returned, refused, assigns>>

(* The result is put in the order that was asked for, and handed over;     *)
(* what the function still holds is dropped.                               *)
LayoutNow(t) == request.order = "NHWC"   \* mutant: the request is read again
Layout(t) == call[t].nhwc
Results(asked, nhwc) == {Failed, OfStream(asked.dtype, nhwc), OfPlan(asked.dtype, nhwc)}

Return(t) ==
  /\ gil = t
  /\ stage[t] = "back"
  /\ \E asked \in call[t].asked : \E result \in Results(asked, Layout(t)) :
       returned' = returned \union {[asked |-> asked, got |-> result]}
  /\ stage' = [stage EXCEPT ![t] = "python"]
  /\ call' = [call EXCEPT ![t] = NoCall]
  /\ borrows' = borrows \ {t}
  /\ UNCHANGED <<vars, gil, request, refused, assigns>>

PyNext ==
  \E t \in Threads :
    \/ TakeGil(t) \/ Switch(t) \/ Assign(t)
    \/ Enter(t) \/ Copy(t) \/ Drop(t) \/ Release(t)
    \/ Open(t) \/ Work(t) \/ Finish(t) \/ Return(t)

PySpec == PyInit /\ [][PyNext]_allVars /\ \A t \in Threads : WF_allVars(Work(t))

-------------------------------------------------------------------------------
(* Properties.                                                             *)

(* What a call returns is laid out as the request asked when it was made:  *)
(* "an in-flight decode can never observe Python-side mutation"            *)
(* (ffi/mod.rs:479), and the permutes "make dimension_order hold either    *)
(* way" (ffi/mod.rs:781), for a plan as for what is decoded.               *)
ResultsAsAsked ==
  \A r \in returned :
    \/ r.got = Failed
    \/ r.got = IF r.asked.order = "NHWC" THEN <<"T", "H", "W", "C">> ELSE <<"T", "C", "H", "W">>

(* A thread that assigns to the request while others' calls are on their   *)
(* way is never told that the object is borrowed (ffi/mod.rs:963).         *)
AssignmentsSucceed == ~ refused
===============================================================================
