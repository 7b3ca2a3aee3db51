----------------------------- MODULE DecodePipeline -----------------------------
(***************************************************************************)
(* decode_media (mod.rs): every stream selected is planned from what the   *)
(* container says, then given its tensor.  Packets are read from the       *)
(* demuxer in file order and sent to their stream's decoder; the frames it *)
(* returns go through the stream's filter graph, or past it, into the      *)
(* planned tensor; at the end of the file, or of the window, every decoder *)
(* and graph is flushed.  plan_media stops after the plans; what follows   *)
(* them in FpsMode::Cli, which allows no window, is CliOutput.             *)
(*                                                                         *)
(* One thread runs it all; an action is one call of FFmpeg and what the    *)
(* code does with its answer.  A packet holds one frame and is named by    *)
(* its place in the file.  FFmpeg's decoder returns frames in the order of *)
(* their timestamps, once it holds more than it reorders; its graphs       *)
(* return frames in order, as late as they like (a motion stage is one     *)
(* more such graph).                                                       *)
(***************************************************************************)
EXTENDS Planning, FiniteSets, Functions

CONSTANTS
  Streams,     \* the streams of a file that can be decoded
  Audio,       \* those of them with sound
  Directs,     \* which of them may be on a DirectPath, without a graph
  Files,       \* files: each packet's stream, its frame's pts and its dts, if known
  Headers(_),  \* what the container of a file may say of it
  Requests,    \* MediaDecodeRequests
  Samples,     \* samples of an audio frame
  Rates,       \* the frame or sample rate each stream really has
  Bytes,       \* of a row or sample of each stream
  Environment, \* AVTENSOR_MAX_OUTPUT_TENSOR_BYTES
  Default,     \* DEFAULT_MAX_OUTPUT_TENSOR_BYTES
  Reorder,     \* frames a decoder holds back to put them in order
  DecoderRoom  \* frames it holds beyond those before it refuses packets

(* A rate is <<n, d>>.  A time that is not known is no number.             *)
Rate == (Nat \ {0}) \X (Nat \ {0})
Time == Int \union {NoTime}

(* Packets come in the order of their decoding times: one that is known is *)
(* no later than its own frame, nor than one still to come.  At most       *)
(* Reorder of a stream's frames are decoded before one that is shown       *)
(* earlier.                                                                *)
FileAssumption(file) ==
  /\ file \in Seq(ToSet(file))
  /\ \A i \in DOMAIN file : file[i].pts \in Int /\ file[i].dts \in Time
  /\ \A i, j \in DOMAIN file :
       i <= j /\ file[i].stream = file[j].stream =>
         /\ file[i].dts # NoTime => file[i].dts <= file[j].pts
         /\ file[i].pts = file[j].pts => i = j
  /\ \A i \in DOMAIN file :
       Cardinality({j \in 1 .. i - 1 : file[j].stream = file[i].stream
                                        /\ file[j].pts > file[i].pts}) <= Reorder

(* A request names streams of the kind it asks for.                        *)
RequestAssumption(request, it) ==
  /\ request.cli \in BOOLEAN
  /\ {request.window.start, request.window.end} \subseteq Time
  /\ request.rate \in Rate \union {NoTime}
  /\ request.audio \in Seq(ToSet(request.audio))
  /\ {it.begin, it.span} \subseteq Time
  /\ \A s \in Streams :
       /\ {it.streams[s].begin, it.streams[s].span} \subseteq Time
       /\ it.streams[s].rate \in Rate \union (IF s \in Audio THEN {} ELSE {NoTime})
       /\ it.streams[s].count \in Nat \union {NoTime}
  /\ ToSet(SelectedVideo(request, it)) \intersect Audio = {}
  /\ ToSet(SelectedAudio(request, it)) \intersect Streams \subseteq Audio

ASSUME PipelineAssumption ==
  /\ Audio \subseteq Streams /\ Directs \subseteq SUBSET Streams
  /\ Samples \in Nat \ {0}
  /\ Reorder \in Nat /\ DecoderRoom \in Nat
  /\ CliRate \in Rate /\ NoTime \notin Int \union Rate
  /\ \A file \in Files :
       /\ FileAssumption(file)
       /\ \A it \in Headers(file), request \in Requests : RequestAssumption(request, it)

VARIABLES
  asked,     \* MediaDecodeRequest
  packets,   \* the file
  header,    \* what its container says
  direct,    \* the streams on a DirectPath
  order,     \* the streams selected, in the order of filter_ctx
  plan,      \* rows or samples planned for each stream, NoTime before
  capacity,  \* size of each stream's frame_data, NoTime without one
  next,      \* the packet to read, or being decoded
  finished,  \* per stream, whether its packets are no longer decoded
  held,      \* per stream, the frames in its decoder
  draining,  \* per stream, whether the decoder has been flushed
  graph,     \* per stream, the frames in its filter graph
  rows,      \* per stream, the frame in each row or sample written
  decoded,   \* per stream, decoded_frames: views of frame_data
  start,     \* per stream, StreamStart
  pc,
  current,   \* the stream being worked on
  mode,      \* what receive_and_filter_frames is called for
  frames,    \* what that call has collected
  kept,      \* how much of it was there before this call of drain_sink
  all        \* what decode_packet has collected

given   == <<asked, packets, header, direct>>
settled == <<asked, packets, header, direct, order, plan, capacity>>
media   == <<next, finished, held, draining, graph, rows, decoded, start>>
lists   == <<mode, frames, kept, all>>
vars == <<asked, packets, header, direct, order, plan, capacity, next, finished, held,
          draining, graph, rows, decoded, start, pc, current, mode, frames, kept, all>>

Of(f)  == packets[f].stream
Pts(f) == packets[f].pts
Dts(f) == packets[f].dts
window == asked.window
Chosen == ToSet(order)

Init ==
  /\ asked \in Requests
  /\ packets \in Files
  /\ header \in Headers(packets)
  /\ direct \in Directs
  /\ order = <<>>
  /\ plan = [s \in Streams |-> NoTime]
  /\ capacity = [s \in Streams |-> NoTime]
  /\ next = 1
  /\ finished = [s \in Streams |-> FALSE]
  /\ held = [s \in Streams |-> {}]
  /\ draining = [s \in Streams |-> FALSE]
  /\ graph = [s \in Streams |-> <<>>]
  /\ rows = [s \in Streams |-> <<>>]
  /\ decoded = [s \in Streams |-> <<>>]
  /\ start = [s \in Streams |-> [decoded |-> NoTime, output |-> NoTime, wrote |-> FALSE]]
  /\ pc = "select"
  /\ current = NoTime
  /\ mode = "packet"
  /\ frames = <<>>
  /\ kept = 0
  /\ all = <<>>

-------------------------------------------------------------------------------
(* Before the loop.                                                        *)

(* The stream after this one, or the first one for the next phase.         *)
Onward(now, then) ==
  LET i == CHOOSE i \in DOMAIN order : order[i] = current
  IN IF i = Len(order) THEN pc' = then /\ current' = order[1]
     ELSE pc' = now /\ current' = order[i + 1]

(* Without a stream there is nothing to plan or to decode.                 *)
Select ==
  LET selected == Selected(asked, header)
  IN /\ pc = "select"
     /\ IF selected # <<>> /\ ToSet(selected) \subseteq Streams
        THEN order' = selected /\ current' = selected[1] /\ pc' = "plan"
        ELSE /\ pc' = IF selected = <<>> THEN "hand_out" ELSE "refused"
             /\ UNCHANGED <<order, current>>
     /\ UNCHANGED <<given, plan, capacity, media, lists>>

Plannable ==
  IF current \in Audio THEN AudioPlannable(header, current, asked)
  ELSE VideoPlannable(header, current, asked)
Planned ==
  IF current \in Audio THEN AudioPlan(header, current, asked, order)
  ELSE VideoPlan(header, current, asked)
Limit == OutputLimit(asked.limit, Environment, Default)
WithinLimit == Allocatable(Planned, Bytes[current], Limit)

AllButLimit == Plannable               \* mutant: the limit is not checked
CanPlan == Plannable /\ WithinLimit

PlanStream ==
  /\ pc = "plan"
  /\ CanPlan
  /\ plan' = [plan EXCEPT ![current] = Planned]
  /\ Onward("plan", "allocate")
  /\ UNCHANGED <<given, order, capacity, media, lists>>

Refuse ==
  /\ pc = "plan"
  /\ ~ CanPlan
  /\ pc' = "refused"
  /\ UNCHANGED <<settled, media, current, lists>>

(* plan_media returns the plans.                                           *)
HandOutPlans ==
  /\ pc = "allocate" /\ current = order[1]
  /\ pc' = "planned"
  /\ UNCHANGED <<settled, media, current, lists>>

Allocate ==
  /\ pc = "allocate" /\ ~ asked.cli
  /\ capacity' = [capacity EXCEPT ![current] = plan[current]]
  /\ Onward("allocate", IF Known(window.start) THEN "seek" ELSE "demux")
  /\ UNCHANGED <<given, order, plan, media, lists>>

(* avformat_seek_file leaves the demuxer somewhere before the window's     *)
(* first frame, or the decode fails.                                       *)
Seek ==
  /\ pc = "seek"
  /\ \E place \in 1 .. Len(packets) + 1 :
       /\ \A i \in 1 .. place - 1 : Of(i) \in Chosen => Pts(i) < window.start
       /\ next' = place
  /\ pc' = "demux"
  /\ UNCHANGED <<settled, finished, held, draining, graph, rows, decoded, start, current,
                 lists>>

-------------------------------------------------------------------------------
(* The demuxer's loop.                                                     *)

(* The packet's decoding time, which never exceeds the time of a frame     *)
(* still to come; its frame's own where that is not known.                 *)
PtsStamp(f) == Pts(f)                  \* mutant: a B-frame comes after a later frame
EndStamp(f) == IF Known(Dts(f)) THEN Dts(f) ELSE Pts(f)
PastEnd(f)  == window.end # NoTime /\ EndStamp(f) > window.end

AllFinished == \A s \in Chosen : finished[s]

(* A packet past the end of the window is the last its stream decodes.     *)
ReadPacket ==
  /\ pc = "demux"
  /\ next <= Len(packets) /\ ~ AllFinished
  /\ IF Of(next) \in Chosen /\ ~ finished[Of(next)]
     THEN /\ finished' = [finished EXCEPT ![Of(next)] = PastEnd(next)]
          /\ pc' = "send"
          /\ current' = Of(next)
          /\ all' = <<>>
          /\ UNCHANGED next
     ELSE /\ next' = next + 1
          /\ UNCHANGED <<finished, pc, current, all>>
  /\ UNCHANGED <<settled, held, draining, graph, rows, decoded, start, mode, frames, kept>>

(* Allocating, seeking, reading, decoding or filtering fails: so does the  *)
(* decode.                                                                 *)
Error ==
  /\ pc \in {"allocate", "seek", "demux", "send", "receive", "drain"}
  /\ pc' = "failed"
  /\ UNCHANGED <<settled, media, current, lists>>

-------------------------------------------------------------------------------
(* decode_packet.                                                          *)

(* The decoder (FFmpeg): whether a frame can be received, and whether a    *)
(* packet may or must be refused until one is.                             *)
HasOutput(s)  == IF draining[s] THEN held[s] # {} ELSE Cardinality(held[s]) > Reorder
MustRefuse(s) == Cardinality(held[s]) > Reorder + DecoderRoom

(* receive_and_filter_frames is called.                                    *)
Receives(for) ==
  /\ pc' = "receive"
  /\ mode' = for
  /\ frames' = <<>>

Send ==
  /\ pc = "send"
  /\ ~ MustRefuse(current)
  /\ held' = [held EXCEPT ![current] = @ \union {next}]
  /\ Receives("packet")
  /\ UNCHANGED <<settled, next, finished, draining, graph, rows, decoded, start, current, kept,
                 all>>

SendRefused ==
  /\ pc = "send"
  /\ HasOutput(current)
  /\ Receives("refused")
  /\ UNCHANGED <<settled, media, current, kept, all>>

-------------------------------------------------------------------------------
(* receive_and_filter_frames, filter_frame, drain_sink.                    *)

Size(s) == IF s \in Audio THEN Samples ELSE 1
Full(s) == Len(rows[s]) >= capacity[s]

BeforeStart(f) == window.start # NoTime /\ Pts(f) < window.start

(* A frame is written as far as there is room; its view is a slice.  Only  *)
(* a video frame must fit.                                                 *)
Step(s)    == MinOf(Size(s), capacity[s] - Len(rows[s]))
HasRoom(s) == s \in Audio \/ ~ Full(s)

Write(f) ==
  /\ rows' = [rows EXCEPT ![current] = @ \o [i \in 1 .. Step(current) |-> f]]
  /\ frames' = Append(frames, [frame |-> f, at |-> Len(rows[current]), length |-> Step(current)])

(* Not so the frames before the window.                                    *)
NoneDropped(f) == FALSE                \* mutant: they are written too
Dropped(f) == BeforeStart(f)

(* StreamStart.written.                                                    *)
LastWritten(s, new) ==                 \* mutant: not only the first frames count
  IF new = <<>> THEN start[s]
  ELSE [start[s] EXCEPT !.wrote = TRUE, !.output = Pts(new[1].frame)]
Written(s, new) ==
  IF start[s].wrote \/ new = <<>> THEN start[s]
  ELSE [start[s] EXCEPT !.wrote = TRUE, !.output = Pts(new[1].frame)]

(* The next frame in order leaves the decoder.                             *)
Receive(f) ==
  /\ pc = "receive"
  /\ ~ Full(current) /\ HasOutput(current)
  /\ f \in held[current] /\ \A g \in held[current] : Pts(f) <= Pts(g)
  /\ held' = [held EXCEPT ![current] = @ \ {f}]
  /\ start' = IF start[current].decoded # NoTime THEN start
              ELSE [start EXCEPT ![current].decoded = Pts(f)]

ReceiveDirect(f) ==
  /\ Receive(f)
  /\ current \in direct
  /\ IF Dropped(f) THEN UNCHANGED <<rows, frames>> ELSE Write(f)
  /\ UNCHANGED <<settled, next, finished, draining, graph, decoded, pc, current, mode, kept, all>>

ReceiveFiltered(f) ==
  /\ Receive(f)
  /\ current \notin direct
  /\ graph' = [graph EXCEPT ![current] = Append(@, f)]
  /\ kept' = Len(frames)
  /\ pc' = "drain"
  /\ UNCHANGED <<settled, next, finished, draining, rows, decoded, current, mode, frames, all>>

(* The next frame leaves the graph.                                        *)
Drain(f) ==
  /\ pc = "drain"
  /\ graph[current] # <<>> /\ f = Head(graph[current])
  /\ graph' = [graph EXCEPT ![current] = Tail(@)]

DrainFrame(f) ==
  /\ Drain(f)
  /\ IF Dropped(f) THEN UNCHANGED <<rows, frames>> ELSE HasRoom(current) /\ Write(f)
  /\ UNCHANGED <<settled, next, finished, held, draining, decoded, start, pc, current, mode,
                 kept, all>>

(* filter_frames_seek.                                                     *)
InWindow(f) == ~ BeforeStart(f) /\ (window.end # NoTime => Pts(f) < window.end)
FilteredSeek(views) == Picked(views, {i \in DOMAIN views : InWindow(views[i].frame)})

(* After a frame the call goes on to the next; after the graph's flush the *)
(* next stream is flushed.                                                 *)
FlushesNext ==
  LET i == CHOOSE i \in DOMAIN order : order[i] = current
  IN IF i = Len(order) THEN pc' = "hand_out" /\ UNCHANGED current
     ELSE pc' = "flush" /\ current' = order[i + 1]

Drained(views) ==
  IF mode = "graph"
  THEN /\ start' = [start EXCEPT ![current] = Written(current, views)]
       /\ decoded' = [decoded EXCEPT ![current] = @ \o FilteredSeek(views)]
       /\ FlushesNext
       /\ UNCHANGED frames
  ELSE /\ frames' = views
       /\ pc' = "receive"
       /\ UNCHANGED <<start, decoded, current>>

(* The graph keeps what it likes, but nothing when it is flushed.          *)
SinkEmpty ==
  /\ pc = "drain"
  /\ mode = "graph" => graph[current] = <<>>
  /\ Drained(frames)
  /\ UNCHANGED <<settled, next, finished, held, draining, graph, rows, mode, kept, all>>

(* With a video tensor full drain_sink fails: the views of what this call  *)
(* has written are lost with the frame that found no room.                 *)
NoStorageAvailable(f) ==
  /\ Drain(f)
  /\ ~ Dropped(f) /\ ~ HasRoom(current)
  /\ Drained(SubSeq(frames, 1, kept))
  /\ UNCHANGED <<settled, next, finished, held, draining, rows, mode, kept, all>>

(* The call returns: the tensor is full, or the decoder has nothing more.  *)
Returns ==
  /\ pc = "receive"
  /\ Full(current) \/ ~ HasOutput(current)
  /\ start' = [start EXCEPT ![current] = Written(current, frames)]

(* After a packet was sent: its frames are the caller's.                   *)
PacketDone ==
  /\ Returns
  /\ mode = "packet"
  /\ decoded' = [decoded EXCEPT ![current] = @ \o FilteredSeek(all \o frames)]
  /\ next' = next + 1
  /\ pc' = "demux"
  /\ UNCHANGED <<settled, finished, held, draining, graph, rows, current, lists>>

(* After one was refused: it is sent again if that freed a frame, and is   *)
(* dropped if the stream needs no more; otherwise the decode fails.        *)
ResendAlways == TRUE                   \* mutant: whatever was received
Resend == frames # <<>>
Skip == Full(current) \/ finished[current]

AfterRefusal ==
  IF Resend THEN "send" ELSE IF Skip THEN "receive" ELSE "stuck"

RefusalDone ==
  /\ Returns
  /\ mode = "refused"
  /\ all' = all \o frames
  /\ pc' = AfterRefusal
  /\ mode' = "packet"
  /\ frames' = <<>>
  /\ UNCHANGED <<settled, next, finished, held, draining, graph, rows, decoded, current, kept>>

-------------------------------------------------------------------------------
(* The flush, stream by stream.                                            *)

LoopEnds ==
  /\ pc = "demux"
  /\ next > Len(packets) \/ AllFinished
  /\ pc' = "flush"
  /\ current' = order[1]
  /\ UNCHANGED <<settled, media, lists>>

FlushDecoder ==
  /\ pc = "flush"
  /\ draining' = [draining EXCEPT ![current] = TRUE]
  /\ Receives("flush")
  /\ UNCHANGED <<settled, next, finished, held, graph, rows, decoded, start, current, kept, all>>

(* Then the graph gives up what it kept.                                   *)
DecoderFlushed ==
  /\ Returns
  /\ mode = "flush"
  /\ decoded' = [decoded EXCEPT ![current] = @ \o FilteredSeek(frames)]
  /\ frames' = <<>> /\ kept' = 0
  /\ IF current \in direct THEN FlushesNext /\ UNCHANGED mode
     ELSE pc' = "drain" /\ mode' = "graph" /\ UNCHANGED current
  /\ UNCHANGED <<settled, next, finished, held, draining, graph, rows, all>>

(* The tensors are cut at the rows written.                                *)
HandOut ==
  /\ pc = "hand_out"
  /\ pc' = "done"
  /\ UNCHANGED <<settled, media, current, lists>>

Ended == pc \in {"done", "failed", "refused", "planned", "stuck"} /\ UNCHANGED vars

Next ==
  \/ Select
  \/ PlanStream
  \/ Refuse
  \/ HandOutPlans
  \/ Allocate
  \/ Seek
  \/ ReadPacket
  \/ Error
  \/ Send
  \/ SendRefused
  \/ \E f \in DOMAIN packets :
       ReceiveDirect(f) \/ ReceiveFiltered(f) \/ DrainFrame(f) \/ NoStorageAvailable(f)
  \/ SinkEmpty
  \/ PacketDone
  \/ RefusalDone
  \/ LoopEnds
  \/ FlushDecoder
  \/ DecoderFlushed
  \/ HandOut
  \/ Ended

Spec == Init /\ [][Next]_vars

(* The thread goes on while it can.                                        *)
FairSpec == Spec /\ WF_vars(Next)

-------------------------------------------------------------------------------
(* Properties.                                                             *)

Frames == DOMAIN packets

(* "Plan every stream before allocating any buffer, so a stream over the   *)
(* output limit fails the request before another stream's buffer exists"   *)
(* (mod.rs:379): a buffer exists only once every stream selected has a     *)
(* plan, and none exceeds the limit.                                       *)
PlansFirst ==
  (\E s \in Streams : capacity[s] # NoTime) =>
    \A s \in Chosen :
      /\ plan[s] # NoTime
      /\ plan[s] * Bytes[s] <= Limit

(* A packet without a dts whose frame is past the end ends its stream      *)
(* (mod.rs:526), whatever is read after it.                                *)
CutShort(f) ==
  /\ window.end # NoTime
  /\ \E g \in Frames : Of(g) = Of(f) /\ g < f /\ ~ Known(Dts(g)) /\ Pts(g) > window.end

(* A decode that succeeds returns every frame of the window, from its      *)
(* first row on, in order and once, each as often as its size, wherever    *)
(* decoders and graphs kept frames back, packets were refused, and the     *)
(* streams ended: a frame is missing only if the tensor has no room and    *)
(* nothing in it comes after, or if its stream was cut short before it.    *)
(* None wrote past its planned tensor.                                     *)
Delivered(s, f) ==
  \/ \E k \in DOMAIN rows[s] : rows[s][k] = f
  \/ Full(s) /\ \A k \in DOMAIN rows[s] : Pts(rows[s][k]) < Pts(f)
InBlocks(s) ==
  \A k, l \in DOMAIN rows[s] :
    Pts(rows[s][k]) < Pts(rows[s][l]) <=> (k - 1) \div Size(s) < (l - 1) \div Size(s)
WindowDelivered ==
  pc = "done" =>
    \A s \in Chosen :
      /\ \A f \in Frames : Of(f) = s /\ InWindow(f) => Delivered(s, f) \/ CutShort(f)
      /\ \A k \in DOMAIN rows[s] : Of(rows[s][k]) = s /\ ~ BeforeStart(rows[s][k])
      /\ InBlocks(s)
      /\ Len(rows[s]) % Size(s) = 0 \/ Full(s)
      /\ Len(rows[s]) <= capacity[s]

(* The sound's views, which align_audio takes timestamps and places from,  *)
(* are all there and one after the other: they tile the samples written,   *)
(* up to the end of the window, each at its own frame's samples.           *)
AudioViewsTile ==
  pc = "done" =>
    \A s \in Audio :
      /\ \A i \in DOMAIN decoded[s] :
           LET view == decoded[s][i]
           IN /\ view.at = IF i = 1 THEN 0 ELSE decoded[s][i - 1].at + decoded[s][i - 1].length
              /\ \A k \in view.at + 1 .. view.at + view.length : rows[s][k] = view.frame
      /\ \A k \in DOMAIN rows[s] : InWindow(rows[s][k]) =>
           \E i \in DOMAIN decoded[s] : decoded[s][i].frame = rows[s][k]

(* An audio stream's output start is the timestamp of its first sample,    *)
(* and no earlier than its first decoded frame.                            *)
StartIsFirstSample ==
  pc = "done" =>
    \A s \in Audio : rows[s] # <<>> =>
      start[s].output = Pts(rows[s][1]) /\ start[s].decoded <= start[s].output

(* Every decode ends, although refused packets are sent again, and never   *)
(* with "Decoder is full but no frames could be drained": a decoder refuses *)
(* a packet only while frames wait in it, and those are left there only    *)
(* when the tensor is full.                                                *)
Terminates == <>(pc \in {"done", "failed", "refused", "planned"})

(* The plan is enough.  What a container that tells the truth makes true:  *)
(* each stream's start and one of the durations, and the frame rate or the *)
(* number of frames.                                                       *)
TimesOf(s)  == {Pts(f) : f \in {g \in Frames : Of(g) = s}}
Begins(s)   == Min(TimesOf(s))
Ends(s)     == Max(TimesOf(s)) + (Size(s) * Rates[s][2]) \div Rates[s][1]
FileStart   == Min({Begins(s) : s \in Streams})
FileEnd     == Max({Ends(s) : s \in Streams})
Truthful(s) ==
  LET it == header.streams[s]
  IN /\ it.begin = Begins(s)
     /\ it.span \in {NoTime, Ends(s) - Begins(s)}
     /\ it.span = NoTime => header.span = FileEnd - FileStart
     /\ it.rate = Rates[s] \/ (it.span # NoTime /\ it.count = Cardinality(TimesOf(s)))

(* A window without an end is planned as if what has the duration started  *)
(* at 0.                                                                   *)
CountsFromZero(s) ==
  window.start # NoTime /\ window.end = NoTime =>
    0 = IF header.streams[s].span # NoTime THEN Begins(s) ELSE FileStart

Measured(s) == Truthful(s) /\ CountsFromZero(s)

(* With true durations a video loses no frame to the estimate that shows   *)
(* for more than half its time before the window ends ("epsilon",          *)
(* mod.rs:1836), wherever the window falls between its frames and          *)
(* whichever duration it was planned from.                                 *)
HalfInside(f) ==
  \/ window.end = NoTime
  \/ 2 * Rates[Of(f)][1] * (window.end - Pts(f)) > Rates[Of(f)][2] /\ ~ CutShort(f)
InTheWindow(s) ==
  SetToSortSeq({f \in Frames : Of(f) = s /\ InWindow(f)}, LAMBDA f, g : Pts(f) < Pts(g))
PlanSuffices ==
  pc = "done" =>
    \A s \in Chosen \ Audio :
      Measured(s) => Len(SelectSeq(InTheWindow(s), HalfInside)) <= Len(rows[s])

(* The samples of a frame before the end of the window, and the silence    *)
(* that align_audio puts in front of them.                                 *)
Inside(f) ==
  IF window.end = NoTime THEN Samples
  ELSE MinOf(Samples, CeilAt(window.end - Pts(f), Rates[Of(f)]))
Silence(s) ==
  LET origin   == Clipped(Min({start[t].decoded : t \in Chosen} \ {NoTime}), window)
      reported == header.streams[s].begin
  IN IF /\ StartsInWindow(start[s].decoded, window)
        /\ Known(reported) => StartsInWindow(reported, window)
     THEN LeadingPad(start[s].output, origin, Rates[s]) ELSE 0

(* "Room for the silence that puts a stream starting after the timeline    *)
(* onto it" (mod.rs:1938), and what lies past a short plan lies past the   *)
(* window's end (mod.rs:785): with true durations every sample of the      *)
(* window fits, after the silence the stream will be given.                *)
SilenceFits ==
  pc = "done" =>
    \A s \in Chosen \intersect Audio :
      Measured(s) /\ rows[s] # <<>> =>
        Silence(s) + SumFunction([i \in DOMAIN InTheWindow(s) |-> Inside(InTheWindow(s)[i])])
          <= capacity[s]

(* "Drop any frames returned by the decoder past the end time"             *)
(* (mod.rs:546): the tensors returned hold no frame from past the window.  *)
NoRowPastEnd ==
  pc = "done" /\ window.end # NoTime =>
    \A s \in Streams : \A k \in DOMAIN rows[s] : Pts(rows[s][k]) <= window.end
===============================================================================
