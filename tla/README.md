# avtensor: specifications, model checking and proofs

This directory holds TLA+ modules that model avtensor (a Rust library with
Python bindings that decodes video, audio and images straight into PyTorch
tensors), the TLC configurations that check them, and proofs for TLAPS. Paths
such as `io.rs:529` are under `src/src/`; `mod.rs` is `src/src/decoder/mod.rs`.

## 1. The system

One call, `decode_media` (Python: `decode_asset`), does everything:

1. It opens the input. A local file goes to FFmpeg's own file protocol. A
   `gs://`, `s3://` or `http(s)://` object gets a *cloud reader*: an AVIO
   context whose read and seek callbacks serve one buffer that asynchronous
   tasks, on one process-wide tokio runtime, fill with range requests. Bytes
   get a *memory reader*.
2. It *plans*: chooses streams, works out the shape of every output tensor,
   checks the sum against the output limit, allocates the tensors.
3. It *decodes*: demultiplexes packets, feeds decoders, filters or converts
   frames directly into rows of the output tensors, until every stream has what
   it needs; then flushes decoders and filters.
4. It *hands out*: aligns audio with the time line (moving samples inside the
   tensor), cuts tensors at the rows produced, builds the views and timestamps
   the caller gets.

| Component | State | Operations | Interacts by | Hard behaviour | Correct when |
|---|---|---|---|---|---|
| Cloud object reader (`decoder/io.rs`) | the buffer, an indicator per byte, the read position, running reader tasks | read and seek callbacks, reader task's chunks, respawn, close | a `tokio::Mutex` shared by the FFmpeg thread and all tasks | several overlapping readers, death in mid-range, a mutex released across a backoff and a request | it looks like a plain seekable source; every call returns |
| Client and runtime cache (`lib.rs`, `util/s3.rs`, `util/gcs.rs`) | map from S3 configuration to client; once-cells for the runtime and the GCS client | lookup, build, insert | a `Mutex` shared by all decoding threads | client built outside the lock, failures kept for ever | callers with one configuration share one client |
| Output buffer (`alloc.rs`, `csrc/tensor_from_blob.cpp`) | one storage shared by all views of a tensor | allocate, grow, trim | raw pointers across the C++ shim | storage replaced while views of it exist | views keep their contents and stay inside the storage |
| Decode pipeline (`decoder/mod.rs`) | decoders, filter graphs, row pointers, finished flags, per stream | packet, frame, filter output, flush, hand-out | calls, in one thread | early ends, dropped frames, streams that finish at different times | each stream gets the frames of its window, in order, once |
| CLI frame-rate output (`decoder/cfr.rs`, CLI branches of `mod.rs`) | next slot, history of copies, previous row, tensor | frame, growth, final repeats, trim | calls from the pipeline | gaps, backward and missing timestamps, growth against the output limit | the rows are the slots; what `ffmpeg -fps_mode cfr` would show |
| Demuxer timestamp fixes (`decoder/cfr.rs`) | the shifts so far, the predicted and the previous dts | fix a packet | called for each packet of a stream decoded as the CLI does | jumps ahead and back, missing timestamps, rounding between units | timestamps stay continuous and keep the stream's pace |
| Audio alignment (`decoder/mod.rs`) | runs of samples with timestamps, the sample tensor, frame views | find gaps, spread samples, leading silence | in place, under views already built | overlapping moves inside one tensor, capacity | each sample lands at its time, none is lost or doubled |
| Scene-cut detector (`decoder/scenecut.rs`) | the previous thumbnail, recent differences | push a frame, reset | called by the resampler for each source frame | repeated and dropped frames, a history of a few pairs | a cut is decided by the pair and by the motion right before it |
| Motion resampling (`decoder/motion.rs` `Resampler`) | the last source, output clock, pending frames, cached copies and motion | push, finish | a stage after a stream's filter graph | caches keyed by timestamps that may come again; which frames are final | the `fps` filter's timestamps; each frame from the pair around its time |
| Motion interpolator (`decoder/motion.rs`, `decoder/pairwise.rs`) | padded planes, a field of vectors | estimate, compensate, blend; Python's `interpolate_frames` | called by the resampler for a pair | nothing is clipped; 16-bit sums | every read and write lies in its buffer, every sum fits, for every size |
| Planning and limits (`decoder/mod.rs`) | none (pure) | select streams, rows and samples of each, limits | before decoding, and alone for `plan_media` | containers that say little or lie, rounding | room for what the window holds, no tensor beyond the limit |
| Pixel conversion (filter graphs in `decoder/mod.rs`, `decoder/cuda.rs`, `conversion.rs`) | per stream: one or two graphs, or a kept scaler, or scratch planes on the GPU | build, filter, convert | between decoder and row | which filter meets which frame; work done behind the decoding thread | every frame is accepted, of the size planned, with the colours asked for |
| Memory and file readers (`decoder/io.rs`) | position in a slice | read, seek | AVIO callbacks | bounds | a plain seekable source |
| Python bindings (`ffi/`) | request objects, shared by reference | `plan_asset`, `decode_asset`, setters | the interpreter's lock, given up for the work | assignments while a call works | a call does what its request said when it was made |

What the rows do not show is how the components meet:

* FFmpeg's thread is the only one that runs the pipeline. It blocks in the
  cloud reader's callbacks, which share a mutex with the reader tasks; several
  decodes may run in several (Python) threads and then share the client cache,
  the runtime and the request objects, and nothing else.
* Frames handed to the caller are views of the output tensors. Everything that
  moves, cuts or replaces a tensor after a row was written (growth, trimming,
  audio alignment) has to leave these views right.
* The plan fixes the number of rows before the first packet is read. What
  comes after -- frames from past the window, silence in front of audio, the
  CLI's repeats -- competes for them.

## 2. Modules

| Module | Models | Extends, instances |
|---|---|---|
| `ByteSource` | what FFmpeg may rely on: a seekable source of a constant object | |
| `CloudReader` | `io.rs` cloud reader: callbacks, tasks, respawns, close | `ByteSource` as `Source` |
| `MemoryReader` | `io.rs` `memory_avio_reader` | |
| `CloudReaderProofs` | theorems about both readers | `CloudReader`; `MemoryReader` as `Memory`, `ByteSource` as `Held` |
| `ClientCache` | `lib.rs` once-cells and the S3 client map | |
| `PythonCalls` | `ffi/mod.rs` `plan_asset` and `decode_asset` under the interpreter's lock | `ClientCache` |
| `PythonCallsProofs` | theorems about it and the client cache | `PythonCalls` |
| `OutputBuffer` | `alloc.rs` and the C++ shim: storages, views, growth, trim | |
| `OutputBufferProofs` | theorems about it | `OutputBuffer` |
| `Planning` | `mod.rs` `select_*` and `plan_*`, as operators | |
| `DecodePipeline` | `mod.rs` plans, allocation, demux loop, decoders, graphs, rows, flush, hand-out | `Planning` |
| `DecodePipelineProofs` | theorems about it | `DecodePipeline` |
| `FilterChain` | `mod.rs` filter configurations and chains; what FFmpeg's filters do to a frame | |
| `VideoPath` | `mod.rs` and `cuda.rs`: the choice of way, the two graphs, the kept scaler, the GPU's queue | `FilterChain` |
| `FrameOutput` | what the CLI output promises: frames shown in order | |
| `CliOutput` | `cfr.rs` `CfrSync` and the CLI branches of `mod.rs` | `FrameOutput` as `Promised` |
| `CliOutputProofs` | theorems about it and its refinement, and about `DemuxFixup` | `CliOutput`, `DemuxFixup` |
| `DemuxFixup` | `cfr.rs` `DemuxFixup` | |
| `AudioAlign`, `AudioAlignProofs` | `mod.rs` `align_audio`, `find_gaps`, `spread_samples` | |
| `CutDetector` | `scenecut.rs`, as operators on its history | |
| `Resampler` | `motion.rs` `Resampler` | `CutDetector` |
| `ResamplerProofs` | theorems about it | `Resampler` |
| `MotionSearch` | `motion.rs` `Interpolator` and its kernels: where they read and write | |
| `PairFrames` | `pairwise.rs` | `MotionSearch` |
| `VideoProofs` | theorems about the filter graphs, the direct ways and the interpolator | `VideoPath`, `PairFrames` |
| `MC...` | the small instances TLC checks | the module of the same name |

Operators of the models are named after the functions they stand for where the
code has one; `PROJECT.json` gives the lines of each. Operators marked
`mutant:` are plausible wrong versions of the one that follows them. No
specification uses them; put in its place, each makes the property it is listed
for fail.

### CloudReader

`data`, `marked` and `readPos` are `CloudStorageBuffer`; `live` is the list of
`DataReader`s whose handle is not finished, `task` their tasks. `pc` is where
the FFmpeg thread is: outside a callback, in the read loop, past the mutex and
about to reopen (`io.rs:529-556`), or inside the seek callback with the mutex
held while it opens a stream. A reader's step writes one chunk and then decides
whether to stop (`io.rs:303-322`), as one action, because the task holds the
mutex for both. The wait of the read loop is the absence of an enabled action
of the callback while the hole is covered by a live reader. The backoff is a
step like any other: nothing relates it to the time a reader takes.

`ByteSource` is the abstract source: a read answers with the object's bytes at
the position and moves it, or end of file, or an error; a seek moves the
position. The refinement maps `position` to `readPos` and the reply of a call
to the reply, or to the call being served. It is not exact in one place: a seek
whose stream cannot be opened answers -1 with the position moved already
(`io.rs:634`, `681`), so the abstract source leaves the position of a failed
seek open.

### ClientCache

Threads call for a client: of one of the S3 configurations, or of GCS. `cells`
are the two `OnceLock`s, each unset, being initialised by a thread, or set to a
value or an error; `cache` is the map, `pc` per thread what it does next. The
look-up and the insertion are separate critical sections with the build
between them (`lib.rs:262`).

### PythonCalls

Python threads share one request object. `gil` is the interpreter's lock.
What a call does under it is four actions: `Enter` takes the `PyRef`
(`ffi/mod.rs:946-950`), `Copy` copies the request and reads the dimension order
or returns an error, which drops the `PyRef` (`951-962`), `Drop` is
`drop(request)` (`963-965`) and `Release` is `allow_threads` (`967-968`). Native
code keeps the lock until then, so no other thread's Python code runs between
them, though their native work may. `Open` to `Finish` are the work without the
lock, of which `ClientCache`'s steps are the part that
threads share, and `Return` the result. A shape is the sequence of the names of
its dimensions, so that permuting the stored order is a permutation. A setter
replaces the stream request or a field of it alike. One thing is left out that
takes the lock during the work: error messages, which go to Python's logging.

### MemoryReader

The two callbacks over one slice. Unlike the cloud reader it refuses a seek
that leaves the object; `ByteSource` allows both.

### OutputBuffer

Buffers are numbered by allocation; `storages` says which buffer and size each
storage has, `output`, `grown` and `views` refer to storages by number, as
tensors share them. `grow_rows` is four actions (allocate, copy, swap storages,
restride), each of which may fail. Deleting the last reference to a storage
runs the deleter of its buffer, which `frees` counts.

### Planning and DecodePipeline

A header is what the container says of a file, true or not. `Planning`
computes from it and the request which streams are meant and how many rows or
samples each needs, silence in front of late streams included; rates are
fractions, so that the code's roundings are exact here. `DecodePipeline` plans
every stream, then allocates (`mod.rs:378-432`), then decodes, or stops after
the plans (`plan_media`). An action is one call into FFmpeg and the code's
handling of the answer: read a packet, send it, receive a frame, take one frame
out of the graph and write it, find the graph empty, flush a decoder or a graph,
hand out. `mode` is what `receive_and_filter_frames` was called for: a packet
that was sent or refused, the decoder's flush, the graph's. `frames` and `all`
are what was collected, `kept` what a failing `drain_sink` leaves of it.
`held` and `graph` are FFmpeg's: a
decoder returns frames in order of their timestamps once it holds more than it
reorders, and may refuse a packet when it holds too many; a graph returns frames
in order, as late as it likes. `rows` is what each row or sample of a stream's
tensor holds, `decoded` the views. Three consequences of the code are worth
knowing:

* When a tensor has no room left in the middle of a drain, the views of frames
  written earlier in that drain are lost with the error
  (`NoStorageAvailable`); their rows stay.
* A stream whose tensor is full is not marked finished, so the file is read to
  its end all the same. The `Resend` branch (`mod.rs:2493`) and the "cannot
  make progress" error cannot be reached under FFmpeg's send/receive contract:
  `PhaseInv`, in the invariant that is proved, has a packet refused only when
  the tensor is full, and `Terminates` would fail if they looped.
* A window without an end is planned as if the stream, or the file, whichever
  has the duration, started at 0. `PlanSuffices` and `SilenceFits` exclude
  (`CountsFromZero`) the late streams for which this plans too little.

### FilterChain and VideoPath

A request and a stream make a filter configuration (`Config`), and that a chain
of filters, printed by `filter_graph_description` in the code. A frame is what
the filters can tell of it: size, pixel format, colour tags, orientation, and
marks of what was done to it (tone mapped, by which matrix converted). What
FFmpeg's filters do, and which frames they refuse (`Refuses`: zimg, the scale filter
and everything that converts formats by itself), is external and taken from
the comments and the options the code passes. A refusal fails the decode. Some
streams are refused whatever the chain is: those whose matrix the scale filter does
not know (`ScaleMatrices`), and those to be tone mapped of which no transfer is
tagged. `Convertible` names them, `FiltersAccept` is about all others, and dropping
either part of it violates the property in the run. `VideoPath` sends a frame through
the chain filter by filter, through both graphs of a stream with a motion stage;
or converts frames with the kept scaler, whose shape and tags may change from
frame to frame, and which reads as BT.601 what swscale has no coefficients for
(`Coefficients`); or lets NPP work behind the thread's back, with the decoder's
surface and the scratch planes it reads overwritten unless it was waited for.
Two assumptions are named there: a decoder that has tagged a frame goes on
tagging (`TagsStay`, which the comment at `mod.rs:3519` relies on), and a gray HDR
source that is to be tone mapped is left out (`CaseAssumption`): the comment at
`mod.rs:4451` says how gray reaches zimg without a matrix, and which option then
gives it one, but that option is not passed to the filter that makes light
linear.

### CliOutput and FrameOutput

`sync` is `CfrSync`; `tensor`, `ptr`, `pts`, `previous` and `grew` are the
fields of the stream context. `Frame` is the whole handling of one decoded
frame: the decision, growth, writing of rows and copies of the previous row.
Times are in twentieths of an output slot, which the thresholds (1.1 and 0.6)
and the sets of timestamps are multiples of. `FrameOutput` promises that what
is emitted is the frames decoded, in order, each any number of times, gaps and
the end being filled with the last frame decoded, shown itself or not.

### DemuxFixup

`fix` is one action whose inputs are a packet's pts, dts, duration and fields.
Stream time is in ticks, predictions in microseconds. A tick is a fraction of
microseconds (`TickNum / TickDen`, 100/9 in MPEG-TS), and `Rescale` rounds half
away from zero in both directions, as `rescale` does. `packet` and `anchor`
remember what became of the last packet and of the last before it that kept its dts, for
the properties.

### AudioAlign

`frames` and `tensor` are what the pipeline leaves; the alignment finds the
gaps, computes runs, moves them from the last to the first, zeroes what they
leave, and moves the views. The boundaries between frames are judged and filled
one by one (`GoesOn`, `FillGap`); the code finds all gaps and then fills them,
which is the same, as finding depends on the views alone. Each move and each
zeroing is an action, so that the tensor can be compared at the end with what a
fresh layout would give. `Picked` is what the code's loops over the views keep.
Sample *k* is the number *k* and silence 0; one channel stands for all, which
the code treats alike. Time is an integer, `Unit` to the sample.

### CutDetector and Resampler

`push` is three actions: the first source, a source that does not come after
the one before it, and one that does, which makes the frames in between;
`finish` is the fourth. A frame made carries the two sources its pixels are of
and the two its motion was estimated from, so that a stale cache shows. Time is
counted as the code counts it, in units of 1/(in · out). `release` stops at the
first pending frame that is not before the bound (`Before`), and the loop of
`push` at the first output time that is not before the source (`Until`): both
are stated by what they find. The detector's history is the resampler's state; what it measures of a pair (a difference of
thumbnails, a correlation) comes with the source.

### MotionSearch and PairFrames

The interpolator copies planes into buffers with a replicated border and then
reads without clipping. `MotionSearch` says where: which blocks the search
visits in which order, which neighbours' vectors it starts from, which windows
it compares, which it blends with which weights, and in how many bits. Costs are
data: of two vectors either may be the better. That nothing leaves its buffer is
arithmetic over every frame size, so the module has no run; it is proved.
`PairFrames` is the entry point for two tensors: phases, layouts, strides and
slots.

## 3. Runs

| Run | Question | Instance | Distinct states |
|---|---|---|---|
| `cloud` | is the buffer honest, does FFmpeg see a plain source, does every callback return? | 4 bytes, 3 readers, 2 faults, reads of 2 and 3, seeks with an invalid one | 108 k |
| `cloud_stall` | does a read stall only after a fault? (no) | 6 bytes, 2 readers, no faults | stops at the violation |
| `cloud_close` | does fetching end when the input is closed? (no) | same | same |
| `python_calls` | one client per configuration, results as asked, every call returns? | 2 threads, 3 calls, 5 requests, 1 assignment, 2 configurations and GCS | 350 k |
| `output_buffer` | do views survive growth, trim and every order of dropping? | 2 rows growing to 6 in at most 3 growths | 5 k |
| `decode_pipeline` | is the plan enough, and does every stream get its window, in order? | 4 files, 7 headers of each, 11 requests, both paths | 82 k |
| `pipeline_end` | are rows from past the end dropped? (no) | one late stream, direct path | stops at the violation |
| `video_path` | does every combination of options give frames that are accepted, of the planned size and with the right colours? | sizes, formats, tags, turns, rates, dtypes and modes combined, some tags that nothing converts by; 3 frames on the direct ways | 519 k |
| `cli_output` | does the output keep to its slots, growth and all? | 4 frames of 8 timestamps and 3 durations, 2 rows planned, limit 7 | 2.1 M |
| `demux_fixup` | are jumps corrected, and nothing else? | 4 packets of 3 timestamps or none | 168 k |
| `audio_align` | does each sample land at its time? | 4 frames of 3 samples, 5 steps each, 4 capacities, windows, other streams | 482 k |
| `resampler` | are timing, pairs, caches and cuts right? | 5 sources of 5 timestamps, 2 rates, both syntheses, 5 kinds of pairs | 2.1 M |

Each property is stated above its definition. The ones that carry most:

* **Cloud reader.** `CoverageIsHonest` (a reader leaves no gap behind it) is
  why the read callback may wait for a reader it knows only by its range.
  `OpenedForMissing` says that what was found under the mutex still holds when
  a stream is opened for it, after it was released, a backoff slept and a
  request made.
  `ImplementsByteSource` is the refinement.
* **Python calls.** `OneClientPerConfig` relates the results of calls that
  built the same client at the same time; `CallReturns` includes the
  initialiser that blocks on the other cell; `ResultsAsAsked` holds plans and
  tensors to the request as it was, whatever was assigned since.
* **Output buffer.** `NoUseAfterFree`, `ViewsKeepTheirRow` and
  `SupersededIsFreed` hold together through each of the four steps of a growth
  and their failures, and for what the caller gets.
* **Pipeline.** `WindowDelivered` compares what is handed out with the frames
  of the window computed from the file alone (`CutShort` names the frames a packet
  without a dts takes from it, see section 6); `PlanSuffices` and `SilenceFits`
  hold the plan, made from a header, against what decoding then needs, whenever
  the header tells the truth; `Terminates` includes refused packets and full
  tensors.
* **Video path.** `FiltersAccept` (no filter is given a frame it refuses, if the
  stream's colours can be converted at all),
  `AsPlanned` (rows of the planned size, upright), `ColourAsAsked` (tone mapped
  and converted once, by the matrix of the source), `DirectAsGraph` (each row is read
  by its own frame's tags, as BT.601 where swscale does not know the matrix, and
  like the stream's as the graph would), `CudaRowsComplete` (rows handed out are
  finished, and of their own frame).
* **CLI output.** `NeverTooEarly` and `OutputKeepsUp` bound the drift of the
  rows from the source's time over any sequence of frames: per-frame
  thresholds do not add up.
* **Demuxer fixes.** `Continuous` (no jump is left, and a corrected one
  lands within half a tick and a microsecond of the prediction) and `KeepsPace` (nothing
  but jumps is changed, to a tick of rounding).
* **Audio.** `Spread` (the tensor is the layout, whatever order the moves
  take), `SoundOnTime` (the start returned is true, rounded fills do not add up).
* **Resampler.** `TimedAsFps`, `OfOnePair`, `ShowsItsTime`, and
  `CutsFromRecentMotion` for the detector.

**Why the bounds suffice.** In the cloud reader three readers are the least
with which two overlap while a third is respawned, and a chunk of up to two
bytes in an object of four can end before, at and behind each boundary (the
byte after next that stops a reader, the window, the end); two faults are what
it takes to spend a call's two respawns. In the Python calls two threads build
one client at once and a third call finds it, and one assignment falls before,
during or after each. Three growths give a
buffer that is superseded twice and a view older than both. In the pipeline one
file has B-frames and interleaved streams, one a late video, one a late sound;
headers are true in four ways, too short, too long and empty; windows fall on and
between frames. The video path has both outcomes of every condition in the
configuration, alone and combined with every other that its filters share,
and three frames are a change of shape or tags and a change back. Four frames suffice in `cli_output` for each pair of
decisions to follow each other in front of a last repeat, and its limit of seven
rows is hit in a growth and by the repeats. Four packets are two jumps, one of
them after the other's shift, and a packet on either side. Five sources are two
differences to remember, a third that pushes one out, and a step back to a
timestamp seen before with a pair after it.

`CHECK_DEADLOCK FALSE` is set for the cloud reader and the CLI output only: an
input that is closed and a decode that ended do nothing more.

## 4. Fairness

* Cloud reader: weak fairness of the callback's own steps and of each reader.
  The runtime schedules tasks, and every stream gives a chunk, an error or its
  end; a request that never answers is outside of `src/` and not excluded by
  any timeout in it. Nothing is assumed of FFmpeg: it need not call or close.
* Python calls: weak fairness of each thread's steps inside the client cache,
  which covers locks being granted and initialisers ending. Nothing is assumed
  of the interpreter's lock: a thread may hold it for ever.
* Pipeline: weak fairness of `Next`: one thread runs it and no call of it
  blocks, but in the callbacks above, which return.

## 5. Proofs

For every value of the constants, under the named assumptions only
(`CloudAssumption`, `CacheAssumption`, `RequestAssumption`, `BufferAssumption`,
`DemuxAssumption`, `CliAssumption`, `ResamplerAssumption`, `AlignAssumption`,
`VideoPathAssumption`: sizes, rates and ticks are positive, sets and elements differ,
requests and tags have the fields they have, pixel formats and display matrices are
those the code tells apart (`CaseAssumption`); `FineTicks`, that half a tick of a
stream's time base and a microsecond are within the CLI's thresholds, which holds
from 6 ticks a second on; and `PipelineAssumption`, which says what a file is: every packet has a pts, some
have a dts, which is after neither its own pts nor that of a packet still to come in
the stream, no pts comes twice in a stream, and never more than
`Reorder` frames are decoded ahead of one shown earlier. It also says that a request
names streams of the kind it asks for, which the code leaves to its caller):

* `CloudReaderProofs`. The invariant is `TypeInv /\ BufferInv /\ CallInv`.
  Types need two strengthenings: a task is at the offset its stream delivers
  (`ReaderShape`), and only a stalled read knows positions (`CallShape`).
  `MarkedIsContent` follows from a chunk writing the object's bytes where they
  belong; `CoverageIsHonest` from the task passing exactly what it marks.
  `OpenedForMissing` is of the call's own position, which no reader moves.
  `RespawnsAdvance` needs `RespawnPrefix` -- all before the last respawn is
  present -- because marked bytes are never lost. With the invariant every step
  is shown to be a step of `ByteSource` or a stutter (`Refinement`).
* `CloudReaderProofs`, the memory reader. The same refinement for the reader over
  bytes in memory (`MemoryIsASource`); the invariant is that the position is inside.
* `PythonCallsProofs`, the client cache. `OneClientPerConfig` is inductive with four facts: only
  a thread about to insert holds a client (`Holding`), what was cached when a
  call began still is (`CacheKept`), every client comes from one build and is
  in one place (`Distinct`), and whoever runs an initialiser is the one its cell
  names (`Initialising`). `ClientsNeverShared` says in addition that no client
  serves two configurations.
* `PythonCallsProofs`, the calls. The invariant (`PyInv`) is that what a call carries is
  what its request said (`Carried`), that a function has the lock until it gives
  it up and borrows the request only until then (`BorrowedUnderLock`), so that
  Python code, which assigns with the lock, finds the request free (`NobodyBorrows`);
  `StreamOrder` and `PlanOrder` are the layouts. A behaviour of `PythonCalls`
  is one of `ClientCache`, whose theorems it inherits.
* `OutputBufferProofs`. The output is always a tensor of the first storage
  (`TensorInv`), into which each growth swaps the newest buffer; `BufferInv` says
  which of the two storages has which buffer before and after the swap, `FreedInv`
  that a buffer is freed, once, exactly when no tensor has its storage. Any
  tensors that go together keep it (`LeavingFrees`), because no two storages
  share a buffer (`OwnersDiffer`). `RowInv` adds to `ViewsKeepTheirRow` that
  between copy and swap the views' rows are in both buffers.
* `DecodePipelineProofs`, the pipeline. The invariant follows a stream's frames on
  their way: coming (to be sent, or held by the decoder), in the graph, behind
  (collected or written). `OrderInv`: every frame behind is shown before those in the
  graph, and these, in order, before those coming. That a decoder keeps this up is
  `Reorder`'s meaning: with more frames in it than it reorders, the first of them
  is before all that are to be sent (`FileAssumption`). `CompleteInv`: a frame of
  the window is on its way, or delivered, or comes after all of a full tensor.
  A stream whose packets are no longer decoded has none left that belongs to the
  window (`FinishedInv`, from the dts), or was ended by a packet without one. `PhaseInv` says what the loops leave:
  between two packets no decoder has a frame to give but one whose tensor is full,
  so that a packet is refused by that one only, and never with nothing to do about
  it (`DecodeInvariant`). Of a sound's views, `DecodedInv` and `FreshInv` say that
  those returned and those collected tile the samples, and `GapInv` that what lies
  between the two is past the window: only then may `filter_frames_seek` drop
  views from the middle of what a later call goes on from. `WroteInv` relates
  `StreamStart` to the first sample over the calls in which nothing is written.
  Planning counts: `PlanInv` has every plan made before the first buffer.
* `VideoProofs`, the filter graphs. A chain of filters is read from each of its
  parts on (`FromHdr` to `FromFormat`, which `ChainIsItsParts` shows to be `Chain`),
  and for each part `At...` says what is true of a frame that has come there:
  its size against the planned one, what is left to turn, whether its chroma is
  whole or even where zimg comes next (`ZimgReady`), how far tone mapping is, and
  that its YUV was made with the matrix it is tagged with (`Readable`). One lemma per
  part shows that its filter takes the frame on or that the part is empty (`Taken`:
  not refused if the stream is `Convertible`, which leaves known matrices in both
  graphs, `MatricesKnown`);
  together they are `StageStep`, and `EmptyIsEnd` says that where no filter is
  left the frame is as planned. What the parts need of a configuration is
  `ConfigOk`, which each of the three configurations has (`OneGraph`,
  `GraphInFront`, `GraphBehind`). `GraphInv` puts the frame on one of these stages
  in every state, also where a filter refused it; `MatrixBetween` is what makes it carry over from the first graph
  to the second, which is configured from the frames that leave the first. Sizes
  are any naturals or not given, so that the aspect ratio's rounding, NVDEC's
  even sizes and the planned size agree for all of them (`SizePlanned`,
  `ScaledOnDevice`).
* `VideoProofs`, the direct ways of a video. `ScalerInv`: what swscale is
  told stays until the shape changes, so frames without tags, which tell it
  nothing, must find the defaults: they do, because tags do not come and go in the
  middle of a stream (`TagsStay`) and the HDR default is told to all or to none.
  `GpuInv`: a job on the decoder's surface or on the scratch planes finds its own
  frame there, or comes right behind the job that brings it; a row that is not of
  its frame yet has its job in the queue, which is empty when rows are handed out.
* `CliOutputProofs`, the demuxer's fixes. `PacketInv` compares what a packet was moved by with the
  shift in effect after it: equal, or one tick apart where it was at a jump,
  because the shifts are added in microseconds and the correction was rounded by
  itself (`RoundsApart`). `AnchorInv` carries that to the next packet that keeps
  its dts. `JumpLandsAsPredicted` is `Continuous` at a jump: half a tick for the correction,
  half a microsecond for the dts it was computed from and half a one for the fixed
  dts (`RescaleRounds`); half a tick alone is not enough.
* `CliOutputProofs`. Four properties and the refinement. A row's distance from its
  frame is bounded by each decision by itself, because a decision compares the
  frame with the next slot and not with the one before it; the bounds of the
  rounded thresholds are lemmas (`RoundBounds` and those after it). `LastKept` is
  what the code's `previous_row` means: the row that a gap repeats holds the last
  frame decoded, even a dropped one, or else the output has reached its limit,
  where a repeat fails. Without that last case it is not inductive: a frame
  dropped at the limit is not converted (`mod.rs:2736`). Then every step appends
  to the rows as a step of `FrameOutput` does, or fails (`Refinement`).
* `ResamplerProofs`. `TimedAsFps`, `OfOnePair` and `ShowsItsTime` are inductive
  together with four facts. `OpenInv`: the frames made end where the next begins,
  and the source to pair is the last that came. `DueInv`: while timestamps rise,
  what is made lies before the last source and the next does not, so that a copy
  of the last source is of the nearest. `CacheInv`: what is cached under a
  timestamp is of the latest source that had it -- this is why dropping the cache
  when timestamps go back is enough, and why a pair found in the cache is the
  pair that is asked for. `SourcesInv`: frames are of sources there are. A
  proportion is bounded on both sides (`ProportionBounds`), so that its rounding
  decides between copy and mix as `Nearest` allows (`NearerOfTwo`), and what is
  nearest of two is nearest of all that lie further out (`NearestIsNearest`).
  `BeforeInRow` and `RoundedMonotone` count what a release hands on.
* `AudioAlignProofs`. While boundaries are judged, `GapsInv` says of every boundary
  done that its frame moved by what `Silence` gave for it, the drift left by those
  before it included, and of the others that they lie past the last run; a run
  appended moves no sample before it. `RunsInv`: runs start with frames, in order,
  and never move less, so that samples keep their order (`PlacedOrder`) and
  `spread_samples` accepts them (`RunsSorted`). While runs move, `Between` holds:
  what lies before the run is where it was, and what lies after it is final.
  Views are picked by rank; `NthFacts` says of that what the loop does, all of
  them, in order. A view moves as one (`SampleInView`), because no run starts inside
  a frame. `Filled` is the rounding: what is filled leads to within half a sample of
  the timestamp if the drift is within the threshold, however many gaps came
  before, and to within half a sample of the gap's own length if it is past it.
  Before the start of the sound halves are rounded the other way, by up to a
  sample more (`less` in `ResumesOnTime`).
* `VideoProofs`, the interpolator. `SearchSafe` is an invariant of the search: the vectors
  of the field are in range, those a block starts from belong to blocks done
  before it or to an earlier field, and the windows compared are in the border's
  reach (`RowsBorrowed`, `BufferHasRows`, `FillReadsInside`). The rest is
  arithmetic for every size and phase: `CompensationInside`, `EverySampleCovered`
  and `WeightsSum` (the windows over a sample, and their weights, which sum up to
  256), `MixFits` and `BlendFits` (16 bits are enough). Divisions are by
  constants, so each lemma is a case per block size; products of two variables
  are bounded by `TimesMonotone` first. `PhaseInside`, `SamplesInside` and `SlotsAreFrames` are
  the entry point for two tensors.

What is only model-checked, and why:

* the liveness properties, and `SeekPrimes`, which speaks of enabled steps;
* `CutsFromRecentMotion` of the resampler: the differences that count are
  selected from a history of any length, by a library operator defined by
  recursion;
* the pipeline: `PlanSuffices` and `SilenceFits` compare the plan with the number
  of frames in the window and with the sum of their samples. That a file has so
  many frames in so much time is an induction over the file.

What is only proved: the memory reader, the interpolator and the pairwise entry
point.

## 6. What the runs found

* `cloud_stall`: a reader stops when the byte *after* the one it would write
  next is present (`io.rs:310-322`). Its own next byte may be missing; the next
  read over it stalls, waits a backoff, spends one of its respawns and makes
  another request although nothing had failed.
* `cloud_close`: the aborts meant to stop the readers are in the `Drop` of a
  context each reader keeps alive (`io.rs:735`), so fetching goes on after the
  input was closed.
* `pipeline_end`: frames from past the window's end are dropped from
  `decoded_frames` but not from the tensor (`mod.rs:546-547`); a stream that
  starts late has planned rows for them.

Seen while modelling, without a run of their own: the end of a window is judged
by a packet's dts because its pts may be past the end before frames of the
window are read (`mod.rs:522-525`), but a packet that has no dts is judged by its
pts (`mod.rs:526-530`), so one that is decoded ahead of its turn ends the stream and
the frames of the window still to be read are lost (`CutShort`; the file `Undated`
does it); a source that is HDR by its BT.2020 primaries alone gets a matrix from
`hdr_defaults` and no transfer (`mod.rs:4051-4062`), so that zimg has nothing to make
linear from (`mod.rs:4430`) and tone mapping it fails; a matrix that swscale does not
know is read as BT.601 without an error on the direct way and fails in the graph, as
the comment at `mod.rs:3647-3652` says; a seek repeated to a position
whose first chunk has not come opens a second stream there (`io.rs:652` looks
only before the position), and nothing bounds their number; a seek that fails to
open one has moved the position already; an object replaced between two range
requests would be mixed (no generation is compared); opening a stream in the seek callback has no timeout
and holds the mutex; a transient failure of the GCS client's initialiser is kept
for the life of the process; a format without discontinuities whose timestamps
do jump by more than 30 h has every later timestamp dropped, as in ffmpeg.

## 7. What is not modelled

Values of pixels and samples; what libswscale, zimg, NPP and FFmpeg's decoders
compute, beyond what `FilterChain` and the comments there say of them; URI and
filter strings, which are parsing and formatting; test utilities. The file
reader of `io.rs` is not used by the crate. Of the Python bindings:
constructors, `probe_asset`, which has no request object, and the tensors of
`interpolate_frames`, which a caller may write while it works. The conversion
of the frame rate inside the graph is `Resampler`'s and is not composed into the
pipeline, where a motion stage is one more graph that returns frames late; nor
is `DemuxFixup` in front of `CliOutput`. On the GPU path the code checks that a
frame is in `AV_PIX_FMT_CUDA` and not what format its surface holds; `VideoPath`
takes it for NV12. Display matrices that are no quarter turns, and sizes that
change inside a graph, are left out. In the motion search, that the refinement
ends is not claimed: it depends on costs that fall.

Within the modules: sizes of integers (`i64` timestamps of real files stay far
from overflow, byte sizes are checked multiplications), the content of frames,
the wording of errors, HTTP and its retries below `open_cloud_stream`, a second
video stream (there is at most one), and, in the resampler, the allocation of
frames.

## 8. Plan

In order; the first items are done.

1. Cloud reader with its abstract source, proofs. *Done.*
2. CLI output against `FrameOutput`. *Done.*
3. Client cache, proofs. *Done.*
4. Output buffer, pipeline, audio alignment. *Done.*
5. Resampler and demuxer fixes. *Done.*
6. Planning in front of the pipeline, the scene-cut detector inside the
   resampler. *Done.*
7. Filter chains, direct ways and the GPU's queue. *Done.*
8. Motion interpolator and pairwise entry point, proved. *Done.*
9. Python's calls over the client cache; the memory reader. *Done.*
10. `DemuxFixup` in front of `CliOutput`: a jump in the source must not become a
    run of repeats.
11. Output buffer and demuxer fixes, proved. *Done.*
12. CLI output with its refinement, resampler, and assignments of Python's requests,
    proved. *Done.*
13. Audio alignment, proved. *Done.*
14. Decode pipeline, filter graphs and the direct ways of a video, proved. *Done.*
