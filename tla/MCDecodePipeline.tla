--------------------------- MODULE MCDecodePipeline ---------------------------
(* A video stream with a frame every 2 units of time and B-frames, a sound *)
(* stream of two-sample frames, and a stream that is not selected; packets *)
(* without a dts, in the order of their frames and (Undated) not.          *)
EXTENDS DecodePipeline

CONSTANTS v, a, other, none, best

Packet(s, pts, dts) == [stream |-> s, pts |-> pts, dts |-> dts]

Together ==
  << Packet(v, 0, 0), Packet(a, 0, 0), Packet(v, 6, 2), Packet(v, 2, 2), Packet(other, 2, 2),
     Packet(a, 4, 4), Packet(v, 4, 4), Packet(a, 8, 8), Packet(v, 10, 8), Packet(v, 8, 8) >>
LateVideo == << Packet(a, 0, 0), Packet(a, 4, none), Packet(v, 5, none), Packet(v, 7, none) >>
LateSound == << Packet(v, 0, 0), Packet(v, 2, 2), Packet(a, 3, 3), Packet(v, 4, 4),
                Packet(a, 7, 7) >>
Undated   == << Packet(v, 0, 0), Packet(a, 0, none), Packet(v, 8, none), Packet(v, 2, none),
                Packet(v, 4, 3), Packet(v, 6, none) >>
MCFiles   == {Together, LateVideo, LateSound, Undated}
MCAudio   == {a}
MCDirects == {{}, {v, a}}
MCCliRate == <<25, 50>>
MCRates   == [s \in {v, a} |-> <<1, 2>>]
MCBytes   == [s \in {v, a} |-> IF s = v THEN 3 ELSE 1]

(* What containers say: the durations of the streams or of the whole, or   *)
(* none; a frame rate or a number of frames; too short, too long, or, as   *)
(* in an image, nothing.                                                   *)
Stamps(file, s) == {file[i].pts : i \in {j \in DOMAIN file : file[j].stream = s}}
Long(s)  == IF s = a THEN 4 ELSE 2
Lasts(file, s) == Max(Stamps(file, s)) + Long(s) - Min(Stamps(file, s))
Whole(file) == Max({Max(Stamps(file, s)) + Long(s) : s \in {v, a}})
                 - Min({Min(Stamps(file, s)) : s \in {v, a}})

Said(file, span(_), whole, rated) ==
  [begin |-> Min({Min(Stamps(file, s)) : s \in {v, a}}), span |-> whole,
   jumps |-> rated, video |-> v, audio |-> a,
   streams |-> [s \in {v, a} |->
     [begin |-> Min(Stamps(file, s)), span |-> span(s),
      rate |-> IF rated \/ s = a THEN MCRates[s] ELSE none,
      count |-> Cardinality(Stamps(file, s))]]]

MCHeaders(file) ==
  { Said(file, LAMBDA s : Lasts(file, s), Whole(file), TRUE),
    Said(file, LAMBDA s : Lasts(file, s), Whole(file), FALSE),
    Said(file, LAMBDA s : none, Whole(file), TRUE),
    Said(file, LAMBDA s : Lasts(file, s) - 3, none, TRUE),
    Said(file, LAMBDA s : Lasts(file, s) + 6, none, TRUE),
    Said(file, LAMBDA s : none, none, FALSE),
    [Said(file, LAMBDA s : none, Whole(file), TRUE) EXCEPT !.audio = none] }

Window(from, to) == [start |-> from, end |-> to]
Request(video, audio, limit, cli, from, to) ==
  [video |-> video, audio |-> audio, rate |-> none, cli |-> cli, limit |-> limit,
   window |-> Window(from, to)]
MCRequests ==
  { Request(best, <<best, a>>, none, FALSE, none, none),
    Request(best, <<best, a>>, none, FALSE, 3, none),
    Request(best, <<best, a>>, none, FALSE, none, 5),
    Request(best, <<best, a>>, none, FALSE, 5, 8),
    Request(best, <<best, a>>, none, FALSE, 5, 3),
    Request(v, <<a>>, 12, FALSE, none, none),
    Request(v, <<>>, none, FALSE, none, 7),
    Request(none, <<a>>, none, FALSE, none, none),
    Request(none, <<>>, none, FALSE, none, none),
    Request(v, <<>>, none, TRUE, none, none),
    Request(v, <<>>, none, TRUE, 3, none) }

(* A video of one frame per unit of time that starts at time 2: a window   *)
(* that ends at 4 is planned with four rows.                               *)
LateFiles ==
  { << Packet(v, 2, 0), Packet(v, 4, 1), Packet(v, 3, 2), Packet(v, 6, 3), Packet(v, 5, 4),
       Packet(v, 7, 5), Packet(v, 8, 6) >> }
LateRates         == [s \in {v} |-> <<1, 1>>]
LateBytes         == [s \in {v} |-> 3]
LateHeaders(file) ==
  { [begin |-> 2, span |-> 7, jumps |-> FALSE, video |-> v, audio |-> none,
     streams |-> [s \in {v} |-> [begin |-> 2, span |-> 7, rate |-> <<1, 1>>, count |-> 7]]] }
LateStreams  == {v}
LateAudio    == {}
LateDirects  == {{v}}
LateRequests == {Request(v, <<>>, none, FALSE, none, 4)}
===============================================================================
