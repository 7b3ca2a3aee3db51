------------------------------ MODULE MCVideoPath ------------------------------
(***************************************************************************)
(* Every combination of a size, a rate conversion, a colour conversion and *)
(* an HDR mode asked for, of streams of even and odd sizes, every          *)
(* subsampling, depth and tagging, upright and turned; then tags that      *)
(* nothing converts by, each display matrix, FFmpeg without zscale, and    *)
(* GPU output, with fewer of the rest.                                     *)
(* Rates are in thousandths of a frame per 1.001 s.                        *)
(***************************************************************************)
EXTENDS VideoPath

Request(size, conversion, colour, hdrMode, autorotate, hw, device) ==
  [width |-> size[1], height |-> size[2], rate |-> conversion[1], fps |-> conversion[2],
   dtype |-> colour[1], conversion |-> colour[2], hdrMode |-> hdrMode,
   autorotate |-> autorotate, hw |-> hw, device |-> device]
Stream(size, format, colour, display) ==
  [w |-> size[1], h |-> size[2], format |-> format, matrix |-> colour[1],
   primaries |-> colour[2], trc |-> colour[3], display |-> display, rate |-> 30030]

Sizes       == {<<64, 36>>, <<65, 35>>}
Asked       == {<<None, None>>, <<33, None>>, <<None, 20>>, <<32, 16>>}
Conversions == {<<None, "nearest">>, <<24024, "nearest">>, <<24024, "blend">>,
                <<24024, "motion">>, <<30000, "motion">>}
Colours     == {<<"uint8", None>>, <<"uint8", "accurate">>, <<"float32", None>>}
YuvFormats  == {Yuv(<<1, 1>>, FALSE, FALSE), Yuv(<<1, 1>>, TRUE, FALSE), Yuv(<<1, 1>>, FALSE, TRUE),
                Yuv(<<1, 0>>, FALSE, FALSE), Yuv(Whole, FALSE, FALSE)}
Tagging     == {<<None, None, None>>, <<"bt709", "bt709", "bt709">>, <<None, None, "pq">>,
                <<"bt2020nc", "bt2020", "pq">>, <<"bt2020nc", None, "pq">>, <<"bt2020nc", "bt2020", "bt709">>}
Doubtful    == {<<"bt2020nc", "bt2020", None>>, <<None, "bt2020", None>>, <<"ycgco", None, None>>,
                <<"bt2020c", "bt2020", "pq">>}
Plain       == Yuv(<<1, 1>>, FALSE, FALSE)

YuvStreams(displays) ==
  {Stream(size, format, colour, display) :
     size \in Sizes, format \in YuvFormats, colour \in Tagging, display \in displays}
OtherStreams(displays) ==
  {Stream(size, format, <<"gbr", None, None>>, display) :
     size \in Sizes, format \in {Gray, Rgb("rgb24")}, display \in displays}

Case(r, s, z) == [request |-> r, stream |-> s, zscale |-> z]

OnCpu ==
  {Case(Request(size, conversion, colour, mode, of.display # Upright, "unset", FALSE),
        of, TRUE) :
     size \in Asked, conversion \in Conversions, colour \in Colours,
     mode \in {"tonemap", "raw"},
     of \in YuvStreams({Upright, Turn["clock"]}) \cup OtherStreams({Upright, Turn["clock"]})}
OnNvdec ==
  {Case(Request(size, conversion, colour, "tonemap", of.display # Upright, "yes", FALSE),
        of, TRUE) :
     size \in Asked, conversion \in Conversions, colour \in Colours,
     of \in {s \in YuvStreams({Upright, Turn["clock"]}) : s.format = Plain}}
EachDisplay ==
  {Case(Request(size, conversion, <<"uint8", None>>, "tonemap", autorotate, "unset", FALSE),
        Stream(<<64, 36>>, Plain, <<None, None, None>>, display), TRUE) :
     size \in Asked, conversion \in Conversions, autorotate \in BOOLEAN,
     display \in DisplayMatrices}
WithoutZscale ==
  {Case(Request(size, <<None, "nearest">>, colour, mode, FALSE, "unset", FALSE), of, FALSE) :
     size \in Asked, colour \in Colours, mode \in {"tonemap", "raw"},
     of \in {s \in YuvStreams({Upright}) : s.format = Plain}}
(* Tags that swscale or zimg cannot convert by, and uneven chroma.         *)
Doubted ==
  {Case(Request(size, conversion, colour, mode, of.display # Upright, "unset", FALSE), of, TRUE) :
     size \in {<<None, None>>, <<33, None>>}, conversion \in Conversions, colour \in Colours,
     mode \in {"tonemap", "raw"},
     of \in {Stream(<<64, 36>>, format, tags, display) :
               format \in {Plain, Yuv(<<0, 1>>, FALSE, FALSE), Yuv(<<2, 0>>, FALSE, FALSE)},
               tags \in Doubtful \cup {<<None, None, None>>},
               display \in {Upright, Turn["clock"]}}}
OnDevice ==
  {Case(Request(size, conversion, colour, "raw", autorotate, hw, TRUE), of, TRUE) :
     size \in Asked \cup {<<33, 16>>, <<64, 36>>}, conversion \in {<<None, "nearest">>, <<24024, "nearest">>},
     colour \in Colours, autorotate \in BOOLEAN, hw \in {"unset", "no"},
     of \in {s \in YuvStreams({Upright, Turn["clock"]}) : s.format = Plain}}

MCCases == OnCpu \cup Doubted \cup OnNvdec \cup EachDisplay \cup WithoutZscale \cup OnDevice

MCShapes == {[w |-> 64, h |-> 36, format |-> Plain], [w |-> 32, h |-> 16, format |-> Plain],
             [w |-> 64, h |-> 36, format |-> Yuv(<<1, 1>>, FALSE, TRUE)]}
MCTags == {[matrix |-> None, full |-> None], [matrix |-> None, full |-> TRUE],
           [matrix |-> "bt709", full |-> FALSE], [matrix |-> "bt2020nc", full |-> FALSE],
           [matrix |-> "ycgco", full |-> FALSE]}
===============================================================================
