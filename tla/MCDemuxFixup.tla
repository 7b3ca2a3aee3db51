----------------------------- MODULE MCDemuxFixup -----------------------------
(***************************************************************************)
(* The packets of a stream whose dts run on, stand still, go back a little *)
(* or a lot and jump ahead, with and without durations, field rate and     *)
(* timestamps, in formats that may jump and formats that may not.  A tick  *)
(* is three microseconds and a third: both conversions round, both ways.   *)
(***************************************************************************)
EXTENDS DemuxFixup
MCInitial == {-3}
MCStamps == {0, 3, 20}
===============================================================================
