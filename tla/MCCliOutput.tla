------------------------------ MODULE MCCliOutput ------------------------------
(* Small instances of CliOutput: frames on time, early, late, far ahead,   *)
(* going back and without a timestamp, times in twentieths of a slot.      *)
EXTENDS CliOutput

MCTimestamps == {-40, 0, 20, 30, 46, 90, 150, NoPts}
MCDurations  == {0, 4, 30}
===============================================================================
