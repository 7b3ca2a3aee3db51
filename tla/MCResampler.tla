------------------------------ MODULE MCResampler ------------------------------
(***************************************************************************)
(* The resampler on up to five source frames: a rate that drops frames and *)
(* one that makes several between two, timestamps that are on, off and     *)
(* near the output grid and that may stand still or go back.  Pairs are    *)
(* repeated frames, a little motion, another shot, a jump in one shot, and *)
(* a jump in frames too small to tell.                                     *)
(***************************************************************************)
EXTENDS Resampler

MCRates == {[in |-> 3, out |-> 2], [in |-> 2, out |-> 5]}
MCPairs == {[diff |-> 1, ncc |-> 100], [diff |-> 12, ncc |-> 90], [diff |-> 70, ncc |-> 40],
            [diff |-> 90, ncc |-> 90], [diff |-> 90, ncc |-> None]}
===============================================================================
