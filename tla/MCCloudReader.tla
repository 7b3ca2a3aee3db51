----------------------------- MODULE MCCloudReader -----------------------------
(* Small instances of CloudReader: an object whose bytes all differ and    *)
(* differ from the zeros the buffer starts with.                           *)
EXTENDS CloudReader, TLC

MCContent     == [i \in 0 .. ObjSize - 1 |-> i + 1]
MCOffsets     == {0, 3}
MCSymmetry    == Permutations(ReaderId)
===============================================================================
