---------------------------- MODULE MCOutputBuffer ----------------------------
(* Two planned rows, up to six, three growths.                             *)
EXTENDS OutputBuffer
===============================================================================
