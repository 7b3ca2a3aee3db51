------------------------------ MODULE MemoryReader ------------------------------
(***************************************************************************)
(* The I/O context over bytes that are in memory (io.rs,                   *)
(* memory_avio_reader): the other implementation of ByteSource.  It never  *)
(* waits, and it refuses a seek that the cloud reader would hold inside    *)
(* the object.                                                             *)
(***************************************************************************)
EXTENDS Integers

CONSTANTS
  Size,         \* the number of bytes
  Content,      \* the bytes
  ReadSizes,    \* the buffer lengths FFmpeg reads with
  SeekOffsets   \* the offsets it seeks by

VARIABLES
  position,   \* the read position in the state both callbacks share
  reply       \* the answer of the last call, or the read being served

vars == <<position, reply>>

Init ==
  /\ position = 0
  /\ reply = [kind |-> "ready"]

(* FFmpeg calls the read callback with a buffer of n bytes.                *)
ReadCall(n) ==
  /\ reply.kind # "reading"
  /\ reply' = [kind |-> "reading", want |-> n]
  /\ UNCHANGED position

Right == IF Size <= position + reply.want THEN Size ELSE position + reply.want

ReadEof ==
  /\ reply.kind = "reading"
  /\ Right <= position
  /\ reply' = [kind |-> "eof"]
  /\ UNCHANGED position

ReadData ==
  /\ reply.kind = "reading"
  /\ Right > position
  /\ reply' = [kind |-> "bytes", at |-> position,
               bytes |-> [i \in position .. Right - 1 |-> Content[i]]]
  /\ position' = Right

(* The seek callback.                                                      *)
Target(whence, offset) ==
  CASE whence = "set" -> offset
    [] whence = "cur" -> position + offset
    [] whence = "end" -> Size + offset

SeekTo(whence, offset) ==
  /\ reply.kind # "reading"
  /\ Target(whence, offset) \in 0 .. Size
  /\ position' = Target(whence, offset)
  /\ reply' = [kind |-> "seeked", to |-> position']

SeekRefused(whence, offset) ==
  /\ reply.kind # "reading"
  /\ Target(whence, offset) \notin 0 .. Size
  /\ reply' = [kind |-> "error"]
  /\ UNCHANGED position

SeekSize ==
  /\ reply.kind # "reading"
  /\ reply' = [kind |-> "size", to |-> Size]
  /\ UNCHANGED position

Next ==
  \/ \E n \in ReadSizes : ReadCall(n)
  \/ ReadEof
  \/ ReadData
  \/ \E whence \in {"set", "cur", "end"}, offset \in SeekOffsets :
       SeekTo(whence, offset) \/ SeekRefused(whence, offset)
  \/ SeekSize

Spec == Init /\ [][Next]_vars
===============================================================================
