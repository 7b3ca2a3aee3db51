------------------------------ MODULE ByteSource ------------------------------
(***************************************************************************)
(* What the custom I/O context of src/decoder/io.rs promises to its one    *)
(* caller, the FFmpeg thread: a seekable source of Size fixed bytes.  A    *)
(* read hands over exactly the bytes at the current position, all that     *)
(* were asked for unless the end is nearer, and advances past them; the    *)
(* end of file is reported at the end and nowhere else; a call that fails  *)
(* hands nothing over.  How the bytes arrive does not appear here.         *)
(***************************************************************************)
EXTENDS Integers

CONSTANTS
  Size,       \* the number of bytes of the object
  Content,    \* its bytes, [0..Size-1 -> Byte]
  ReadSizes   \* the buffer lengths the caller reads with

VARIABLES
  position,   \* where the next read starts
  reply       \* the answer of the last call, or the call being served

vars == <<position, reply>>

Serving  == {"reading", "seeking"}
Right(n) == IF position + n < Size THEN position + n ELSE Size

Init ==
  /\ position = 0
  /\ reply = [kind |-> "ready"]

(* The caller asks for n bytes.                                            *)
Read(n) ==
  /\ reply.kind \notin Serving
  /\ reply' = [kind |-> "reading", want |-> n]
  /\ UNCHANGED position

(* The bytes at the position, as many as were asked for and exist.         *)
Deliver ==
  /\ reply.kind = "reading"
  /\ position < Size
  /\ reply' = [kind |-> "bytes", at |-> position,
               bytes |-> [i \in position .. Right(reply.want) - 1 |-> Content[i]]]
  /\ position' = Right(reply.want)

EndOfFile ==
  /\ reply.kind = "reading"
  /\ position = Size
  /\ reply' = [kind |-> "eof"]
  /\ UNCHANGED position

(* A seek answered at once: the position it was asked for, held inside the *)
(* object.                                                                 *)
Seek ==
  /\ reply.kind \notin Serving
  /\ reply'.kind = "seeked"
  /\ position' = IF reply'.to \in 0 .. Size THEN reply'.to ELSE Size

(* The caller asks for the size.                                           *)
AskSize ==
  /\ reply.kind \notin Serving
  /\ reply' = [kind |-> "size", to |-> Size]
  /\ UNCHANGED position

(* A seek that has to fetch first: it moves, and answers later.            *)
SeekBegin ==
  /\ reply.kind \notin Serving
  /\ position' \in 0 .. Size - 1
  /\ reply' = [kind |-> "seeking", to |-> position']

SeekEnd ==
  /\ reply.kind = "seeking"
  /\ reply' = [kind |-> "seeked", to |-> reply.to]
  /\ UNCHANGED position

(* Any call may fail; the position is then where the call had put it.      *)
Fail ==
  /\ reply' = [kind |-> "error"]
  /\ UNCHANGED position

Next ==
  \/ \E n \in ReadSizes : Read(n)
  \/ Deliver
  \/ EndOfFile
  \/ Seek
  \/ AskSize
  \/ SeekBegin
  \/ SeekEnd
  \/ Fail

Spec == Init /\ [][Next]_vars
===============================================================================
