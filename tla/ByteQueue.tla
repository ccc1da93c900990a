---------------------------- MODULE ByteQueue ----------------------------
(***************************************************************************)
(* What a mini_muduo Buffer promises its users: its readable bytes are a   *)
(* queue.  `call` is the operation just performed and the bytes it took or *)
(* gave: an append (append, readFd) puts them at the back, a retrieve      *)
(* (retrieve, retrieveAsString, retrieveAll) hands out bytes from the      *)
(* front, a prepend puts them at the front, an unwrite takes them back     *)
(* from the end, and shrink leaves the bytes as they are.                  *)
(***************************************************************************)
EXTENDS Sequences

VARIABLES q, call

Init == q = <<>>

AppendBytes  == call'.op = "append"  /\ q' = q \o call'.data
RetrieveBytes == call'.op = "retrieve" /\ q = call'.data \o q'
PrependBytes == call'.op = "prepend" /\ q' = call'.data \o q
UnwriteBytes == call'.op = "unwrite" /\ q = q' \o call'.data

Next == AppendBytes \/ RetrieveBytes \/ PrependBytes \/ UnwriteBytes

Spec == Init /\ [][Next]_q
=============================================================================
