--------------------------- MODULE MCTcpConnection ---------------------------
(* One other thread u1 besides the I/O loop.  Messages of 2 bytes and a   *)
(* 1-byte socket buffer make every direct write partial, so outputBuf_,    *)
(* EWOULDBLOCK and the deferred shutdown all happen; two send()s per       *)
(* caller are enough to see one overtake or tear another.                  *)
EXTENDS TcpConnection

CONSTANTS u1, loop

MCUsers == {u1}
=============================================================================
