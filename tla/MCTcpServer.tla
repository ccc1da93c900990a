---------------------------- MODULE MCTcpServer ----------------------------
(* A server without I/O threads and one with two (the echo example's), three *)
(* peers and three descriptors: the idle fd and two connections, so the    *)
(* third peer meets EMFILE while both connections are open.               *)
EXTENDS TcpServer

MCNThreads == {0, 2}
=============================================================================
