---------------------------- MODULE MCEventLoop ----------------------------
(* Two posting threads besides the loop thread; each posts two functors,  *)
(* the loop thread posts two from handlers or functors, and the io        *)
(* channel becomes readable twice.                                        *)
EXTENDS EventLoop

CONSTANTS t1, t2, loop

MCThreads == {t1, t2}
=============================================================================
