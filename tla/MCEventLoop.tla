----------------------------- MODULE MCEventLoop ------------------------------
(* EventLoop with two foreign threads and two or three functors.            *)
EXTENDS EventLoop

CONSTANTS f1, f2, t1, t2, t3

MCForeign == {f1, f2}
MCTask == {t1, t2, t3}
MCTask2 == {t1, t2}
===============================================================================
