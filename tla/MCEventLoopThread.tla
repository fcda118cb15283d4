--------------------------- MODULE MCEventLoopThread --------------------------
(* One owner, the loop's thread and two functors.                           *)
EXTENDS EventLoopThread

CONSTANTS o, t1, t2

MCForeign == {o}
MCTask == {t1, t2}
===============================================================================
