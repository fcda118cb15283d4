------------------------------- MODULE MCChannel ------------------------------
(* Two channels that use one descriptor in turn, and two timers.             *)
EXTENDS Channel

CONSTANTS c1, c2, t1, t2, none

MCChan == {c1, c2, t1, t2}
MCTimers == {t1, t2}
MCFd == {1, 2, 3}
MCFdOf == [c \in MCChan |->
             CASE c \in {c1, c2} -> 1 [] c = t1 -> 2 [] OTHER -> 3]
===============================================================================
