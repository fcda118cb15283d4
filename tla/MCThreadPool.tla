----------------------------- MODULE MCThreadPool -----------------------------
(* Two workers, two other threads and five tasks, one of which runs another. *)
EXTENDS ThreadPool

CONSTANTS k1, k5

MCChild == [k \in Task |-> IF k = k1 THEN k5 ELSE NoTask]
===============================================================================
