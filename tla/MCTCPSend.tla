------------------------------ MODULE MCTCPSend -------------------------------
(* TCPSend with the loop and one foreign thread, which send two bytes each.  *)
EXTENDS TCPSend

CONSTANT f1

MCForeign == {f1}
===============================================================================
