------------------------------ MODULE MCTCPClient -----------------------------
(* connect() is called once, and stop() once, anywhere. *)
EXTENDS TCPClient
===============================================================================
