---------------------------- MODULE MCTCPServer -------------------------------
(* Instances of TCPServer for TLC: one or two connections, up to two I/O loops. *)
EXTENDS TCPServer

CONSTANTS c1, c2, io1, io2

OneConn == {c1}
TwoConns == {c1, c2}
AnyPool == {<<>>, <<io1>>, <<io1, io2>>}
SmallPool == {<<>>, <<io1>>}
OneLoop == {<<io1>>}
===============================================================================
