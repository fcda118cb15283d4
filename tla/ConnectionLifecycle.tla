------------------------- MODULE ConnectionLifecycle --------------------------
(***************************************************************************)
(* What a TCPServer promises the user of its connections: each accepted    *)
(* connection is announced once as established and once as disconnected,   *)
(* in this order, and its object is destroyed afterwards.  TCPServer.tla   *)
(* is shown to implement this specification.                               *)
(***************************************************************************)
CONSTANT Conn           \* the connections a peer may open

VARIABLE stage          \* how far each connection has come

Stage == {"none", "accepted", "up", "down", "gone"}

TypeOK == stage \in [Conn -> Stage]

Init == stage = [c \in Conn |-> "none"]

Move(c, from, to) ==
    /\ stage[c] = from
    /\ stage' = [stage EXCEPT ![c] = to]

Accept(c)     == Move(c, "none", "accepted")
Announce(c)   == Move(c, "accepted", "up")
Disconnect(c) == Move(c, "up", "down")

\* One step may release the last references to several connections.
Destroy(s) ==
    /\ s # {}
    /\ \A c \in s : stage[c] = "down"
    /\ stage' = [c \in Conn |-> IF c \in s THEN "gone" ELSE stage[c]]

\* The server accepts a connection and announces it within one callback when the
\* connection shares the loop of the acceptor.
AcceptAndAnnounce(c) == Move(c, "none", "up")

Next ==
    \/ \E c \in Conn :
          Accept(c) \/ Announce(c) \/ AcceptAndAnnounce(c) \/ Disconnect(c)
    \/ \E s \in SUBSET Conn : Destroy(s)

\* An accepted connection is announced, and a disconnected one is destroyed;
\* nobody has to connect or to disconnect.
Spec ==
    /\ Init
    /\ [][Next]_stage
    /\ \A c \in Conn :
          /\ WF_stage(Announce(c))
          /\ WF_stage(\E s \in SUBSET Conn : c \in s /\ Destroy(s))
===============================================================================
