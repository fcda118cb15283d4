------------------------------ MODULE Connector -------------------------------
(***************************************************************************)
(* The Connector of a client (slite/Connector.cc): its state and what its  *)
(* functions do to it.  They run on the loop's thread, but for start() and *)
(* stop(), and TCPClient.tla says when.                                    *)
(*                                                                         *)
(* A handler may call several of these functions; each operator gives the  *)
(* effect of one whole path through them.  An assertion that fails is      *)
(* recorded in `fault` and the program goes on, as it does when built with *)
(* NDEBUG; a null or dangling pointer is recorded too.  The delay between  *)
(* attempts is left out: a timer fires at any time after it is set.        *)
(***************************************************************************)
EXTENDS Naturals, Sequences, SequencesExt

VARIABLES
    connect,    \* connect_
    state,      \* state_
    channel,    \* connectChannel_: null, registered in epoll, or removed from it
    timers,     \* the timers that will run startInLoop()
    tasks,      \* the functors in the loop's queue
    fault       \* what went wrong, if anything

connectorVars == <<connect, state, channel, timers, tasks, fault>>

\* resetChannel() and stopInLoop() of the connector, startInLoop() of a foreign
\* start(), and connectDestroyed() of a connection.
Functor == {"reset", "stop", "start", "destroy"}

ConnectorTypeOK ==
    /\ connect \in BOOLEAN
    /\ state \in {"DISCONNECTED", "CONNECTING", "CONNECTED"}
    /\ channel \in {"null", "watched", "removed"}
    /\ timers \in Nat
    /\ tasks \in Seq(Functor)
    /\ fault \in {"none", "assertion", "nullptr", "dangling"}

ConnectorInit ==
    /\ connect = FALSE
    /\ state = "DISCONNECTED"
    /\ channel = "null"
    /\ timers = 0
    /\ tasks = <<>>
    /\ fault = "none"

-------------------------------------------------------------------------------
\* removeChannel(), behind the functors of `queue`.
RemoveChannel(queue) ==
    /\ channel' = "removed"
    /\ tasks' = Append(queue, "reset")

\* Mutant: the state is not set.
RetryKeepsState(left) == UNCHANGED state /\ timers' = left + 1

\* Mutant: no timer is set.
RetryNever(left) == state' = "DISCONNECTED" /\ timers' = left

\* retry() while connect_ is set; `left` are the timers there are.
Retry(left) == state' = "DISCONNECTED" /\ timers' = left + 1

\* connect(): connecting(), or retry() if ::connect() fails at once.
Attempt(left) ==
    \/ /\ state' = "CONNECTING"
       /\ channel' = "watched"
       /\ timers' = left
       /\ fault' = IF channel = "null" THEN fault ELSE "assertion"
    \/ /\ Retry(left)
       /\ UNCHANGED <<channel, fault>>

StartInLoop(left) ==
    \/ connect /\ Attempt(left)
    \/ ~connect /\ timers' = left /\ UNCHANGED <<state, channel, fault>>

\* restart() sets connect_ again, whoever has called stop().
Restart == connect' = TRUE /\ Attempt(timers)

\* stopInLoop(): a connector that is still connecting loses its channel, and its
\* state unless it was restarted meanwhile.
StopInLoop ==
    \/ /\ state # "CONNECTING"
       /\ UNCHANGED <<state, channel, timers, tasks, fault>>
    \/ /\ state = "CONNECTING" /\ channel = "null"
       /\ fault' = "nullptr"
       /\ UNCHANGED <<state, channel, timers, tasks>>
    \/ /\ state = "CONNECTING" /\ channel # "null"
       /\ RemoveChannel(tasks)
       /\ IF connect THEN Retry(timers) ELSE UNCHANGED <<state, timers>>
       /\ UNCHANGED fault

\* resetChannel()
ResetChannel == channel' = "null" /\ UNCHANGED <<state, timers, fault>>
===============================================================================
