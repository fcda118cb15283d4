------------------------------- MODULE TCPClient ------------------------------
(***************************************************************************)
(* A TCPClient with its Connector and its connection on one loop           *)
(* (slite/TCPClient.cc).  An iteration of the loop handles the events that *)
(* epoll_wait() returned, in any order, and then the functors that are in  *)
(* its queue (EventLoop.tla).  connect() and stop() are called in a        *)
(* callback of the loop or on a foreign thread, where the store to         *)
(* connect_ and the push are two steps.  The client is destroyed on the    *)
(* loop's thread.                                                          *)
(***************************************************************************)
EXTENDS Connector, FiniteSets

CONSTANTS StartFrom,    \* "loop", "foreign": who may call connect() ...
          StopFrom,     \* ... and stop()
          MaxStarts,    \* how often
          MaxStops,
          DestroyAnywhere   \* is the client destroyed without regard to its connector?

ASSUME TCPClientAssumption ==
    /\ StartFrom \in SUBSET {"loop", "foreign"}
    /\ StopFrom \in SUBSET {"loop", "foreign"}
    /\ MaxStarts \in Nat /\ MaxStops \in Nat
    /\ DestroyAnywhere \in BOOLEAN

VARIABLES
    connection, \* connection_: null, established, or shut down by disconnect()
    phase,      \* what the loop does
    ready,      \* the events epoll_wait() has returned and that are not handled
    batch,      \* the functors doTask() has taken and not run
    alive,      \* has the client not been destroyed?
    caller,     \* what a foreign thread does next
    starts,     \* history: the calls of connect()
    stops       \* history: the calls of stop()

loopVars == <<phase, ready, batch>>
userVars == <<alive, caller, starts, stops>>
vars == <<connectorVars, connection, loopVars, userVars>>

TypeOK ==
    /\ ConnectorTypeOK
    /\ connection \in {"null", "up", "shut"}
    /\ phase \in {"poll", "events", "write", "tasks"}
    /\ ready \in SUBSET {"connector", "timer", "connection"}
    /\ batch \in Seq(Functor)
    /\ alive \in BOOLEAN
    /\ caller \in {"idle", "start", "stop"}
    /\ starts \in 0 .. MaxStarts
    /\ stops \in 0 .. MaxStops

\* The user may call connect() before the loop runs.
Init ==
    /\ ConnectorInit
    /\ connection = "null"
    /\ phase = "events"
    /\ ready = {}
    /\ batch = <<>>
    /\ alive = TRUE
    /\ caller = "idle"
    /\ starts = 0
    /\ stops = 0

-------------------------------------------------------------------------------
(* The loop.                                                                *)

Registered == {e \in {"connector", "timer", "connection"} :
    CASE e = "connector"  -> channel = "watched"
      [] e = "timer"      -> timers > 0
      [] e = "connection" -> connection # "null"}

\* epoll_wait() returns with some events, or for the wakeup only.  A timer of retry()
\* takes a second or more: the resetChannel() pushed before it has run by then.
Poll(events) ==
    /\ phase = "poll"
    /\ events # {} \/ tasks # <<>>
    /\ "timer" \in events => ~Contains(tasks, "reset")
    /\ ready' = events
    /\ phase' = "events"
    /\ UNCHANGED <<connectorVars, connection, batch, userVars>>

\* doTask() takes the queue when all events are handled.
TakeTasks ==
    /\ phase = "events"
    /\ ready = {}
    /\ batch' = tasks
    /\ tasks' = <<>>
    /\ phase' = "tasks"
    /\ UNCHANGED <<connect, state, channel, timers, fault, connection, ready, userVars>>

DoneTasks ==
    /\ phase = "tasks"
    /\ batch = <<>>
    /\ phase' = "poll"
    /\ UNCHANGED <<connectorVars, connection, ready, batch, userVars>>

RunTask ==
    /\ phase = "tasks"
    /\ batch # <<>>
    /\ batch' = Tail(batch)
    /\ CASE Head(batch) = "reset"   -> ResetChannel /\ UNCHANGED tasks
         [] Head(batch) = "stop"    -> StopInLoop
         [] Head(batch) = "start"   -> StartInLoop(timers) /\ UNCHANGED tasks
         [] Head(batch) = "destroy" -> UNCHANGED <<state, channel, timers, tasks, fault>>
    /\ UNCHANGED <<connect, connection, phase, ready, userVars>>

-------------------------------------------------------------------------------
(* The events.                                                              *)

\* handleWrite() hands the socket to newConnection() of the client, whose connection
\* replaces and destroys an older one.
NewConnection ==
    /\ RemoveChannel(tasks)
    /\ state' = "CONNECTED"
    /\ connection' = "up"
    /\ fault' = IF connection = "null" /\ alive THEN fault ELSE "dangling"
    /\ UNCHANGED <<connect, timers>>

HandleWrite ==
    \/ state = "CONNECTING" /\ NewConnection
    \/ state # "CONNECTING" /\ UNCHANGED <<connectorVars, connection>>

\* The connection is established: epoll reports EPOLLOUT.
Connected ==
    /\ phase = "events" /\ "connector" \in ready
    /\ ready' = ready \ {"connector"}
    /\ HandleWrite
    /\ UNCHANGED <<phase, batch, userVars>>

\* handleError() retries unless stop() was called.
HandleError ==
    \/ state = "CONNECTING" /\ connect /\ RemoveChannel(tasks) /\ Retry(timers)
    \/ state = "CONNECTING" /\ ~connect /\ RemoveChannel(tasks) /\ UNCHANGED <<state, timers>>
    \/ state # "CONNECTING" /\ UNCHANGED <<state, channel, timers, tasks>>

\* It has failed: epoll reports EPOLLERR and EPOLLOUT, and handleError() comes ...
Refused ==
    /\ phase = "events" /\ "connector" \in ready
    /\ ready' = ready \ {"connector"}
    /\ phase' = "write"
    /\ HandleError
    /\ UNCHANGED <<connect, fault, connection, batch, userVars>>

\* ... before handleWrite(), for which getSocketError() never tells of an error.
RefusedWrite ==
    /\ phase = "write"
    /\ phase' = "events"
    /\ HandleWrite
    /\ UNCHANGED <<ready, batch, userVars>>

TimerFires ==
    /\ phase = "events" /\ "timer" \in ready
    /\ ready' = ready \ {"timer"}
    /\ StartInLoop(timers - 1)
    /\ UNCHANGED <<connect, tasks, connection, phase, batch, userVars>>

\* Mutant: the destructor leaves the close callback as it was.
RemoveAlways ==
    /\ connection' = "null"
    /\ tasks' = Append(tasks, "destroy")
    /\ Restart

\* The close callback: removeConnection() of the client, or of namespace slite when the
\* client is gone.
RemoveConnection ==
    /\ connection' = "null"
    /\ tasks' = Append(tasks, "destroy")
    /\ \/ alive /\ Restart
       \/ ~alive /\ UNCHANGED <<connect, state, channel, timers, fault>>

\* The connection reads the end of the stream.
Disconnected ==
    /\ phase = "events" /\ "connection" \in ready
    /\ ready' = ready \ {"connection"}
    /\ RemoveConnection
    /\ UNCHANGED <<phase, batch, userVars>>

-------------------------------------------------------------------------------
(* The user.                                                                *)

InCallback == alive /\ phase \in {"events", "tasks"}

LoopStart ==
    /\ InCallback
    /\ "loop" \in StartFrom /\ starts < MaxStarts
    /\ starts' = starts + 1
    /\ connect' = TRUE
    /\ Attempt(timers)
    /\ UNCHANGED <<tasks, connection, loopVars, alive, caller, stops>>

LoopStop ==
    /\ InCallback
    /\ "loop" \in StopFrom /\ stops < MaxStops
    /\ stops' = stops + 1
    /\ connect' = FALSE
    /\ tasks' = Append(tasks, "stop")
    /\ UNCHANGED <<state, channel, timers, fault, connection, loopVars,
                   alive, caller, starts>>

ForeignStart ==
    /\ alive /\ caller = "idle"
    /\ "foreign" \in StartFrom /\ starts < MaxStarts
    /\ starts' = starts + 1
    /\ connect' = TRUE
    /\ caller' = "start"
    /\ UNCHANGED <<state, channel, timers, tasks, fault, connection, loopVars,
                   alive, stops>>

ForeignStop ==
    /\ alive /\ caller = "idle"
    /\ "foreign" \in StopFrom /\ stops < MaxStops
    /\ stops' = stops + 1
    /\ connect' = FALSE
    /\ caller' = "stop"
    /\ UNCHANGED <<state, channel, timers, tasks, fault, connection, loopVars,
                   alive, starts>>

ForeignPushes ==
    /\ caller # "idle"
    /\ tasks' = Append(tasks, caller)
    /\ caller' = "idle"
    /\ UNCHANGED <<connect, state, channel, timers, fault, connection, loopVars,
                   alive, starts, stops>>

\* disconnect() on the loop.
LoopDisconnect ==
    /\ InCallback
    /\ connection = "up"
    /\ connection' = "shut"
    /\ UNCHANGED <<connectorVars, loopVars, userVars>>

Queued(f) == f \in ToSet(tasks) \cup ToSet(batch)

\* The connector's functors are bound to `this`, and its channel to the client: no event
\* of it may follow in the batch, no stop() may have left it half stopped, and a
\* client with a connection takes its connector down at once.
MayDestroy ==
    /\ phase = "events" /\ "connector" \notin ready
    /\ state = "CONNECTING" => channel = "watched"
    /\ connection # "null" => ~\E f \in {"reset", "stop", "start"} : Queued(f)

\* ~TCPClient() of a client that connects or waits stops its connector, and a timer
\* keeps the connector until its functors have run.  A connection gets another close
\* callback; when nobody else has it, a functor with a bare pointer is queued and the
\* connection is gone.
Destroy(shared) ==
    /\ InCallback /\ caller = "idle"
    /\ DestroyAnywhere \/ (MayDestroy /\ shared)
    /\ alive' = FALSE
    /\ \/ /\ connection = "null"
          /\ connect' = FALSE
          /\ tasks' = Append(tasks, "stop")
          /\ UNCHANGED fault
       \/ /\ connection # "null"
          /\ fault' = IF shared /\ channel = "null" THEN fault ELSE "dangling"
          /\ UNCHANGED <<connect, tasks>>
    /\ UNCHANGED <<state, channel, timers, connection, loopVars, caller, starts, stops>>

-------------------------------------------------------------------------------
LoopStep ==
    \/ TakeTasks \/ RunTask \/ DoneTasks
    \/ Connected \/ Refused \/ RefusedWrite \/ TimerFires \/ Disconnected

\* A null pointer ends the program.
Next ==
    /\ fault # "nullptr"
    /\ \/ LoopStep
       \/ \E events \in SUBSET Registered : Poll(events)
       \/ LoopStart \/ LoopStop \/ LoopDisconnect
       \/ \E shared \in BOOLEAN : Destroy(shared)
       \/ ForeignStart \/ ForeignStop \/ ForeignPushes

(* The loop runs and its timers fire; every attempt ends.  Of infinitely    *)
(* many calls of ::connect() one does not fail at once, and of infinitely   *)
(* many attempts the server accepts one.  A connection may stay up for ever. *)
Fairness ==
    /\ WF_vars(LoopStep)
    /\ WF_vars(\E events \in SUBSET Registered :
                  events # {"connection"} /\ Poll(events))
    /\ SF_vars(TimerFires /\ state' = "CONNECTING")
    /\ SF_vars(Connected)
    /\ WF_vars(ForeignPushes)

Spec == Init /\ [][Next]_vars /\ Fairness

-------------------------------------------------------------------------------
(* Properties.                                                              *)

\* No assertion of connecting() fails, no null channel is removed and no live
\* connection is dropped from connection_, wherever stop() comes in.
NoFault == fault = "none"

\* The client does one thing at a time: it waits for one timer, or for one
\* attempt, or has one connection.
OneAttempt ==
    timers + Cardinality(Registered \ {"timer"}) <= 1

\* A channel that is removed is going to be reset, and a queued resetChannel() never
\* finds the channel of a later attempt.
ResetIsSafe ==
    /\ channel = "removed" => Queued("reset")
    /\ Queued("reset") => channel # "watched"

\* Wherever stop() and losses come in, the client makes one attempt at a time and takes
\* down what belongs to it (Connector.cc:72-121, TCPClient.cc).
ClientSafety == TypeOK /\ NoFault /\ OneAttempt /\ ResetIsSafe

\* After stop() no attempt begins unless a connection was lost, and after the death of
\* the client none at all, whatever timers and functors are left and whenever its last
\* connection ends.
StopIsHeeded ==
    [][(~connect \/ ~alive) /\ channel = "null"
          => channel' # "watched" \/ (alive /\ connect')]_vars

\* A client that was told to connect and not to stop gets a connection, the first
\* time and after each loss.
Reconnects ==
    alive /\ connect /\ connection = "null" ~> connection # "null" \/ ~connect
===============================================================================
