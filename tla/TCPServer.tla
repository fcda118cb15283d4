------------------------------ MODULE TCPServer -------------------------------
(***************************************************************************)
(* The life of the connections of a slite::TCPServer (slite/TCPServer.cc,  *)
(* slite/TCPConnection.cc, slite/EventLoopThreadPool.cc): accepted on the  *)
(* base loop, handed to an I/O loop by round robin, closed by the peer or  *)
(* by the user, removed from the server's list on the base loop, and       *)
(* destroyed on their own loop.                                            *)
(*                                                                         *)
(* A loop alternates between a batch of events and the functors queued     *)
(* before the batch ended, as in EventLoop.tla, which also shows that a    *)
(* queued functor is not slept upon; the wakeup is therefore left out here.*)
(* A callback and a functor are one step, because all they touch belongs   *)
(* to their loop, except state_: foreign threads read and write it without *)
(* a lock, in steps of their own.                                          *)
(*                                                                         *)
(* A TCPConnection lives as long as a shared_ptr to it does.  Some functors*)
(* are bound to a shared_ptr and others to the raw `this`; a vector of     *)
(* functors keeps its shared_ptrs until doTask() returns.                  *)
(***************************************************************************)
EXTENDS Naturals, Sequences, SequencesExt, FiniteSets

CONSTANTS Conn,         \* connections that may be opened; each one once
          Base,         \* the loop of the acceptor
          Pools,        \* the sequences of I/O loops the server may run on
          NoConn,       \* a null pointer
          ForceFrom,    \* where the user calls forceClose(): see Context
          ShutdownFrom, \* where the user calls shutdown()
          ExitBusy      \* may the server be destroyed with open connections?

(* "message": the message callback of the connection.  "connection": its    *)
(* connection callback, when it is established.  "peer": a callback of      *)
(* another channel of the same loop.  "functor": a functor of the same      *)
(* loop.  "foreign": another thread, which holds a shared_ptr.              *)
Context == {"message", "connection", "peer", "functor", "foreign"}

Loops == {Base} \cup UNION {Range(p) : p \in Pools}

ASSUME TCPServerAssumption ==
    /\ NoConn \notin Conn
    /\ \A p \in Pools : p \in Seq(Range(p)) /\ IsInjective(p) /\ Base \notin Range(p)
    /\ ForceFrom \subseteq Context
    /\ ShutdownFrom \subseteq Context
    /\ ExitBusy \in BOOLEAN

VARIABLES
    cstate,       \* state_ of each connection, "none" before it is accepted
    reg,          \* state_ of its channel
    recving,      \* isRecving() of its channel
    loopOf,       \* loop_ of the connection
    up,           \* times the connection callback saw it connected
    down,         \* times the connection callback saw it disconnected
    connections,  \* connections_ of the server
    loops,        \* loops_ of the thread pool, filled before the first accept
    next,         \* next_ of the thread pool
    gone,         \* has the server been destroyed?
    mode,         \* of each loop: waiting, in a batch, in doTask(), or over
    batch,        \* events of the batch that are not handled yet
    queue,        \* taskQueue_ of each loop
    functors,     \* the vector of doTask() of each loop ...
    idx,          \* ... and the index of the functor to run next
    fpc, fconn,   \* the foreign thread: where it is, and its shared_ptr
    fault         \* undefined behaviour or failed assertions met so far

connVars == <<cstate, reg, recving, loopOf, up, down>>
serverVars == <<connections, loops, next, gone>>
loopVars == <<mode, batch, queue, functors, idx>>
vars == <<connVars, serverVars, loopVars, fpc, fconn, fault>>

Task == [op : {"established", "remove", "destroyed", "close", "shutdown"},
         conn : Conn]

TypeOK ==
    /\ cstate \in [Conn -> {"none", "CONNECTING", "CONNECTED", "DISCONNECTING",
                            "DISCONNECTED"}]
    /\ reg \in [Conn -> {"NEW", "ADD", "DELETE"}]
    /\ recving \in [Conn -> BOOLEAN]
    /\ loopOf \in [Conn -> Loops]
    /\ up \in [Conn -> Nat]
    /\ down \in [Conn -> Nat]
    /\ connections \subseteq Conn
    /\ loops \in Pools
    /\ next \in 0 .. Len(loops)
    /\ gone \in BOOLEAN
    /\ mode \in [Loops -> {"poll", "batch", "tasks", "over"}]
    /\ batch \in [Loops -> SUBSET (Conn \cup {NoConn})]
    /\ queue \in [Loops -> Seq(Task)]
    /\ functors \in [Loops -> Seq(Task)]
    /\ idx \in [Loops -> Nat]
    /\ fpc \in {"idle", "force", "forced", "shutdown", "shut"}
    /\ fconn \in Conn \cup {NoConn}
    /\ fault \subseteq {"assert", "dangling", "null"}

Init ==
    /\ cstate = [c \in Conn |-> "none"]
    /\ reg = [c \in Conn |-> "NEW"]
    /\ recving = [c \in Conn |-> FALSE]
    /\ loopOf = [c \in Conn |-> Base]
    /\ up = [c \in Conn |-> 0]
    /\ down = [c \in Conn |-> 0]
    /\ connections = {}
    /\ loops \in Pools
    /\ next = 0
    /\ gone = FALSE
    /\ mode = [l \in Loops |-> "poll"]
    /\ batch = [l \in Loops |-> {}]
    /\ queue = [l \in Loops |-> <<>>]
    /\ functors = [l \in Loops |-> <<>>]
    /\ idx = [l \in Loops |-> 1]
    /\ fpc = "idle"
    /\ fconn = NoConn
    /\ fault = {}

-------------------------------------------------------------------------------
(* Ownership.                                                               *)

\* Functors bound to a shared_ptr; "close" and "shutdown" are bound to `this`.
Owning == {"established", "remove", "destroyed"}

HeldBy(tasks, c) == \E i \in DOMAIN tasks : tasks[i].conn = c /\ tasks[i].op \in Owning

Alive(c) ==
    \/ c \in connections
    \/ fconn = c
    \/ \E l \in Loops : HeldBy(queue[l], c) \/ HeldBy(functors[l], c)

Dangling(c) == IF Alive(c) THEN {} ELSE {"dangling"}

Push(l, op, c) == queue' = [queue EXCEPT ![l] = Append(@, [op |-> op, conn |-> c])]

-------------------------------------------------------------------------------
(* What the user may do with a connection on the connection's own loop: the *)
(* state_ it leaves behind and the functors it queues.  shutdown() runs     *)
(* shutdownInLoop() at once there; the socket is modelled in TCPSend.       *)

Calls(ctx, c, s) ==
    {[state |-> s, tasks |-> <<>>]}
    \cup {r \in {[state |-> "DISCONNECTED", tasks |-> <<[op |-> "close", conn |-> c]>>]} :
             ctx \in ForceFrom /\ s \in {"CONNECTED", "DISCONNECTING"}}
    \cup {r \in {[state |-> "DISCONNECTING", tasks |-> <<>>]} :
             ctx \in ShutdownFrom /\ s = "CONNECTED"}

-------------------------------------------------------------------------------
(* The handlers, as changes to the connection; the loop's step adds its own *)
(* bookkeeping.                                                             *)

\* Channel::disableAll() through EventLoop::updateChannel().
Disabled(r) == IF r = "ADD" THEN "DELETE" ELSE "ADD"

\* TCPConnection::connectEstablished() on loop l.
Establish(l, c) ==
    /\ reg' = [reg EXCEPT ![c] = "ADD"]
    /\ recving' = [recving EXCEPT ![c] = TRUE]
    /\ up' = [up EXCEPT ![c] = @ + 1]
    /\ \E r \in Calls("connection", c, "CONNECTED") :
          /\ cstate' = [cstate EXCEPT ![c] = r.state]
          /\ queue' = [queue EXCEPT ![l] = @ \o r.tasks]
    /\ UNCHANGED down

\* TCPServer::removeConnectionInLoop()
RemoveInLoop(c) ==
    /\ connections' = connections \ {c}
    /\ Push(loopOf[c], "destroyed", c)

\* Mutant: handleClose() does not disable the channel.
CloseConnectionEnabled(c) ==
    /\ cstate' = [cstate EXCEPT ![c] = "DISCONNECTED"]
    /\ down' = [down EXCEPT ![c] = @ + 1]
    /\ IF loopOf[c] = Base
       THEN RemoveInLoop(c)
       ELSE Push(Base, "remove", c) /\ UNCHANGED connections
    /\ UNCHANGED <<reg, recving, up, loopOf, loops, next, gone>>

\* Mutant: handleClose() does not call the connection callback.
CloseConnectionSilent(c) ==
    /\ cstate' = [cstate EXCEPT ![c] = "DISCONNECTED"]
    /\ reg' = [reg EXCEPT ![c] = Disabled(@)]
    /\ recving' = [recving EXCEPT ![c] = FALSE]
    /\ IF loopOf[c] = Base
       THEN RemoveInLoop(c)
       ELSE Push(Base, "remove", c) /\ UNCHANGED connections
    /\ UNCHANGED <<down, up, loopOf, loops, next, gone>>

\* TCPConnection::handleClose(), with its connection callback and
\* TCPServer::removeConnection().
CloseConnection(c) ==
    /\ cstate' = [cstate EXCEPT ![c] = "DISCONNECTED"]
    /\ reg' = [reg EXCEPT ![c] = Disabled(@)]
    /\ recving' = [recving EXCEPT ![c] = FALSE]
    /\ down' = [down EXCEPT ![c] = @ + 1]
    /\ IF loopOf[c] = Base
       THEN RemoveInLoop(c)
       ELSE Push(Base, "remove", c) /\ UNCHANGED connections
    /\ UNCHANGED <<up, loopOf, loops, next, gone>>

-------------------------------------------------------------------------------
(* The batch of a loop.                                                     *)

\* NoConn stands for the acceptor's channel.  The fd of a connection that was
\* destroyed is closed, and epoll forgets it.
Ready(l) ==
    {c \in Conn : loopOf[c] = l /\ reg[c] = "ADD" /\ Alive(c)}
    \cup (IF l = Base /\ ~gone THEN {NoConn} ELSE {})

\* ~TCPServer() destroys the thread pool, which quits and joins the I/O loops
\* (EventLoopThread.tla).
Quitting(l) == gone /\ l \in Range(loops)

\* epoll_wait returns with some ready descriptors, the eventfd among them when
\* functors are queued or the loop is to quit.
Poll(l) ==
    /\ mode[l] = "poll"
    /\ \E s \in SUBSET Ready(l) :
          /\ s # {} \/ queue[l] # <<>> \/ Quitting(l)
          /\ batch' = [batch EXCEPT ![l] = s]
    /\ mode' = [mode EXCEPT ![l] = "batch"]
    /\ UNCHANGED <<connVars, serverVars, queue, functors, idx, fpc, fconn, fault>>

Handled(l, c) ==
    /\ mode[l] = "batch"
    /\ c \in batch[l]
    /\ batch' = [batch EXCEPT ![l] = @ \ {c}]
    /\ UNCHANGED <<mode, functors, idx, fpc, fconn>>

\* EventLoopThreadPool::getNextLoop()
NextIndex == IF next = Len(loops) THEN 1 ELSE next + 1
NextLoop == IF loops = <<>> THEN Base ELSE loops[NextIndex]

TakeNextLoop == next' = IF loops = <<>> THEN next ELSE NextIndex

\* The acceptor's callback: TCPServer::newConnection().  On the base loop
\* connectEstablished() runs at once, on another it is queued.
NewConnection(c) ==
    /\ Handled(Base, NoConn)
    /\ cstate[c] = "none"
    /\ connections' = connections \cup {c}
    /\ loopOf' = [loopOf EXCEPT ![c] = NextLoop]
    /\ TakeNextLoop
    /\ IF NextLoop = Base
       THEN Establish(Base, c)
       ELSE /\ cstate' = [cstate EXCEPT ![c] = "CONNECTING"]
            /\ Push(NextLoop, "established", c)
            /\ UNCHANGED <<reg, recving, up, down>>
    /\ UNCHANGED <<loops, gone, fault>>

\* accept() fails: no connection.
AcceptFails ==
    /\ Handled(Base, NoConn)
    /\ UNCHANGED <<connVars, serverVars, queue, fault>>

\* handleRecv() got data, or was interrupted: the message callback may use this
\* connection, or another one of the loop that is announced.
HandleMessage(l, c) ==
    /\ Handled(l, c)
    /\ recving[c]
    /\ \E d \in Conn :
          /\ loopOf[d] = l
          /\ up[d] > 0 /\ down[d] = 0
          /\ \E r \in Calls(IF d = c THEN "message" ELSE "peer", d, cstate[d]) :
                /\ cstate' = [cstate EXCEPT ![d] = r.state]
                /\ queue' = [queue EXCEPT ![l] = @ \o r.tasks]
    /\ UNCHANGED <<reg, recving, loopOf, up, down, serverVars, fault>>

\* handleRecv() reads the end of the stream, or epoll reports a hangup, which
\* it does also for a channel that is registered with no events.
HandleEof(l, c) ==
    /\ Handled(l, c)
    /\ CloseConnection(c)
    /\ UNCHANGED fault

-------------------------------------------------------------------------------
(* doTask() of a loop.                                                      *)

BeginTasks(l) ==
    /\ mode[l] = "batch"
    /\ batch[l] = {}
    /\ mode' = [mode EXCEPT ![l] = "tasks"]
    /\ functors' = [functors EXCEPT ![l] = queue[l]]
    /\ queue' = [queue EXCEPT ![l] = <<>>]
    /\ idx' = [idx EXCEPT ![l] = 1]
    /\ UNCHANGED <<connVars, serverVars, batch, fpc, fconn, fault>>

\* The vector of functors is destroyed, and with it its shared_ptrs.  A loop that
\* quits is destroyed with the functors it has not run.
EndTasks(l) ==
    /\ mode[l] = "tasks"
    /\ idx[l] > Len(functors[l])
    /\ IF Quitting(l)
       THEN /\ mode' = [mode EXCEPT ![l] = "over"]
            /\ queue' = [queue EXCEPT ![l] = <<>>]
       ELSE /\ mode' = [mode EXCEPT ![l] = "poll"]
            /\ UNCHANGED queue
    /\ functors' = [functors EXCEPT ![l] = <<>>]
    /\ idx' = [idx EXCEPT ![l] = 1]
    /\ UNCHANGED <<connVars, serverVars, batch, fpc, fconn, fault>>

Running(l, op, c) ==
    /\ mode[l] = "tasks"
    /\ idx[l] <= Len(functors[l])
    /\ functors[l][idx[l]] = [op |-> op, conn |-> c]
    /\ idx' = [idx EXCEPT ![l] = @ + 1]
    /\ UNCHANGED <<mode, batch, functors, fpc, fconn>>

RunEstablished(l, c) ==
    /\ Running(l, "established", c)
    /\ Establish(l, c)
    /\ UNCHANGED <<loopOf, serverVars, fault>>

RunRemove(l, c) ==
    /\ Running(l, "remove", c)
    /\ RemoveInLoop(c)
    /\ UNCHANGED <<connVars, loops, next, gone, fault>>

\* Mutant: the channel is left in the loop.
RunDestroyedKeeps(l, c) ==
    /\ Running(l, "destroyed", c)
    /\ UNCHANGED <<connVars, serverVars, queue, fault>>

\* Mutant: the disconnection is reported whatever the state.
RunDestroyedReports(l, c) ==
    /\ Running(l, "destroyed", c)
    /\ cstate' = [cstate EXCEPT ![c] = "DISCONNECTED"]
    /\ down' = [down EXCEPT ![c] = @ + 1]
    /\ recving' = [recving EXCEPT ![c] = FALSE]
    /\ reg' = [reg EXCEPT ![c] = "NEW"]
    /\ UNCHANGED <<up, loopOf, serverVars, queue, fault>>

\* connectDestroyed().  Channel::remove() asserts that no event is enabled, and
\* EventLoop::removeChannel() that the channel is in channels_.
RunDestroyed(l, c) ==
    /\ Running(l, "destroyed", c)
    /\ LET connected == cstate[c] = "CONNECTED"
       IN  /\ cstate' = [cstate EXCEPT ![c] = IF connected THEN "DISCONNECTED" ELSE @]
           /\ down' = [down EXCEPT ![c] = IF connected THEN @ + 1 ELSE @]
           /\ fault' = fault \cup Dangling(c) \cup
                 (IF (recving[c] /\ ~connected) \/ reg[c] = "NEW" THEN {"assert"} ELSE {})
    /\ recving' = [recving EXCEPT ![c] = FALSE]
    /\ reg' = [reg EXCEPT ![c] = "NEW"]
    /\ UNCHANGED <<up, loopOf, serverVars, queue>>

\* handleClose() queued by forceClose(), through the raw `this`.
RunClose(l, c) ==
    /\ Running(l, "close", c)
    /\ CloseConnection(c)
    /\ fault' = fault \cup Dangling(c)

\* shutdownInLoop() queued by a foreign shutdown(), through the raw `this`.
RunShutdown(l, c) ==
    /\ Running(l, "shutdown", c)
    /\ fault' = fault \cup Dangling(c)
    /\ UNCHANGED <<connVars, serverVars, queue>>

\* A functor of the user's, between two of these.
UserFunctor(l, c) ==
    /\ mode[l] = "tasks"
    /\ loopOf[c] = l
    /\ up[c] > 0 /\ down[c] = 0
    /\ \E r \in Calls("functor", c, cstate[c]) :
          /\ r.state # cstate[c]
          /\ cstate' = [cstate EXCEPT ![c] = r.state]
          /\ queue' = [queue EXCEPT ![l] = @ \o r.tasks]
    /\ UNCHANGED <<reg, recving, loopOf, up, down, serverVars, mode, batch,
                   functors, idx, fpc, fconn, fault>>

\* After a failed assertion or undefined behaviour nothing more is said.
LoopStep(l) ==
    /\ fault = {}
    /\ \/ Poll(l) \/ BeginTasks(l) \/ EndTasks(l)
       \/ (l = Base /\ AcceptFails)
       \/ \E c \in Conn :
             \/ (l = Base /\ NewConnection(c))
             \/ HandleMessage(l, c) \/ HandleEof(l, c)
             \/ RunEstablished(l, c) \/ RunRemove(l, c) \/ RunDestroyed(l, c)
             \/ RunClose(l, c) \/ RunShutdown(l, c)

-------------------------------------------------------------------------------
(* A foreign thread that holds a shared_ptr to an announced connection: it  *)
(* reads state_, writes it, and queues the functor, each without a lock.    *)

ForeignReads(c) ==
    /\ fpc = "idle"
    /\ up[c] > 0 /\ down[c] = 0
    /\ \/ /\ "foreign" \in ForceFrom
          /\ cstate[c] \in {"CONNECTED", "DISCONNECTING"}
          /\ fpc' = "force"
       \/ /\ "foreign" \in ShutdownFrom
          /\ cstate[c] = "CONNECTED"
          /\ fpc' = "shutdown"
    /\ fconn' = c
    /\ UNCHANGED <<connVars, serverVars, loopVars, fault>>

ForeignStores ==
    /\ \/ fpc = "force" /\ fpc' = "forced"
       \/ fpc = "shutdown" /\ fpc' = "shut"
    /\ cstate' = [cstate EXCEPT ![fconn] =
                     IF fpc = "force" THEN "DISCONNECTED" ELSE "DISCONNECTING"]
    /\ UNCHANGED <<reg, recving, loopOf, up, down, serverVars, loopVars, fconn, fault>>

\* The functor is queued, and the thread lets go of its shared_ptr.
ForeignPushes ==
    /\ fpc \in {"forced", "shut"}
    /\ Push(loopOf[fconn], IF fpc = "forced" THEN "close" ELSE "shutdown", fconn)
    /\ fpc' = "idle"
    /\ fconn' = NoConn
    /\ UNCHANGED <<connVars, serverVars, mode, batch, functors, idx, fault>>

\* ~TCPServer(): the loop over connections_ resets each shared_ptr before it
\* calls through it.
ServerDestroyed ==
    /\ ~gone
    /\ mode[Base] = "poll"
    /\ ExitBusy \/ connections = {}
    /\ gone' = TRUE
    /\ fault' = fault \cup (IF connections = {} THEN {} ELSE {"null"})
    /\ UNCHANGED <<connVars, connections, loops, next, loopVars, fpc, fconn>>

Next ==
    \/ \E l \in Loops : LoopStep(l)
    \/ /\ fault = {}
       /\ \/ \E l \in Loops, c \in Conn : UserFunctor(l, c)
          \/ \E c \in Conn : ForeignReads(c)
          \/ ForeignStores
          \/ ForeignPushes
          \/ ServerDestroyed

(* Every loop keeps running (EventLoop.tla) and a foreign thread finishes   *)
(* its call; the acceptor may be ready for ever, but a batch is finite.     *)
Spec ==
    /\ Init
    /\ [][Next]_vars
    /\ \A l \in Loops : WF_vars(LoopStep(l))
    /\ WF_vars(fault = {} /\ (ForeignStores \/ ForeignPushes))

-------------------------------------------------------------------------------
(* Properties.                                                              *)

\* The assertions of Channel::remove() and EventLoop::removeChannel() hold
\* whenever connectDestroyed() runs.
AssertionsHold == "assert" \notin fault

\* TCPServer.cc, removeConnectionInLoop(), "make sure that the destruction is
\* executed after the events": no functor bound to `this` runs on a connection
\* that was destroyed.
NoDangling == "dangling" \notin fault

\* A connection whose channel is still known to a running loop has not been
\* destroyed: epoll and channels_ hold raw pointers to the channel inside it.
RegisteredIsAlive == \A c \in Conn :
    reg[c] # "NEW" /\ mode[loopOf[c]] # "over" => Alive(c)

\* No part of the program holds a pointer to a connection that it outlives
\* (TCPServer.cc:64-88).
ServerSafety == TypeOK /\ NoDangling /\ RegisteredIsAlive

\* Whatever the user calls, a connection is announced at most once, is announced
\* before it is reported as disconnected, and leaves the server's list only
\* after that report.
ReportedInOrder == \A c \in Conn :
    /\ up[c] <= 1
    /\ down[c] > 0 => up[c] = 1
    /\ cstate[c] # "none" /\ c \notin connections => down[c] > 0

\* The life of a connection as the user sees it.  A connection that was announced or
\* reported more than once has left the stages of ConnectionLifecycle.
Stage(c) ==
    CASE cstate[c] = "none"                                        -> "none"
      [] cstate[c] # "none" /\ up[c] = 0 /\ down[c] = 0            -> "accepted"
      [] cstate[c] # "none" /\ up[c] = 1 /\ down[c] = 0            -> "up"
      [] cstate[c] # "none" /\ up[c] = 1 /\ down[c] = 1 /\ Alive(c) -> "down"
      [] cstate[c] # "none" /\ up[c] = 1 /\ down[c] = 1 /\ ~Alive(c) -> "gone"
      [] OTHER                                                     -> "repeated"

Lifecycle == INSTANCE ConnectionLifecycle WITH stage <- [c \in Conn |-> Stage(c)]

\* Every accepted connection is announced, and exactly once; it is reported as
\* disconnected at most once (TCPConnection.cc:191, 213), and its object is destroyed
\* afterwards, and only then.
ImplementsLifecycle == Lifecycle!Spec
===============================================================================
