------------------------------- MODULE TCPSend --------------------------------
(***************************************************************************)
(* The sending half of one established TCPConnection: send() from the loop *)
(* and from foreign threads, sendInLoop(), handleSend(), shutdown() and    *)
(* the write complete callback (slite/TCPConnection.cc).                   *)
(*                                                                         *)
(* A callback or a functor of the loop is one step; state_, which foreign  *)
(* threads read and write without a lock, is written in steps of their     *)
(* own.  The loop runs its functors in order (EventLoop.tla) while the     *)
(* connection lives (TCPServer.tla).  The kernel takes any number of the   *)
(* bytes it is offered.                                                    *)
(***************************************************************************)
EXTENDS Naturals, Sequences, SequencesExt, FiniteSets

CONSTANTS Foreign,      \* foreign threads that use the connection
          Loop,         \* the loop's own thread, as a sender
          NoThread,     \* no foreign thread
          MaxSize,      \* bytes of one send()
          MaxBytes      \* bytes each thread sends in all

Sender == Foreign \cup {Loop}

ASSUME TCPSendAssumption ==
    /\ Loop \notin Foreign
    /\ NoThread \notin Sender
    /\ MaxSize \in Nat /\ MaxBytes \in Nat

VARIABLES
    state,      \* state_
    sending,    \* channel_->isSending()
    buffer,     \* sendBuffer_
    tasks,      \* the functors of the connection in the loop's queue
    wire,       \* the bytes the kernel has taken
    shutWr,     \* has SHUT_WR been called?
    broken,     \* has the peer reset the connection?
    closed,     \* has handleClose() disabled the channel?
    caller,     \* the foreign thread inside shutdown() ...
    spc,        \* ... and what it does next
    accepted,   \* history: the bytes sendInLoop() has accepted
    count,      \* history: the bytes each thread has passed to send()
    gaveUp,     \* history: has sendInLoop() refused bytes as disconnected?
    reported    \* history: the bytes on the wire at the last write complete

connVars == <<state, sending, buffer, tasks, wire, shutWr, broken, closed>>
foreignVars == <<caller, spc>>
history == <<accepted, count, gaveUp, reported>>
vars == <<connVars, foreignVars, history>>

Byte == [from : Sender, seq : Nat]
Functor == [op : {"send"}, data : Seq(Byte)] \cup [op : {"shutdown", "close", "complete"}]

TypeOK ==
    /\ state \in {"CONNECTED", "DISCONNECTING", "DISCONNECTED"}
    /\ sending \in BOOLEAN
    /\ buffer \in Seq(Byte)
    /\ tasks \in Seq(Functor)
    /\ wire \in Seq(Byte)
    /\ shutWr \in BOOLEAN
    /\ broken \in BOOLEAN
    /\ closed \in BOOLEAN
    /\ caller \in Foreign \cup {NoThread}
    /\ spc \in {"idle", "store", "push"}
    /\ accepted \in Seq(Byte)
    /\ count \in [Sender -> Nat]
    /\ gaveUp \in BOOLEAN
    /\ reported \in Nat

Init ==
    /\ state = "CONNECTED"
    /\ sending = FALSE
    /\ buffer = <<>>
    /\ tasks = <<>>
    /\ wire = <<>>
    /\ shutWr = FALSE
    /\ broken = FALSE
    /\ closed = FALSE
    /\ caller = NoThread
    /\ spc = "idle"
    /\ accepted = <<>>
    /\ count = [s \in Sender |-> 0]
    /\ gaveUp = FALSE
    /\ reported = 0

-------------------------------------------------------------------------------
(* sendInLoop()                                                             *)

Complete == [op |-> "complete"]

\* Mutant: the write event is not enabled.
SendDirectlyUnwatched(d, rest) ==
    \E n \in 0 .. Len(d) :
        /\ wire' = wire \o SubSeq(d, 1, n)
        /\ buffer' = SubSeq(d, n + 1, Len(d))
        /\ sending' = FALSE
        /\ tasks' = IF n = Len(d) THEN Append(rest, Complete) ELSE rest

\* handle_->send() takes n bytes, or none when it would block; what remains is
\* buffered, and the write event enabled.
SendDirectly(d, rest) ==
    \E n \in 0 .. Len(d) :
        /\ wire' = wire \o SubSeq(d, 1, n)
        /\ buffer' = SubSeq(d, n + 1, Len(d))
        /\ sending' = (n < Len(d))
        /\ tasks' = IF n = Len(d) THEN Append(rest, Complete) ELSE rest

\* Mutant: the test of sendBuffer_ and isSending() is forgotten.
IdleAlways == TRUE

\* Nothing is buffered and the write event is not enabled.
Idle == ~sending /\ buffer = <<>>

\* SIGPIPE is ignored: send() fails with EPIPE or ECONNRESET.
Unwritable == broken \/ shutWr

\* sendInLoop(d), which leaves `rest` of the functors.
SendInLoop(d, rest) ==
    \/ /\ state = "DISCONNECTED"
       /\ gaveUp' = TRUE
       /\ tasks' = rest
       /\ UNCHANGED <<buffer, sending, wire, accepted>>
    \/ /\ state # "DISCONNECTED"
       /\ Idle /\ Unwritable
       /\ tasks' = rest
       /\ UNCHANGED <<buffer, sending, wire, accepted, gaveUp>>
    \/ /\ state # "DISCONNECTED"
       /\ Idle /\ ~Unwritable
       /\ SendDirectly(d, rest)
       /\ accepted' = accepted \o d
       /\ UNCHANGED gaveUp
    \/ /\ state # "DISCONNECTED"
       /\ ~Idle
       /\ buffer' = buffer \o d
       /\ sending' = TRUE
       /\ tasks' = rest
       /\ accepted' = accepted \o d
       /\ UNCHANGED <<wire, gaveUp>>

\* The data of the next send() of a thread.
NewData(s) == {[i \in 1 .. n |-> [from |-> s, seq |-> count[s] + i]] :
                  n \in {m \in 1 .. MaxSize : count[s] + m <= MaxBytes}}

\* send() in a callback or a functor of the loop.
LoopSend ==
    \E d \in NewData(Loop) :
        /\ SendInLoop(d, tasks)
        /\ count' = [count EXCEPT ![Loop] = @ + Len(d)]
        /\ UNCHANGED <<state, shutWr, broken, closed, foreignVars, reported>>

\* send() on a foreign thread queues sendInLoop().
ForeignSend(f) ==
    /\ spc = "idle" \/ caller # f
    /\ \E d \in NewData(f) :
          /\ tasks' = Append(tasks, [op |-> "send", data |-> d])
          /\ count' = [count EXCEPT ![f] = @ + Len(d)]
    /\ UNCHANGED <<state, sending, buffer, wire, shutWr, broken, closed,
                   foreignVars, accepted, gaveUp, reported>>

RunSend ==
    /\ tasks # <<>>
    /\ Head(tasks).op = "send"
    /\ SendInLoop(Head(tasks).data, Tail(tasks))
    /\ UNCHANGED <<state, shutWr, broken, closed, foreignVars, count, reported>>

-------------------------------------------------------------------------------
(* handleSend()                                                             *)

\* Mutant: the stream is ended although bytes are buffered.
ShutdownAnyway(stillSending) == shutWr' = TRUE

\* shutdownInLoop(), with the write event as the caller leaves it.
ShutdownInLoop(stillSending) == shutWr' = (shutWr \/ ~stillSending)

\* Mutant: a shutdown() that waited for the buffer is forgotten.
HandleSendForgets ==
    /\ sending
    /\ ~Unwritable
    /\ \E n \in 1 .. Len(buffer) :
          /\ wire' = wire \o SubSeq(buffer, 1, n)
          /\ buffer' = SubSeq(buffer, n + 1, Len(buffer))
          /\ sending' = (n < Len(buffer))
          /\ tasks' = IF n = Len(buffer) THEN Append(tasks, Complete) ELSE tasks
    /\ UNCHANGED <<state, broken, closed, shutWr, foreignVars, history>>

\* Mutant: the write complete callback is not queued.
HandleSendSilent ==
    /\ sending
    /\ ~Unwritable
    /\ \E n \in 1 .. Len(buffer) :
          /\ wire' = wire \o SubSeq(buffer, 1, n)
          /\ buffer' = SubSeq(buffer, n + 1, Len(buffer))
          /\ sending' = (n < Len(buffer))
          /\ IF state = "DISCONNECTING"
             THEN ShutdownInLoop(n < Len(buffer))
             ELSE UNCHANGED shutWr
    /\ UNCHANGED <<state, tasks, broken, closed, foreignVars, history>>

\* The descriptor is writable: some bytes go, and after the last one the write
\* event is disabled, the callback queued and a waiting shutdown() done.  A
\* send() that fails changes nothing.
HandleSend ==
    /\ sending
    /\ ~Unwritable
    /\ \E n \in 1 .. Len(buffer) :
          /\ wire' = wire \o SubSeq(buffer, 1, n)
          /\ buffer' = SubSeq(buffer, n + 1, Len(buffer))
          /\ sending' = (n < Len(buffer))
          /\ tasks' = IF n = Len(buffer) THEN Append(tasks, Complete) ELSE tasks
          /\ IF state = "DISCONNECTING"
             THEN ShutdownInLoop(n < Len(buffer))
             ELSE UNCHANGED shutWr
    /\ UNCHANGED <<state, broken, closed, foreignVars, history>>

\* writeCompleteCallback_
RunComplete ==
    /\ tasks # <<>>
    /\ Head(tasks).op = "complete"
    /\ tasks' = Tail(tasks)
    /\ reported' = Len(wire)
    /\ UNCHANGED <<state, sending, buffer, wire, shutWr, broken, closed,
                   foreignVars, accepted, count, gaveUp>>

-------------------------------------------------------------------------------
(* Shutting down and closing.                                               *)

\* shutdown() on the loop.
LoopShutdown ==
    /\ state = "CONNECTED"
    /\ state' = "DISCONNECTING"
    /\ ShutdownInLoop(sending)
    /\ UNCHANGED <<sending, buffer, tasks, wire, broken, closed, foreignVars, history>>

\* shutdown() on a foreign thread: the test of state_, ...
ForeignShutdown(f) ==
    /\ spc = "idle"
    /\ state = "CONNECTED"
    /\ caller' = f
    /\ spc' = "store"
    /\ UNCHANGED <<connVars, history>>

\* ... the store, ...
ForeignStores ==
    /\ spc = "store"
    /\ state' = "DISCONNECTING"
    /\ spc' = "push"
    /\ UNCHANGED <<sending, buffer, tasks, wire, shutWr, broken, closed, caller, history>>

\* ... and shutdownInLoop() is queued.
ForeignPushes ==
    /\ spc = "push"
    /\ tasks' = Append(tasks, [op |-> "shutdown"])
    /\ caller' = NoThread
    /\ spc' = "idle"
    /\ UNCHANGED <<state, sending, buffer, wire, shutWr, broken, closed, history>>

RunShutdown ==
    /\ tasks # <<>>
    /\ Head(tasks).op = "shutdown"
    /\ tasks' = Tail(tasks)
    /\ ShutdownInLoop(sending)
    /\ UNCHANGED <<state, sending, buffer, wire, broken, closed, foreignVars, history>>

\* forceClose() on the loop.
ForceClose ==
    /\ state \in {"CONNECTED", "DISCONNECTING"}
    /\ state' = "DISCONNECTED"
    /\ tasks' = Append(tasks, [op |-> "close"])
    /\ UNCHANGED <<sending, buffer, wire, shutWr, broken, closed, foreignVars, history>>

\* handleClose(): disableAll() takes the write event too.
HandleClose ==
    /\ state' = "DISCONNECTED"
    /\ sending' = FALSE
    /\ closed' = TRUE
    /\ UNCHANGED <<buffer, wire, shutWr, broken, foreignVars, history>>

RunClose ==
    /\ tasks # <<>>
    /\ Head(tasks).op = "close"
    /\ tasks' = Tail(tasks)
    /\ HandleClose

\* handleRecv() reads the end of the stream, or epoll reports a hangup.  A closed
\* channel is not registered, unless a late send has enabled its write event.
PeerCloses ==
    /\ ~closed \/ sending
    /\ HandleClose
    /\ UNCHANGED tasks

\* The peer resets the connection; epoll will report it.
PeerResets ==
    /\ ~broken
    /\ broken' = TRUE
    /\ UNCHANGED <<state, sending, buffer, tasks, wire, shutWr, closed,
                   foreignVars, history>>

RunFunctor == RunSend \/ RunComplete \/ RunShutdown \/ RunClose

Next ==
    \/ LoopSend \/ LoopShutdown \/ ForceClose
    \/ RunFunctor
    \/ HandleSend
    \/ PeerCloses \/ PeerResets
    \/ \E f \in Foreign : ForeignSend(f) \/ ForeignShutdown(f)
    \/ ForeignStores \/ ForeignPushes

(* The loop runs its functors, the peer keeps reading unless it closes or   *)
(* resets the connection, which epoll reports, and a foreign thread         *)
(* finishes the call it began.                                              *)
Fairness ==
    /\ WF_vars(RunFunctor)
    /\ WF_vars(HandleSend)
    /\ WF_vars(broken /\ PeerCloses)
    /\ WF_vars(ForeignStores \/ ForeignPushes)

Spec == Init /\ [][Next]_vars /\ Fairness

-------------------------------------------------------------------------------
(* Properties.                                                              *)

\* As long as the connection is not closed the write event is enabled exactly
\* while bytes wait in sendBuffer_: the loop neither spins nor forgets them.
WritesWatched == ~closed => (sending <=> buffer # <<>>)

\* Every byte occurs once, behind the one its thread sent before it.
Orderly(q) == \A i \in DOMAIN q :
    /\ \A j \in 1 .. i - 1 : q[j] # q[i]
    /\ \/ q[i].seq = 1
       \/ \E j \in 1 .. i - 1 : q[j] = [from |-> q[i].from, seq |-> q[i].seq - 1]

\* Until sendInLoop() gives up bytes on a disconnected connection, the peer gets
\* of each thread what it sent, from its first byte and without a gap, although
\* the threads' sends, the buffer and direct sends interleave.
GapFree == ~gaveUp => Orderly(wire)

\* shutdown() waits for the buffer, but not for ever.
ShutdownEnds == state = "DISCONNECTING" ~> shutWr \/ closed

\* When the last byte is gone the write complete callback runs, once more if
\* bytes were sent since: a user who sends from it never stalls.
DrainReported == \A n \in 1 .. MaxBytes * Cardinality(Sender) :
    Len(wire) = n /\ buffer = <<>> ~> reported >= n

Stream == INSTANCE ByteStream WITH
    sent <- accepted, delivered <- wire, fin <- shutWr

\* Accepted bytes reach the kernel in order, each once, and SHUT_WR follows the
\* last of them unless the connection is closed.
ImplementsStream == Stream!Spec
===============================================================================
