------------------------------- MODULE Channel --------------------------------
(***************************************************************************)
(* slite::Channel and its bookkeeping in EventLoop (slite/Channel.cc,      *)
(* EventLoop::updateChannel and removeChannel): what a channel believes    *)
(* about its registration, what the map channels_ says, and what epoll     *)
(* really watches; and the dispatch of a batch of events to channels that  *)
(* callbacks of the same batch may disable, remove or destroy.             *)
(*                                                                         *)
(* All steps are the loop thread's.  What the owners of channels do is     *)
(* bounded by their contract: a channel is deleted only when it is removed *)
(* (TCPConnection, Connector), or removes itself (Timer); an fd goes to    *)
(* another channel only after the first one was removed (Connector hands   *)
(* the fd it connected to a TCPConnection).                                *)
(***************************************************************************)
EXTENDS Naturals, FiniteSets

CONSTANTS Chan,            \* the channel objects
          Fd,              \* the file descriptors
          FdOf,            \* the descriptor of each channel
          NoChan,          \* a null pointer
          Timers,          \* the channels that belong to a Timer
          CancelInHandler  \* may a callback cancel() another timer?

ASSUME ChannelAssumption ==
    /\ NoChan \notin Chan
    /\ FdOf \in [Chan -> Fd]
    /\ Timers \subseteq Chan
    /\ CancelInHandler \in BOOLEAN

VARIABLES
    state,      \* state_ of each channel
    events,     \* events_ of each channel
    channels,   \* channels_ of the loop
    watched,    \* epoll: the data.ptr registered for each fd, or NoChan
    interest,   \* epoll: the events registered for each fd
    ctlFailed,  \* has an epoll_ctl failed? (nobody looks at its result)
    alive,      \* is the channel object allocated?
    phase,      \* where the loop thread is
    batch,      \* the data.ptr of the events of this batch not yet handled
    handling,   \* the channel whose callback runs
    doomed      \* is only the guard in handleEvents() keeping it alive?

regVars == <<state, events, channels, watched, interest, ctlFailed>>
loopVars == <<phase, batch, handling>>
vars == <<regVars, loopVars, alive, doomed>>

Event == {"in", "out"}

TypeOK ==
    /\ state \in [Chan -> {"NEW", "ADD", "DELETE"}]
    /\ events \in [Chan -> SUBSET Event]
    /\ channels \in [Fd -> Chan \cup {NoChan}]
    /\ watched \in [Fd -> Chan \cup {NoChan}]
    /\ interest \in [Fd -> SUBSET Event]
    /\ ctlFailed \in BOOLEAN
    /\ alive \in [Chan -> BOOLEAN]
    /\ phase \in {"wait", "dispatch", "handler", "task"}
    /\ batch \in SUBSET Chan
    /\ handling \in Chan \cup {NoChan}
    /\ doomed \in BOOLEAN

Init ==
    /\ state = [c \in Chan |-> "NEW"]
    /\ events = [c \in Chan |-> {}]
    /\ channels = [f \in Fd |-> NoChan]
    /\ watched = [f \in Fd |-> NoChan]
    /\ interest = [f \in Fd |-> {}]
    /\ ctlFailed = FALSE
    /\ alive = [c \in Chan |-> TRUE]
    /\ phase = "task"
    /\ batch = {}
    /\ handling = NoChan
    /\ doomed = FALSE

-------------------------------------------------------------------------------
(* epoll_ctl.  It fails for an fd that is (ADD) or is not (MOD, DEL)        *)
(* registered; the loop ignores the failure.                                *)

CtlAdd(c, ev) ==
    IF watched[FdOf[c]] = NoChan
    THEN /\ watched' = [watched EXCEPT ![FdOf[c]] = c]
         /\ interest' = [interest EXCEPT ![FdOf[c]] = ev]
         /\ UNCHANGED ctlFailed
    ELSE ctlFailed' = TRUE /\ UNCHANGED <<watched, interest>>

CtlMod(c, ev) ==
    IF watched[FdOf[c]] # NoChan
    THEN /\ watched' = [watched EXCEPT ![FdOf[c]] = c]
         /\ interest' = [interest EXCEPT ![FdOf[c]] = ev]
         /\ UNCHANGED ctlFailed
    ELSE ctlFailed' = TRUE /\ UNCHANGED <<watched, interest>>

CtlDel(c) ==
    IF watched[FdOf[c]] # NoChan
    THEN /\ watched' = [watched EXCEPT ![FdOf[c]] = NoChan]
         /\ interest' = [interest EXCEPT ![FdOf[c]] = {}]
         /\ UNCHANGED ctlFailed
    ELSE ctlFailed' = TRUE /\ UNCHANGED <<watched, interest>>

-------------------------------------------------------------------------------
(* EventLoop::updateChannel(), with the events_ the caller has just set.    *)

\* A channel epoll does not watch: NEW or DELETE.
UpdateAdds(c, ev) ==
    /\ state[c] \in {"NEW", "DELETE"}
    /\ channels' = [channels EXCEPT ![FdOf[c]] = c]
    /\ state' = [state EXCEPT ![c] = "ADD"]
    /\ CtlAdd(c, ev)

UpdateModifies(c, ev) ==
    /\ state[c] = "ADD"
    /\ ev # {}
    /\ CtlMod(c, ev)
    /\ UNCHANGED <<state, channels>>

\* Mutant: a channel without events is modified instead of deleted.
UpdateDeletesMods(c, ev) ==
    /\ state[c] = "ADD"
    /\ ev = {}
    /\ CtlMod(c, ev)
    /\ UNCHANGED <<state, channels>>

UpdateDeletes(c, ev) ==
    /\ state[c] = "ADD"
    /\ ev = {}
    /\ CtlDel(c)
    /\ state' = [state EXCEPT ![c] = "DELETE"]
    /\ UNCHANGED channels

UpdateChannel(c, ev) ==
    /\ events' = [events EXCEPT ![c] = ev]
    /\ \/ UpdateAdds(c, ev)
       \/ UpdateModifies(c, ev)
       \/ UpdateDeletes(c, ev)

\* Callbacks and functors run on the loop thread.
UserCode == phase \in {"handler", "task"}

\* The fd of a NEW channel belongs to no other channel of the loop.
OwnsFd(c) == state[c] = "NEW" => channels[FdOf[c]] = NoChan

\* A channel its owner may still use.
Usable(c) == UserCode /\ alive[c] /\ OwnsFd(c)

\* enableRecv(), enableSend().  Timer::addTimer() enables a new timer once.
Enable(c, e) ==
    /\ Usable(c)
    /\ c \in Timers => state[c] = "NEW" /\ e = "in"
    /\ UpdateChannel(c, events[c] \cup {e})
    /\ UNCHANGED <<loopVars, alive, doomed>>

\* disableRecv(), disableSend(), disableAll(), also of a channel that epoll does
\* not watch: ~Acceptor() of a server that was never started and a second
\* TCPConnection::handleClose() call disableAll() so.
Disable(c, es) ==
    /\ Usable(c)
    /\ c \notin Timers
    /\ UpdateChannel(c, events[c] \ es)
    /\ UNCHANGED <<loopVars, alive, doomed>>

\* Mutant: the channel is taken out of epoll but not out of channels_.
RemoveChannelKeepsMap(c) ==
    /\ state' = [state EXCEPT ![c] = "NEW"]
    /\ IF state[c] = "ADD"
       THEN CtlDel(c)
       ELSE UNCHANGED <<watched, interest, ctlFailed>>
    /\ UNCHANGED channels

\* EventLoop::removeChannel()
RemoveChannel(c) ==
    /\ channels' = [channels EXCEPT ![FdOf[c]] = NoChan]
    /\ state' = [state EXCEPT ![c] = "NEW"]
    /\ IF state[c] = "ADD"
       THEN CtlDel(c)
       ELSE UNCHANGED <<watched, interest, ctlFailed>>

\* Channel::remove() asserts isNoneEvent(), removeChannel() that the channel is
\* in channels_: both are the owner's duty.
Remove(c) ==
    /\ Usable(c)
    /\ c \notin Timers
    /\ events[c] = {}
    /\ channels[FdOf[c]] = c
    /\ RemoveChannel(c)
    /\ UNCHANGED <<events, loopVars, alive, doomed>>

\* Mutant: the owner deletes a removed channel at once, inside the callback.
DeleteAtOnce(c) ==
    /\ c \notin Timers
    /\ UserCode
    /\ alive[c]
    /\ state[c] = "NEW"
    /\ alive' = [alive EXCEPT ![c] = FALSE]
    /\ UNCHANGED <<regVars, loopVars, doomed>>

\* The owner of a removed channel deletes it, from a functor of the task queue
\* (TCPConnection's last reference, Connector::resetChannel()).
Delete(c) ==
    /\ c \notin Timers
    /\ phase = "task"
    /\ alive[c]
    /\ state[c] = "NEW"
    /\ alive' = [alive EXCEPT ![c] = FALSE]
    /\ UNCHANGED <<regVars, loopVars, doomed>>

\* ~Timer(): disableAll(), remove(), and its channel is deleted.  The timer was
\* added, so that disableAll() takes it out of epoll and remove() out of the map.
DestroyTimer(c) ==
    /\ CtlDel(c)
    /\ events' = [events EXCEPT ![c] = {}]
    /\ channels' = [channels EXCEPT ![FdOf[c]] = NoChan]
    /\ state' = [state EXCEPT ![c] = "NEW"]
    /\ alive' = [alive EXCEPT ![c] = FALSE]

\* EventLoop::cancel() of a timer that was added: timers_ drops it, and ~Timer()
\* runs inside the caller's callback, except for the timer whose own callback
\* is running, which lives on in the guard of handleEvents().
Cancel(c) ==
    /\ c \in Timers
    /\ UserCode
    /\ alive[c]
    /\ state[c] = "ADD"
    /\ \/ /\ handling = c
          /\ ~doomed
          /\ doomed' = TRUE
          /\ UNCHANGED <<regVars, alive>>
       \/ /\ handling # c
          /\ phase = "handler" => CancelInHandler
          /\ DestroyTimer(c)
          /\ UNCHANGED doomed
    /\ UNCHANGED loopVars

-------------------------------------------------------------------------------
(* EventLoop::loop(): one batch.                                            *)

\* epoll_wait: any of the watched descriptors may be ready.  One registered
\* with no events can still report EPOLLERR or EPOLLHUP.
Poll ==
    /\ phase = "wait"
    /\ batch' \in SUBSET {watched[f] : f \in {g \in Fd : watched[g] # NoChan}} \ {{}}
    /\ phase' = "dispatch"
    /\ UNCHANGED <<regVars, handling, alive, doomed>>

\* channel->handleEvents(): the callbacks of one channel begin.
HandleEvents(c) ==
    /\ phase = "dispatch"
    /\ c \in batch
    /\ batch' = batch \ {c}
    /\ phase' = "handler"
    /\ handling' = c
    /\ UNCHANGED <<regVars, alive, doomed>>

\* handleEvents() returns and drops its guard: a timer cancelled by its own
\* callback is destroyed here.
HandlerReturns ==
    /\ phase = "handler"
    /\ phase' = "dispatch"
    /\ handling' = NoChan
    /\ doomed' = FALSE
    /\ IF doomed THEN DestroyTimer(handling) ELSE UNCHANGED <<regVars, alive>>
    /\ UNCHANGED batch

BeginTasks ==
    /\ phase = "dispatch"
    /\ batch = {}
    /\ phase' = "task"
    /\ UNCHANGED <<regVars, batch, handling, alive, doomed>>

EndTasks ==
    /\ phase = "task"
    /\ phase' = "wait"
    /\ UNCHANGED <<regVars, batch, handling, alive, doomed>>

\* epoll_wait times out: the loop waits again.
PollTimeout ==
    /\ phase = "wait"
    /\ UNCHANGED vars

Next ==
    \/ Poll \/ PollTimeout \/ HandlerReturns \/ BeginTasks \/ EndTasks
    \/ \E c \in Chan :
          \/ HandleEvents(c)
          \/ Remove(c)
          \/ Delete(c)
          \/ Cancel(c)
          \/ \E e \in Event : Enable(c, e)
          \/ \E es \in {{"in"}, {"out"}, Event} : Disable(c, es)

Spec == Init /\ [][Next]_vars

-------------------------------------------------------------------------------
(* Properties.                                                              *)

\* A channel is in channels_ exactly when its state says so: updateChannel()'s
\* and removeChannel()'s assertions on channels_ follow.
StateMatchesMap == \A c \in Chan : (state[c] # "NEW") <=> (channels[FdOf[c]] = c)

\* epoll watches exactly the channels in state ADD, for exactly their events.
StateMatchesEpoll == \A c \in Chan :
    /\ (state[c] = "ADD") <=> (watched[FdOf[c]] = c)
    /\ state[c] = "ADD" => interest[FdOf[c]] = events[c]

\* The channel, channels_ and epoll agree on what is registered.
RegistrationAgrees == StateMatchesMap /\ StateMatchesEpoll

\* No epoll_ctl fails, although two channels use one fd in turn.
CtlNeverFails == ~ctlFailed

\* The channel, channels_ and epoll agree after every call, and the kernel refuses none
\* (EventLoop.cc, updateChannel() and removeChannel()).
RegistrationSound == TypeOK /\ RegistrationAgrees /\ CtlNeverFails

\* The pointers epoll hands back, now and in the next batch, are to channels
\* that still exist.
WatchedIsAlive == \A f \in Fd : watched[f] # NoChan => alive[watched[f]]

\* The descriptors that epoll watches for no events.  It reports EPOLLERR and
\* EPOLLHUP of them all the same, and nothing of the channel's reads them away:
\* Problems.md, "Do not reregister None Event Channel to Poller, this will cause
\* busy loop".
Idle == {f \in Fd : watched[f] # NoChan /\ interest[f] = {}}

\* A channel that is registered and loses its last event leaves epoll: a descriptor
\* becomes idle only when epoll did not watch it before, that is, where a channel
\* that is not registered is disabled and updateChannel() adds it (EventLoop.cc:147).
NoneNotRegistered == [][\A f \in Idle' \ Idle : watched[f] = NoChan]_vars

\* Problems.md and Channel.h say a channel's life is extended so that it is not
\* destroyed while events are handled: no event left in the batch is for a
\* channel that an earlier callback of the batch has destroyed.
BatchIsAlive == \A c \in batch \cup ({handling} \ {NoChan}) : alive[c]

\* No event, now or later, is handled by a destroyed channel: epoll holds no
\* pointer to one, and neither does the batch.
NoStaleEvent == WatchedIsAlive /\ BatchIsAlive
===============================================================================
