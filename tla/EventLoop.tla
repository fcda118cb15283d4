------------------------------ MODULE EventLoop -------------------------------
(***************************************************************************)
(* slite::EventLoop (slite/EventLoop.cc): the loop thread that waits in    *)
(* epoll_wait, dispatches the ready descriptors and then runs the queued   *)
(* functors; the other threads that queue functors and call quit(); and    *)
(* the eventfd with which they wake the loop.                              *)
(*                                                                         *)
(* The critical section of mutex_ is one step.  Everything outside it is   *)
(* separate: a foreign thread's push and its wakeup, and the store to      *)
(* quit_, the load of doingTask_ and the wakeup of quit().                 *)
(*                                                                         *)
(* quit_ and doingTask_ are plain bools read and written by several        *)
(* threads.  On the machines the build targets the store to quit_ may stay *)
(* in the store buffer while the following load of doingTask_ is served;   *)
(* StoreDelay says whether the model contains that outcome.  (The loop's   *)
(* own store to doingTask_ may be delayed past its load of quit_ in the    *)
(* same way; the outcomes, seen from both threads, are the same ones.)     *)
(***************************************************************************)
EXTENDS Sequences, SequencesExt

CONSTANTS Task,        \* the functors; each one is pushed at most once
          Foreign,     \* the threads other than the loop's that use the loop
          EarlyPush,   \* may the loop's own thread push outside loop()?
          StoreDelay,  \* may the store to quit_ be delayed?
          Signals      \* may a signal interrupt epoll_wait?

ASSUME EventLoopAssumption ==
    /\ EarlyPush \in BOOLEAN
    /\ Signals \in BOOLEAN
    /\ StoreDelay \in BOOLEAN

VARIABLES
    pc,          \* where the loop thread is
    quit,        \* quit_
    doingTask,   \* doingTask_
    taskQueue,   \* taskQueue_
    functors,    \* the local vector of doTask(): what is left of it
    eventfd,     \* is the counter of wakeupFd_ positive?
    io,          \* has another registered descriptor become ready?
    batch,       \* the events of the last epoll_wait not handled yet
    fpc,         \* where each foreign thread is
    pushed,      \* history: every functor pushed, in order of taskQueue_
    ran          \* history: every functor begun, in order

loopVars == <<pc, quit, doingTask, taskQueue, functors, batch, ran>>
vars == <<pc, quit, doingTask, taskQueue, functors, eventfd, io, batch, fpc,
          pushed, ran>>

(* "idle": outside loop().  "check": about to test !quit_.  "wait": inside  *)
(* epoll_wait.  "dispatch": between two events of the batch.  "handler":    *)
(* inside the callback of a ready descriptor.  "swap": doTask() before the  *)
(* swap.  "run": doTask() between two functors.  "body": inside a functor.  *)
LoopPC == {"idle", "check", "wait", "dispatch", "handler", "swap", "run", "body"}

(* "pushed": has left the critical section of pushTask and owes the wakeup. *)
(* "stored": has stored quit_.  "missed": has read doingTask_ = TRUE while  *)
(* its store to quit_ was not visible yet.  "waking": is about to write     *)
(* the eventfd for quit().                                                  *)
ForeignPC == {"idle", "pushed", "stored", "missed", "waking"}

TypeOK ==
    /\ pc \in LoopPC
    /\ quit \in BOOLEAN
    /\ doingTask \in BOOLEAN
    /\ taskQueue \in Seq(Task)
    /\ functors \in Seq(Task)
    /\ eventfd \in BOOLEAN
    /\ io \in BOOLEAN
    /\ batch \in SUBSET {"wakeup", "io"}
    /\ fpc \in [Foreign -> ForeignPC]
    /\ pushed \in Seq(Task)
    /\ ran \in Seq(Task)

Init ==
    /\ pc = "idle"
    /\ quit = FALSE
    /\ doingTask = FALSE
    /\ taskQueue = <<>>
    /\ functors = <<>>
    /\ eventfd = FALSE
    /\ io = FALSE
    /\ batch = {}
    /\ fpc = [f \in Foreign |-> "idle"]
    /\ pushed = <<>>
    /\ ran = <<>>

-------------------------------------------------------------------------------
(* The loop thread: EventLoop::loop().                                      *)

StartLoop ==
    /\ pc = "idle"
    /\ quit' = FALSE
    /\ pc' = "check"
    /\ UNCHANGED <<doingTask, taskQueue, functors, eventfd, io, batch, fpc,
                   pushed, ran>>

\* while (!quit_)
CheckQuit ==
    /\ pc = "check"
    /\ pc' = IF quit THEN "idle" ELSE "wait"
    /\ UNCHANGED <<quit, doingTask, taskQueue, functors, eventfd, io, batch,
                   fpc, pushed, ran>>

Ready == {s \in {"wakeup", "io"} : (s = "wakeup" /\ eventfd) \/ (s = "io" /\ io)}

\* epoll_wait returns the ready descriptors.
Poll ==
    /\ pc = "wait"
    /\ Ready # {}
    /\ batch' = Ready
    /\ pc' = "dispatch"
    /\ UNCHANGED <<quit, doingTask, taskQueue, functors, eventfd, io, fpc,
                   pushed, ran>>

\* Mutant: the timeout goes back to epoll_wait without testing quit_.
PollTimeoutStays ==
    /\ pc = "wait"
    /\ Ready = {}
    /\ UNCHANGED vars

\* epoll_wait returns 0 after ten seconds: `continue` skips doTask().
PollTimeout ==
    /\ pc = "wait"
    /\ Ready = {}
    /\ pc' = "check"
    /\ UNCHANGED <<quit, doingTask, taskQueue, functors, eventfd, io, batch,
                   fpc, pushed, ran>>

\* epoll_wait is interrupted by a signal and returns -1: `break`.
PollError ==
    /\ Signals
    /\ pc = "wait"
    /\ pc' = "idle"
    /\ UNCHANGED <<quit, doingTask, taskQueue, functors, eventfd, io, batch,
                   fpc, pushed, ran>>

\* wakeupChannel_'s read callback, handleRead(): the counter goes to zero.
HandleWakeup ==
    /\ pc = "dispatch"
    /\ "wakeup" \in batch
    /\ batch' = batch \ {"wakeup"}
    /\ eventfd' = FALSE
    /\ UNCHANGED <<pc, quit, doingTask, taskQueue, functors, io, fpc, pushed, ran>>

\* The callback of another channel begins, and consumes its readiness.
HandleIO ==
    /\ pc = "dispatch"
    /\ "io" \in batch
    /\ batch' = batch \ {"io"}
    /\ io' = FALSE
    /\ pc' = "handler"
    /\ UNCHANGED <<quit, doingTask, taskQueue, functors, eventfd, fpc, pushed, ran>>

HandlerReturns ==
    /\ pc = "handler"
    /\ pc' = "dispatch"
    /\ UNCHANGED <<quit, doingTask, taskQueue, functors, eventfd, io, batch,
                   fpc, pushed, ran>>

\* The batch is finished: doTask() begins.
BeginTasks ==
    /\ pc = "dispatch"
    /\ batch = {}
    /\ doingTask' = TRUE
    /\ pc' = "swap"
    /\ UNCHANGED <<quit, taskQueue, functors, eventfd, io, batch, fpc, pushed, ran>>

SwapTasks ==
    /\ pc = "swap"
    /\ functors' = taskQueue
    /\ taskQueue' = <<>>
    /\ pc' = "run"
    /\ UNCHANGED <<quit, doingTask, eventfd, io, batch, fpc, pushed, ran>>

\* Mutant: the newest functor is taken first.
RunFunctorLIFO ==
    /\ pc = "run"
    /\ functors # <<>>
    /\ ran' = Append(ran, Last(functors))
    /\ functors' = Front(functors)
    /\ pc' = "body"
    /\ UNCHANGED <<quit, doingTask, taskQueue, eventfd, io, batch, fpc, pushed>>

RunFunctor ==
    /\ pc = "run"
    /\ functors # <<>>
    /\ ran' = Append(ran, Head(functors))
    /\ functors' = Tail(functors)
    /\ pc' = "body"
    /\ UNCHANGED <<quit, doingTask, taskQueue, eventfd, io, batch, fpc, pushed>>

FunctorReturns ==
    /\ pc = "body"
    /\ pc' = "run"
    /\ UNCHANGED <<quit, doingTask, taskQueue, functors, eventfd, io, batch,
                   fpc, pushed, ran>>

EndTasks ==
    /\ pc = "run"
    /\ functors = <<>>
    /\ doingTask' = FALSE
    /\ pc' = "check"
    /\ UNCHANGED <<quit, taskQueue, functors, eventfd, io, batch, fpc, pushed, ran>>

\* What keeps the thread of control moving once loop() has been entered.
LoopProgress ==
    \/ CheckQuit \/ Poll \/ PollTimeout
    \/ HandleWakeup \/ HandleIO \/ HandlerReturns
    \/ BeginTasks \/ SwapTasks \/ RunFunctor \/ FunctorReturns \/ EndTasks

\* A signal may interrupt the loop, but no progress rests on one.
LoopStep == LoopProgress \/ PollError

-------------------------------------------------------------------------------
(* The public operations.                                                   *)

Fresh(t) == t \notin Range(pushed)

\* The critical section of pushTask().
Enqueue(t) ==
    /\ Fresh(t)
    /\ taskQueue' = Append(taskQueue, t)
    /\ pushed' = Append(pushed, t)

\* Mutant: the loop's own thread never wakes itself.
LoopPushSilent(t) ==
    /\ pc \in {"handler", "body"} \/ (EarlyPush /\ pc = "idle")
    /\ Enqueue(t)
    /\ UNCHANGED <<pc, quit, doingTask, functors, eventfd, io, batch, fpc, ran>>

\* pushTask() on the loop's own thread: from a callback, from a functor, or
\* (EarlyPush) before loop() is entered or after it has returned.  No other
\* step of the loop thread lies between the push and the wakeup, and a wakeup
\* that comes a little later only finds more to do, so the call is one step.
LoopPush(t) ==
    /\ pc \in {"handler", "body"} \/ (EarlyPush /\ pc = "idle")
    /\ Enqueue(t)
    /\ eventfd' = (eventfd \/ doingTask)
    /\ UNCHANGED <<pc, quit, doingTask, functors, io, batch, fpc, ran>>

\* quit() on the loop's own thread.
LoopQuit ==
    /\ pc \in {"handler", "body"}
    /\ quit' = TRUE
    /\ eventfd' = (eventfd \/ ~doingTask)
    /\ UNCHANGED <<pc, doingTask, taskQueue, functors, io, batch, fpc, pushed, ran>>

ForeignPush(f, t) ==
    /\ fpc[f] = "idle"
    /\ Enqueue(t)
    /\ fpc' = [fpc EXCEPT ![f] = "pushed"]
    /\ UNCHANGED <<pc, quit, doingTask, functors, eventfd, io, batch, ran>>

\* wakeup(), the last step of a foreign pushTask() or quit().
ForeignWakeup(f) ==
    /\ fpc[f] \in {"pushed", "waking"}
    /\ eventfd' = TRUE
    /\ fpc' = [fpc EXCEPT ![f] = "idle"]
    /\ UNCHANGED <<pc, quit, doingTask, taskQueue, functors, io, batch, pushed, ran>>

\* quit(): the store to quit_ becomes visible before doingTask_ is loaded.
ForeignQuit(f) ==
    /\ fpc[f] = "idle"
    /\ quit' = TRUE
    /\ fpc' = [fpc EXCEPT ![f] = "stored"]
    /\ UNCHANGED <<pc, doingTask, taskQueue, functors, eventfd, io, batch,
                   pushed, ran>>

ForeignQuitReads(f) ==
    /\ fpc[f] = "stored"
    /\ fpc' = [fpc EXCEPT ![f] = IF doingTask THEN "idle" ELSE "waking"]
    /\ UNCHANGED <<pc, quit, doingTask, taskQueue, functors, eventfd, io, batch,
                   pushed, ran>>

\* quit(): doingTask_ is loaded, as TRUE, before the store becomes visible.
\* (Loaded as FALSE the system call of wakeup() publishes the store first.)
ForeignQuitEarlyRead(f) ==
    /\ StoreDelay
    /\ fpc[f] = "idle"
    /\ doingTask
    /\ fpc' = [fpc EXCEPT ![f] = "missed"]
    /\ UNCHANGED <<pc, quit, doingTask, taskQueue, functors, eventfd, io, batch,
                   pushed, ran>>

ForeignQuitLateStore(f) ==
    /\ fpc[f] = "missed"
    /\ quit' = TRUE
    /\ fpc' = [fpc EXCEPT ![f] = "idle"]
    /\ UNCHANGED <<pc, doingTask, taskQueue, functors, eventfd, io, batch,
                   pushed, ran>>

\* The rest of a call a foreign thread has begun.
ForeignStep(f) ==
    \/ ForeignWakeup(f)
    \/ ForeignQuitReads(f)
    \/ ForeignQuitLateStore(f)

\* A descriptor other than the eventfd becomes ready.
IOReady ==
    /\ ~io
    /\ io' = TRUE
    /\ UNCHANGED <<pc, quit, doingTask, taskQueue, functors, eventfd, batch, fpc,
                   pushed, ran>>

-------------------------------------------------------------------------------
Next ==
    \/ StartLoop
    \/ LoopStep
    \/ LoopQuit
    \/ IOReady
    \/ \E t \in Task : LoopPush(t)
    \/ \E f \in Foreign :
          \/ ForeignStep(f)
          \/ ForeignQuit(f)
          \/ ForeignQuitEarlyRead(f)
          \/ \E t \in Task : ForeignPush(f, t)

Spec == Init /\ [][Next]_vars

(* The scheduler runs every thread that can run: a loop that was entered    *)
(* keeps executing and a foreign thread finishes the call it began.  Nobody *)
(* is obliged to call pushTask(), quit() or loop().                         *)
Fairness ==
    /\ WF_vars(LoopProgress)
    /\ \A f \in Foreign : WF_vars(ForeignStep(f))

FairSpec == Spec /\ Fairness

-------------------------------------------------------------------------------
(* Properties.                                                              *)

\* Between two calls of epoll_wait no functor waits in taskQueue_ unless the
\* eventfd is readable or the thread that pushed it is still on its way to
\* wakeup(): pushTask() never leaves a functor for a loop that sleeps.
NoLostWakeup ==
    pc \in {"check", "wait"} /\ taskQueue # <<>> =>
        eventfd \/ \E f \in Foreign : fpc[f] = "pushed"

\* The loop does not sleep through a quit(): in epoll_wait with quit_ set, the
\* eventfd is readable or the caller of quit() is still on its way to write it.
NoLostQuit ==
    pc = "wait" /\ quit =>
        eventfd \/ \E f \in Foreign : fpc[f] \in {"stored", "waking"}

\* Every functor pushed is exactly once in what has begun, in what doTask() has
\* taken over and in the queue, and in the order of the pushes.
Conservation == pushed = ran \o functors \o taskQueue

\* No functor is lost, doubled, overtaken or slept upon, whatever threads push and
\* whenever they quit (EventLoop.cc:126-138, 204-218).
LoopSafety == TypeOK /\ NoLostWakeup /\ Conservation

\* A queued functor is executed, or the loop leaves loop().
QueuedRuns == \A t \in Task :
    t \in Range(taskQueue) /\ pc # "idle" ~> t \in Range(ran) \/ pc = "idle"

\* A loop told to quit leaves loop(), if only after the ten second timeout.
QuitEnds == quit /\ pc # "idle" ~> pc = "idle"

Abstract == INSTANCE Executor WITH
    running <- pc # "idle", pending <- functors \o taskQueue, done <- ran

ImplementsExecutor == Abstract!Spec
===============================================================================
