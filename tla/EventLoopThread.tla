--------------------------- MODULE EventLoopThread ----------------------------
(***************************************************************************)
(* slite::EventLoopThread (slite/EventLoopThread.cc): an owner starts a    *)
(* thread, waits until the EventLoop on that thread's stack has been       *)
(* published in loop_, uses it, and in the destructor quits and joins it.  *)
(*                                                                         *)
(* The loop is the one of EventLoop.tla; its steps happen here only while  *)
(* the thread is inside loop.loop().                                       *)
(***************************************************************************)
EXTENDS EventLoop

CONSTANTS Owner,       \* the thread that owns the EventLoopThread object
          Settled,     \* does the owner let the loop start before it destroys?
          SelfQuit     \* may a callback of the loop call quit()?

ASSUME EventLoopThreadAssumption ==
    /\ Owner \in Foreign
    /\ Settled \in BOOLEAN
    /\ SelfQuit \in BOOLEAN

VARIABLES
    opc,         \* where the owner is
    tpc,         \* where the thread function is
    published,   \* loop_ # nullptr
    alive        \* is the EventLoop on the thread's stack constructed?

threadVars == <<opc, tpc, published, alive>>
allVars == <<vars, threadVars>>

(* "starting": in cond_.wait.  "quit": ~EventLoopThread() has read a loop_   *)
(* that is not null and is about to call loop_->quit().  "quitting": inside  *)
(* that call.  "join": in thread_.join().                                    *)
OwnerPC == {"new", "starting", "running", "quit", "quitting", "join", "done"}

(* "init": before loop_ is published.  "entering": before loop.loop().       *)
(* "looping": inside it.  "leaving": loop_ is null again, the loop is still  *)
(* alive.                                                                    *)
ThreadPC == {"none", "init", "entering", "looping", "leaving", "exited"}

ThreadTypeOK ==
    /\ TypeOK
    /\ opc \in OwnerPC
    /\ tpc \in ThreadPC
    /\ published \in BOOLEAN
    /\ alive \in BOOLEAN

ThreadInit ==
    /\ Init
    /\ opc = "new"
    /\ tpc = "none"
    /\ published = FALSE
    /\ alive = FALSE

-------------------------------------------------------------------------------
(* threadFunc().                                                            *)

\* Mutant: the waiting thread is notified but loop_ is not stored.
PublishForgotten ==
    /\ tpc = "init"
    /\ alive' = TRUE
    /\ tpc' = "entering"
    /\ UNCHANGED <<vars, opc, published>>

\* EventLoop loop; then, under mutex_, loop_ = &loop and notify_one().
Publish ==
    /\ tpc = "init"
    /\ alive' = TRUE
    /\ published' = TRUE
    /\ tpc' = "entering"
    /\ UNCHANGED <<vars, opc>>

EnterLoop ==
    /\ tpc = "entering"
    /\ StartLoop
    /\ tpc' = "looping"
    /\ UNCHANGED <<opc, published, alive>>

InLoop ==
    /\ tpc = "looping"
    /\ LoopStep
    /\ UNCHANGED threadVars

\* Mutant: the thread returns without resetting loop_.
UnpublishForgotten ==
    /\ tpc = "looping"
    /\ pc = "idle"
    /\ tpc' = "leaving"
    /\ UNCHANGED <<vars, opc, published, alive>>

\* loop.loop() has returned: loop_ = nullptr under mutex_.
Unpublish ==
    /\ tpc = "looping"
    /\ pc = "idle"
    /\ published' = FALSE
    /\ tpc' = "leaving"
    /\ UNCHANGED <<vars, opc, alive>>

\* ~EventLoop, and the thread ends.
DestroyLoop ==
    /\ tpc = "leaving"
    /\ alive' = FALSE
    /\ tpc' = "exited"
    /\ UNCHANGED <<vars, opc, published>>

ThreadStep == Publish \/ EnterLoop \/ InLoop \/ Unpublish \/ DestroyLoop

\* What callbacks running on the loop's thread do.
Callbacks ==
    /\ \/ SelfQuit /\ LoopQuit
       \/ \E t \in Task : LoopPush(t)
    /\ UNCHANGED threadVars

-------------------------------------------------------------------------------
(* The owner.                                                               *)

\* startLoop() creates the thread and waits for loop_.
StartThread ==
    /\ opc = "new"
    /\ opc' = "starting"
    /\ tpc' = "init"
    /\ UNCHANGED <<vars, published, alive>>

\* cond_.wait returns: the predicate loop_ != nullptr holds under mutex_.
StartReturns ==
    /\ opc = "starting"
    /\ published
    /\ opc' = "running"
    /\ UNCHANGED <<vars, tpc, published, alive>>

\* Between startLoop() and the destructor the owner hands functors over,
\* through a pointer it knows to be valid.
OwnerPushes ==
    /\ opc = "running"
    /\ alive
    /\ \E t \in Task : ForeignPush(Owner, t)
    /\ UNCHANGED threadVars

\* A wakeup or a quit() the owner has begun goes on.
OwnerCalls ==
    /\ opc \in {"running", "quitting"}
    /\ ForeignStep(Owner)
    /\ UNCHANGED threadVars

\* The owner destroys an object it never started, or one it has finished
\* using; when Settled, after the loop has reached its while.
MayDestroy ==
    \/ opc = "new"
    \/ /\ opc = "running"
       /\ fpc[Owner] = "idle"
       /\ Settled => tpc \in {"looping", "leaving", "exited"}

\* ~EventLoopThread() reads loop_, without mutex_.
DestructorReads ==
    /\ MayDestroy
    /\ opc' = IF published THEN "quit" ELSE "join"
    /\ UNCHANGED <<vars, tpc, published, alive>>

DestructorQuits ==
    /\ opc = "quit"
    /\ ForeignQuit(Owner) \/ ForeignQuitEarlyRead(Owner)
    /\ opc' = "quitting"
    /\ UNCHANGED <<tpc, published, alive>>

QuitReturns ==
    /\ opc = "quitting"
    /\ fpc[Owner] = "idle"
    /\ opc' = "join"
    /\ UNCHANGED <<vars, tpc, published, alive>>

\* thread_.join() if the thread was ever started.
Join ==
    /\ opc = "join"
    /\ tpc \in {"none", "exited"}
    /\ opc' = "done"
    /\ UNCHANGED <<vars, tpc, published, alive>>

OwnerStep ==
    \/ StartReturns
    \/ OwnerCalls
    \/ DestructorQuits
    \/ QuitReturns
    \/ Join

\* Channels beside the eventfd are registered by those who know the loop.
Descriptor ==
    /\ alive
    /\ opc # "starting"
    /\ IOReady
    /\ UNCHANGED threadVars

\* Everything is over.
Finished ==
    /\ opc = "done"
    /\ UNCHANGED allVars

ThreadNext ==
    \/ StartThread
    \/ OwnerStep
    \/ OwnerPushes
    \/ DestructorReads
    \/ ThreadStep
    \/ Callbacks
    \/ Descriptor
    \/ Finished

\* The scheduler runs both threads; the owner may keep the object for ever.
ThreadSpec ==
    /\ ThreadInit
    /\ [][ThreadNext]_allVars
    /\ WF_allVars(ThreadStep)
    /\ WF_allVars(OwnerStep)

-------------------------------------------------------------------------------
(* Properties.                                                              *)

\* startLoop() returns, however late the thread publishes its loop.
StartEnds == opc = "starting" ~> opc = "running"

\* ~EventLoopThread() ends the loop and the thread: it never hangs in join().
DestructorEnds == opc \in {"quit", "join"} ~> opc = "done"

\* loop_ never dangles: whoever finds it set finds a constructed loop.
LoopPtrValid == published => alive

\* The object does not die before its thread: when the destructor has returned
\* the loop is gone, and nobody is left who could read loop_ or mutex_.
ThreadDiesFirst == opc = "done" => ~alive /\ tpc \in {"none", "exited"}

\* Neither loop_ nor the object outlives what it stands for (EventLoopThread.cc:18, 40).
ThreadSafety == LoopPtrValid /\ ThreadDiesFirst

\* The two calls of the owner return.
CallsReturn == StartEnds /\ DestructorEnds
===============================================================================
