------------------------------- MODULE Executor -------------------------------
(***************************************************************************)
(* What EventLoop::runTask and EventLoop::pushTask promise their callers:  *)
(* a functor handed to the loop is executed by the loop, once, after the   *)
(* functors handed over before it, while the loop runs.  There is no queue *)
(* swap, no wakeup descriptor and no poller here; EventLoop.tla is shown   *)
(* to implement this specification.                                        *)
(***************************************************************************)
EXTENDS Sequences, SequencesExt

CONSTANT Task           \* the functors that may be submitted

VARIABLES running,      \* is the loop inside EventLoop::loop()?
          pending,      \* functors submitted and not yet begun, oldest first
          done          \* functors begun, in the order they began

execVars == <<running, pending, done>>

Init ==
    /\ running = FALSE
    /\ pending = <<>>
    /\ done = <<>>

\* Each functor object is submitted at most once.
Submit(t) ==
    /\ t \notin Range(pending) \cup Range(done)
    /\ pending' = Append(pending, t)
    /\ UNCHANGED <<running, done>>

Execute ==
    /\ running
    /\ pending # <<>>
    /\ done' = Append(done, Head(pending))
    /\ pending' = Tail(pending)
    /\ UNCHANGED running

Start ==
    /\ ~running
    /\ running' = TRUE
    /\ UNCHANGED <<pending, done>>

Stop ==
    /\ running
    /\ running' = FALSE
    /\ UNCHANGED <<pending, done>>

Next ==
    \/ \E t \in Task : Submit(t)
    \/ Execute
    \/ Start
    \/ Stop

SafeSpec == Init /\ [][Next]_execVars

\* A loop that keeps running cannot leave a submitted functor waiting.
Spec == SafeSpec /\ WF_execVars(Execute)
===============================================================================
