------------------------------ MODULE ThreadPool ------------------------------
(***************************************************************************)
(* The pool of worker threads with a bounded queue of tasks                *)
(* (slite/ThreadPool.cc).  A critical section, up to the unlock or the     *)
(* wait on a condition variable, is one step; the while (running_) of a    *)
(* worker, which reads without the lock, is a step of its own.  A thread   *)
(* that waits on a condition variable may wake up without a reason.        *)
(***************************************************************************)
EXTENDS Naturals, Sequences, SequencesExt, FiniteSets

CONSTANTS Worker,       \* the threads start() creates, perhaps none
          Producer,     \* the other threads that call run()
          Task,
          NoTask,       \* no task, and the empty function
          Child,        \* the task a task passes to run() in its turn, or NoTask
          MaxQueue      \* maxQueueSize_, 0 for no bound

Thread == Worker \cup Producer

ASSUME ThreadPoolAssumption ==
    /\ IsFiniteSet(Worker)
    /\ IsFiniteSet(Producer)
    /\ Worker \cap Producer = {}
    /\ NoTask \notin Task
    /\ Child \in [Task -> Task \cup {NoTask}]
    \* A task stands for one function object: no two tasks pass the same one.
    /\ \A j, k \in Task : Child[j] = Child[k] /\ Child[k] \in Task => j = k
    /\ MaxQueue \in Nat

VARIABLES
    running,    \* running_
    threads,    \* threads_
    queue,      \* queue_
    pc,         \* what each thread does next, or what it waits for
    arg,        \* the task of the run() a thread is in
    task,       \* the task a worker executes
    owner,      \* the thread that starts and stops the pool
    called,     \* history: the tasks that were passed to run()
    begun       \* history: how often each task has begun

vars == <<running, threads, queue, pc, arg, task, owner, called, begun>>

TypeOK ==
    /\ running \in BOOLEAN
    /\ threads \in {{}, Worker}
    /\ queue \in Seq(Task)
    /\ pc \in [Thread -> {"none", "test", "take", "empty", "task", "done",
                          "idle", "push", "full"}]
    /\ arg \in [Thread -> Task \cup {NoTask}]
    /\ task \in [Worker -> Task \cup {NoTask}]
    /\ owner \in {"created", "started", "joining", "stopped"}
    /\ called \in SUBSET Task
    /\ begun \in [Task -> Nat]

Init ==
    /\ running = FALSE
    /\ threads = {}
    /\ queue = <<>>
    /\ pc = [t \in Thread |-> IF t \in Worker THEN "none" ELSE "idle"]
    /\ arg = [t \in Thread |-> NoTask]
    /\ task = [w \in Worker |-> NoTask]
    /\ owner = "created"
    /\ called = {}
    /\ begun = [k \in Task |-> 0]

-------------------------------------------------------------------------------
(* The condition variables.                                                 *)

\* Threads that wait on notEmpty_ go on to take(), those that wait on notFull_ to
\* the push of run().
Woken(t) == IF pc[t] = "empty" THEN "take" ELSE "push"

WaitingFor(c) == {t \in Thread : pc[t] = c}

\* What notify_one() on the condition may do to pcs.
NotifyOne(c, pcs) ==
    IF WaitingFor(c) = {} THEN {pcs}
    ELSE {[pcs EXCEPT ![t] = Woken(t)] : t \in WaitingFor(c)}

\* A waiting thread wakes up although nobody has notified it.
SpuriousWakeup(t) ==
    /\ pc[t] \in {"empty", "full"}
    /\ pc' = [pc EXCEPT ![t] = Woken(t)]
    /\ UNCHANGED <<running, threads, queue, arg, task, owner, called, begun>>

-------------------------------------------------------------------------------
(* run()                                                                    *)

IsFull == MaxQueue > 0 /\ Len(queue) >= MaxQueue

\* Where run() returns to.
Returned(t) == IF t \in Worker THEN "task" ELSE "idle"

\* The tasks that are not passed to run() by another task.
Root == Task \ {Child[k] : k \in Task}

\* The task, the task it passes to run(), and so on.
Descendants(k) == {j \in Task : \A S \in SUBSET Task :
    k \in S /\ (\A i \in S : Child[i] \in Task => Child[i] \in S) => j \in S}

\* A pool without threads executes the task at once, and with it the tasks of its task.
RunInline(k) ==
    /\ called' = called \cup Descendants(k)
    /\ begun' = [j \in Task |-> IF j \in Descendants(k) THEN begun[j] + 1 ELSE begun[j]]
    /\ UNCHANGED <<pc, arg>>

\* A thread t calls run(k).
EnterRun(t, k) ==
    /\ pc' = [pc EXCEPT ![t] = "push"]
    /\ arg' = [arg EXCEPT ![t] = k]
    /\ called' = called \cup {k}
    /\ UNCHANGED begun

RunCalled(p, k) ==
    /\ pc[p] = "idle"
    /\ k \in Root \ called
    /\ IF threads = {} THEN RunInline(k) ELSE EnterRun(p, k)
    /\ UNCHANGED <<running, threads, queue, task, owner>>

\* Mutant: no worker is notified.
PushSilent(t) ==
    /\ running /\ ~IsFull
    /\ queue' = Append(queue, arg[t])
    /\ arg' = [arg EXCEPT ![t] = NoTask]
    /\ pc' = [pc EXCEPT ![t] = Returned(t)]

\* Mutant: only a push on an empty queue notifies.
PushRarelyNotifies(t) ==
    /\ running /\ ~IsFull
    /\ queue' = Append(queue, arg[t])
    /\ arg' = [arg EXCEPT ![t] = NoTask]
    /\ pc' \in IF queue = <<>> THEN NotifyOne("empty", [pc EXCEPT ![t] = Returned(t)])
                               ELSE {[pc EXCEPT ![t] = Returned(t)]}

\* There is room: the task is queued and one worker notified.
Push(t) ==
    /\ running /\ ~IsFull
    /\ queue' = Append(queue, arg[t])
    /\ arg' = [arg EXCEPT ![t] = NoTask]
    /\ pc' \in NotifyOne("empty", [pc EXCEPT ![t] = Returned(t)])

\* The lock is taken, or taken again after a wait, and the condition tested.
RunLocked(t) ==
    /\ pc[t] = "push"
    /\ \/ Push(t)
       \/ /\ running /\ IsFull
          /\ pc' = [pc EXCEPT ![t] = "full"]
          /\ UNCHANGED <<queue, arg>>
       \/ /\ ~running
          /\ arg' = [arg EXCEPT ![t] = NoTask]
          /\ pc' = [pc EXCEPT ![t] = Returned(t)]
          /\ UNCHANGED queue
    /\ UNCHANGED <<running, threads, task, owner, called, begun>>

-------------------------------------------------------------------------------
(* take() and runInThread()                                                 *)

\* Mutant: the task stays in the queue.
DequeueKeeps(w) ==
    /\ queue # <<>>
    /\ task' = [task EXCEPT ![w] = Head(queue)]
    /\ begun' = [begun EXCEPT ![Head(queue)] = @ + 1]
    /\ pc' \in NotifyOne("full", [pc EXCEPT ![w] = "task"])
    /\ UNCHANGED queue

\* A task is taken, even after stop(), and the lock released to execute it.
Dequeue(w) ==
    /\ queue # <<>>
    /\ task' = [task EXCEPT ![w] = Head(queue)]
    /\ begun' = [begun EXCEPT ![Head(queue)] = @ + 1]
    /\ queue' = Tail(queue)
    /\ pc' \in IF MaxQueue > 0 THEN NotifyOne("full", [pc EXCEPT ![w] = "task"])
                               ELSE {[pc EXCEPT ![w] = "task"]}

\* The lock is taken, or taken again after a wait, and the condition tested; after
\* stop() an empty queue yields an empty task, which is not executed.
Take(w) ==
    /\ pc[w] = "take"
    /\ \/ Dequeue(w)
       \/ /\ queue = <<>>
          /\ pc' = [pc EXCEPT ![w] = IF running THEN "empty" ELSE "test"]
          /\ UNCHANGED <<queue, task, begun>>
    /\ UNCHANGED <<running, threads, arg, owner, called>>

\* Mutant: a worker goes on after stop().
TestAlways(w) ==
    /\ pc[w] = "test"
    /\ pc' = [pc EXCEPT ![w] = "take"]
    /\ UNCHANGED <<running, threads, queue, arg, task, owner, called, begun>>

\* while (running_)
Test(w) ==
    /\ pc[w] = "test"
    /\ pc' = [pc EXCEPT ![w] = IF running THEN "take" ELSE "done"]
    /\ UNCHANGED <<running, threads, queue, arg, task, owner, called, begun>>

\* The task passes its child to run().
TaskCallsRun(w) ==
    /\ pc[w] = "task"
    /\ Child[task[w]] \in Task \ called
    /\ EnterRun(w, Child[task[w]])
    /\ UNCHANGED <<running, threads, queue, task, owner>>

\* The task returns.
TaskReturns(w) ==
    /\ pc[w] = "task"
    /\ Child[task[w]] \notin Task \ called
    /\ task' = [task EXCEPT ![w] = NoTask]
    /\ pc' = [pc EXCEPT ![w] = "test"]
    /\ UNCHANGED <<running, threads, queue, arg, owner, called, begun>>

-------------------------------------------------------------------------------
(* start() and stop()                                                       *)

\* No other thread uses the pool before start() has returned.
Start ==
    /\ owner = "created"
    /\ running' = TRUE
    /\ threads' = Worker
    /\ pc' = [t \in Thread |-> IF t \in Worker THEN "test" ELSE pc[t]]
    /\ owner' = "started"
    /\ UNCHANGED <<queue, arg, task, called, begun>>

\* Mutant: the threads that wait for room are not notified.
StopForgetsFull ==
    /\ owner = "started"
    /\ running' = FALSE
    /\ pc' = [t \in Thread |-> IF pc[t] = "empty" THEN Woken(t) ELSE pc[t]]
    /\ owner' = "joining"
    /\ UNCHANGED <<threads, queue, arg, task, called, begun>>

Stop ==
    /\ owner = "started"
    /\ running' = FALSE
    /\ pc' = [t \in Thread |-> IF pc[t] \in {"empty", "full"} THEN Woken(t) ELSE pc[t]]
    /\ owner' = "joining"
    /\ UNCHANGED <<threads, queue, arg, task, called, begun>>

\* All joined; threads_ keeps the joined threads.
Join ==
    /\ owner = "joining"
    /\ \A w \in threads : pc[w] = "done"
    /\ owner' = "stopped"
    /\ UNCHANGED <<running, threads, queue, pc, arg, task, called, begun>>

WorkerStep(w) ==
    Test(w) \/ Take(w) \/ TaskCallsRun(w) \/ TaskReturns(w) \/ RunLocked(w)

Next ==
    \/ Start \/ Stop \/ Join
    \/ \E w \in Worker : WorkerStep(w)
    \/ \E p \in Producer : RunLocked(p) \/ \E k \in Task : RunCalled(p, k)
    \/ \E t \in Thread : SpuriousWakeup(t)

(* Every thread is scheduled, tasks terminate, and nobody has to wake up    *)
(* without a reason, to call run() or to call stop().                       *)
Fairness ==
    /\ \A w \in Worker : WF_vars(WorkerStep(w))
    /\ \A p \in Producer : WF_vars(RunLocked(p))
    /\ WF_vars(Join)

Spec == Init /\ [][Next]_vars /\ Fairness

-------------------------------------------------------------------------------
(* Properties.                                                              *)

\* notify_one() suffices: while a worker sleeps there are no more tasks in the
\* queue than workers that have been woken, or come by themselves, for them.
NoIdleWorker == running /\ WaitingFor("empty") # {} =>
    Len(queue) <= Cardinality(WaitingFor("take"))

\* Nor does a thread sleep in run() for room that nobody is about to fill.
NoBlockedCaller == running /\ WaitingFor("full") # {} =>
    MaxQueue - Len(queue) <= Cardinality(WaitingFor("push"))

\* No thread sleeps beside what it waits for (ThreadPool.cc:69-97).
PoolSafety == TypeOK /\ NoIdleWorker /\ NoBlockedCaller

\* A task begins at most once, and is in one place: a queue entry, the argument of
\* one run(), or begun.
RunsOnce == \A k \in Task :
    begun[k] + Cardinality({i \in DOMAIN queue : queue[i] = k})
             + Cardinality({t \in Thread : arg[t] = k}) <= 1

\* Until the pool is stopped a queued task begins.
TasksBegin == \A k \in Task : k \in ToSet(queue) ~> begun[k] = 1 \/ ~running

\* stop() ends, although it does not empty the queue, and so does every run() that
\* it overtakes, even one that waits for room.
StopEnds ==
    /\ owner = "joining" ~> owner = "stopped"
    /\ \A t \in Thread : arg[t] # NoTask /\ owner = "joining" ~> arg[t] = NoTask

===============================================================================
