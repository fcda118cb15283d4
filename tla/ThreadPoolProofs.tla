---------------------------- MODULE ThreadPoolProofs --------------------------
(* Proofs about the sleeping threads of a ThreadPool, for any number of        *)
(* workers and other threads, any tasks and any bound of the queue.            *)
EXTENDS ThreadPool, FiniteSetTheorems, TLAPS

PoolPC == {"none", "test", "take", "empty", "task", "done", "idle", "push", "full"}

\* The threads that are at c in a function of places.
At(pcs, c) == {t \in Thread : pcs[t] = c}

(* NoIdleWorker and NoBlockedCaller are inductive together with what the      *)
(* places say: who pushes has a task, only workers wait for tasks, and before *)
(* start() nobody waits.                                                      *)
Places ==
    /\ \A p \in Producer : pc[p] \in {"idle", "push", "full"}
    /\ \A t \in Thread : pc[t] \in {"push", "full"} => arg[t] \in Task
    /\ owner = "created" => threads = {} /\ \A t \in Thread : pc[t] \in {"none", "idle"}
    /\ running => owner = "started"

PoolInv == TypeOK /\ Places /\ NoIdleWorker /\ NoBlockedCaller

-------------------------------------------------------------------------------
LEMMA ThreadFinite == IsFiniteSet(Thread)
BY ThreadPoolAssumption, FS_Union DEF Thread

\* The number of threads at a place, and how one that moves changes it.
LEMMA CountType ==
    ASSUME NEW pcs \in [Thread -> PoolPC], NEW c \in PoolPC
    PROVE  IsFiniteSet(At(pcs, c)) /\ Cardinality(At(pcs, c)) \in Nat
<1>1. IsFiniteSet(At(pcs, c))
  BY ThreadFinite, FS_Subset DEF At
<1> QED
  BY <1>1, FS_CardinalityType

LEMMA MoveType ==
    ASSUME NEW pcs \in [Thread -> PoolPC], NEW t \in Thread, NEW to \in PoolPC
    PROVE  [pcs EXCEPT ![t] = to] \in [Thread -> PoolPC]
OBVIOUS

LEMMA OneMore ==
    ASSUME NEW pcs \in [Thread -> PoolPC], NEW t \in Thread, NEW c \in PoolPC, pcs[t] # c
    PROVE  Cardinality(At([pcs EXCEPT ![t] = c], c)) = Cardinality(At(pcs, c)) + 1
<1>1. At([pcs EXCEPT ![t] = c], c) = At(pcs, c) \cup {t}
  BY DEF At
<1>2. t \notin At(pcs, c)
  BY DEF At
<1> QED
  BY <1>1, <1>2, CountType, FS_AddElement

LEMMA OneLess ==
    ASSUME NEW pcs \in [Thread -> PoolPC], NEW t \in Thread, NEW to \in PoolPC,
           NEW c \in PoolPC, pcs[t] = c, to # c
    PROVE  Cardinality(At([pcs EXCEPT ![t] = to], c)) = Cardinality(At(pcs, c)) - 1
<1>1. At([pcs EXCEPT ![t] = to], c) = At(pcs, c) \ {t}
  BY DEF At
<1>2. t \in At(pcs, c)
  BY DEF At
<1> QED
  BY <1>1, <1>2, CountType, FS_RemoveElement

LEMMA SameNumber ==
    ASSUME NEW pcs \in [Thread -> PoolPC], NEW t \in Thread, NEW to \in PoolPC,
           NEW c \in PoolPC, pcs[t] # c, to # c
    PROVE  At([pcs EXCEPT ![t] = to], c) = At(pcs, c)
BY DEF At

LEMMA NoFewer ==
    ASSUME NEW pcs \in [Thread -> PoolPC], NEW t \in Thread, NEW to \in PoolPC,
           NEW c \in PoolPC, pcs[t] # c
    PROVE  Cardinality(At(pcs, c)) <= Cardinality(At([pcs EXCEPT ![t] = to], c))
<1>1. At(pcs, c) \subseteq At([pcs EXCEPT ![t] = to], c)
  BY DEF At
<1>2. IsFiniteSet(At([pcs EXCEPT ![t] = to], c))
  BY MoveType, CountType
<1> QED
  BY <1>1, <1>2, FS_Subset

\* notify_one(), by a thread t that goes on to `to`: one waiting thread goes on too.
LEMMA Notified ==
    ASSUME TypeOK, NEW c \in {"empty", "full"}, NEW t \in Thread, pc[t] # c,
           NEW to \in PoolPC, pc' \in NotifyOne(c, [pc EXCEPT ![t] = to])
    PROVE  \/ /\ WaitingFor(c) = {}
              /\ pc' = [pc EXCEPT ![t] = to]
           \/ \E u \in Thread \ {t} :
                /\ pc[u] = c
                /\ pc' = [[pc EXCEPT ![t] = to] EXCEPT
                            ![u] = IF c = "empty" THEN "take" ELSE "push"]
<1>1. CASE WaitingFor(c) = {}
  BY <1>1 DEF NotifyOne
<1>2. CASE WaitingFor(c) # {}
  <2>1. PICK u \in WaitingFor(c) : pc' = [[pc EXCEPT ![t] = to] EXCEPT ![u] = Woken(u)]
    BY <1>2 DEF NotifyOne
  <2>2. u \in Thread /\ pc[u] = c /\ u # t
    BY <2>1 DEF WaitingFor
  <2>3. Woken(u) = IF c = "empty" THEN "take" ELSE "push"
    BY <2>2 DEF Woken
  <2> QED
    BY <2>1, <2>2, <2>3
<1> QED
  BY <1>1, <1>2

\* A thread that moves without touching the queue: it leaves take() only when the
\* queue is empty, and run() only when there is no room.
LEMMA OneMove ==
    ASSUME TypeOK, NoIdleWorker, NoBlockedCaller,
           NEW t \in Thread, NEW to \in PoolPC, pc' = [pc EXCEPT ![t] = to],
           queue' = queue, running' = running,
           pc[t] = "take" \/ to = "empty" => queue = <<>>,
           pc[t] = "push" \/ to = "full" => ~running \/ MaxQueue <= Len(queue)
    PROVE  NoIdleWorker' /\ NoBlockedCaller'
<1> USE DEF PoolPC
<1>1. pc \in [Thread -> PoolPC] /\ Len(queue) \in Nat /\ MaxQueue \in Nat
  BY ThreadPoolAssumption DEF TypeOK
<1>2. NoIdleWorker'
  <2> SUFFICES ASSUME running, NEW u \in Thread, pc'[u] = "empty"
               PROVE  Len(queue) <= Cardinality(At(pc', "take"))
    BY DEF NoIdleWorker, WaitingFor, At
  <2>1. Cardinality(At(pc, "take")) \in Nat /\ pc' \in [Thread -> PoolPC]
    BY <1>1, CountType, MoveType
  <2>2. Cardinality(At(pc', "take")) \in Nat
    BY <1>1, <2>1, CountType
  <2>3. CASE queue = <<>>
    BY <2>2, <2>3
  <2>4. CASE queue # <<>>
    <3>1. pc[u] = "empty"
      BY <1>1, <2>4
    <3>2. Len(queue) <= Cardinality(At(pc, "take"))
      BY <3>1 DEF NoIdleWorker, WaitingFor, At
    <3>3. pc[t] # "take"
      BY <2>4
    <3>4. Cardinality(At(pc, "take")) <= Cardinality(At(pc', "take"))
      BY <1>1, <3>3, NoFewer
    <3> QED
      BY <1>1, <2>1, <2>2, <3>2, <3>4
  <2> QED
    BY <2>3, <2>4
<1>3. NoBlockedCaller'
  <2> SUFFICES ASSUME running, NEW u \in Thread, pc'[u] = "full"
               PROVE  MaxQueue - Len(queue) <= Cardinality(At(pc', "push"))
    BY DEF NoBlockedCaller, WaitingFor, At
  <2>1. Cardinality(At(pc, "push")) \in Nat /\ pc' \in [Thread -> PoolPC]
    BY <1>1, CountType, MoveType
  <2>2. Cardinality(At(pc', "push")) \in Nat
    BY <1>1, <2>1, CountType
  <2>3. CASE MaxQueue <= Len(queue)
    BY <1>1, <2>2, <2>3
  <2>4. CASE ~(MaxQueue <= Len(queue))
    <3>1. pc[u] = "full"
      BY <1>1, <2>4
    <3>2. MaxQueue - Len(queue) <= Cardinality(At(pc, "push"))
      BY <3>1 DEF NoBlockedCaller, WaitingFor, At
    <3>3. pc[t] # "push"
      BY <2>4
    <3>4. Cardinality(At(pc, "push")) <= Cardinality(At(pc', "push"))
      BY <1>1, <3>3, NoFewer
    <3> QED
      BY <1>1, <2>1, <2>2, <3>2, <3>4
  <2> QED
    BY <2>3, <2>4
<1> QED
  BY <1>2, <1>3

-------------------------------------------------------------------------------
(* The types and the places.                                                  *)

\* A step of one thread t to `to`, perhaps with a notification, keeps pc's type and
\* what Places says of the threads' places.
LEMMA PlacesMove ==
    ASSUME TypeOK, Places, NEW t \in Thread, pc[t] \notin {"none", "idle"},
           NEW to \in PoolPC, t \in Producer => to \in {"idle", "push", "full"},
           NEW c \in {"empty", "full"}, pc[t] # c,
           \/ pc' = [pc EXCEPT ![t] = to]
           \/ pc' \in NotifyOne(c, [pc EXCEPT ![t] = to]),
           arg' = arg \/ (arg' = [arg EXCEPT ![t] = NoTask] /\ to \notin {"push", "full"}),
           to \in {"push", "full"} => arg[t] \in Task,
           UNCHANGED <<running, threads, owner>>
    PROVE  pc' \in [Thread -> PoolPC] /\ arg' \in [Thread -> Task \cup {NoTask}] /\ Places'
<1>1. \/ pc' = [pc EXCEPT ![t] = to]
      \/ \E u \in Thread \ {t} :
           /\ pc[u] = c
           /\ pc' = [[pc EXCEPT ![t] = to] EXCEPT
                       ![u] = IF c = "empty" THEN "take" ELSE "push"]
  BY Notified
<1>2. pc \in [Thread -> PoolPC] /\ arg \in [Thread -> Task \cup {NoTask}]
  BY DEF TypeOK, PoolPC
<1>3. owner # "created"
  BY DEF Places
<1>4. CASE pc' = [pc EXCEPT ![t] = to]
  BY <1>2, <1>3, <1>4 DEF Places, Thread, PoolPC
<1>5. CASE \E u \in Thread \ {t} :
             /\ pc[u] = c
             /\ pc' = [[pc EXCEPT ![t] = to] EXCEPT
                         ![u] = IF c = "empty" THEN "take" ELSE "push"]
  <2>1. PICK u \in Thread \ {t} :
             /\ pc[u] = c
             /\ pc' = [[pc EXCEPT ![t] = to] EXCEPT
                         ![u] = IF c = "empty" THEN "take" ELSE "push"]
    BY <1>5
  <2>2. u \in Producer => c = "full"
    BY <2>1 DEF Places
  <2> QED
    BY <1>2, <1>3, <2>1, <2>2 DEF Places, Thread, PoolPC
<1> QED
  BY <1>1, <1>4, <1>5

LEMMA PlacesStep ==
    ASSUME TypeOK, Places, [Next]_vars
    PROVE  TypeOK' /\ Places'
<1> USE ThreadPoolAssumption DEF PoolPC
<1>1. CASE Start
  BY <1>1 DEF Start, TypeOK, Places, Thread
<1>2. CASE Stop
  BY <1>2 DEF Stop, TypeOK, Places, Thread, Woken
<1>3. CASE Join
  BY <1>3 DEF Join, TypeOK, Places
<1>4. ASSUME NEW w \in Worker, Test(w)
      PROVE  TypeOK' /\ Places'
  <2>1. w \in Thread /\ w \notin Producer
    BY DEF Thread
  <2> DEFINE to == IF running THEN "take" ELSE "done"
  <2>2. pc[w] = "test" /\ pc' = [pc EXCEPT ![w] = to] /\ to \in {"take", "done"}
    BY <1>4 DEF Test
  <2>3. UNCHANGED <<running, threads, queue, arg, task, owner, called, begun>>
    BY <1>4 DEF Test
  <2> HIDE DEF to
  <2>4. pc' \in [Thread -> PoolPC] /\ Places'
    BY <2>1, <2>2, <2>3, PlacesMove
  <2> QED
    BY <2>3, <2>4 DEF TypeOK
<1>5. ASSUME NEW w \in Worker, Take(w)
      PROVE  TypeOK' /\ Places'
  <2>1. w \in Thread /\ w \notin Producer /\ pc[w] = "take"
    BY <1>5 DEF Thread, Take
  <2>2. UNCHANGED <<running, threads, arg, owner, called>>
    BY <1>5 DEF Take
  <2>3. CASE Dequeue(w)
    <3>1. Head(queue) \in Task /\ Tail(queue) \in Seq(Task)
      BY <2>3 DEF Dequeue, TypeOK
    <3>2. pc' = [pc EXCEPT ![w] = "task"] \/ pc' \in NotifyOne("full", [pc EXCEPT ![w] = "task"])
      BY <2>3 DEF Dequeue
    <3>3. pc' \in [Thread -> PoolPC] /\ Places'
      BY <2>1, <2>2, <3>2, PlacesMove
    <3>4. begun' \in [Task -> Nat]
      BY <2>3, <3>1 DEF Dequeue, TypeOK
    <3>5. queue' \in Seq(Task) /\ task' \in [Worker -> Task \cup {NoTask}]
      BY <2>3, <3>1 DEF Dequeue, TypeOK
    <3> QED
      BY <2>2, <3>3, <3>4, <3>5 DEF TypeOK
  <2>4. CASE queue = <<>> /\ UNCHANGED <<queue, task, begun>>
             /\ pc' = [pc EXCEPT ![w] = IF running THEN "empty" ELSE "test"]
    <3> DEFINE to == IF running THEN "empty" ELSE "test"
    <3>1. pc' = [pc EXCEPT ![w] = to] /\ to \in {"empty", "test"}
      BY <2>4
    <3> HIDE DEF to
    <3>2. pc' \in [Thread -> PoolPC] /\ Places'
      BY <2>1, <2>2, <3>1, PlacesMove
    <3> QED
      BY <2>2, <2>4, <3>2 DEF TypeOK
  <2> QED
    BY <1>5, <2>3, <2>4 DEF Take
<1>6. ASSUME NEW w \in Worker, TaskCallsRun(w)
      PROVE  TypeOK' /\ Places'
  <2>1. pc[w] = "task" /\ w \in Thread /\ owner # "created"
    BY <1>6 DEF TaskCallsRun, Thread, Places
  <2>2. Child[task[w]] \in Task
    BY <1>6 DEF TaskCallsRun
  <2> QED
    BY <1>6, <2>1, <2>2 DEF TaskCallsRun, EnterRun, TypeOK, Places, Thread
<1>7. ASSUME NEW w \in Worker, TaskReturns(w)
      PROVE  TypeOK' /\ Places'
  <2>1. w \in Thread /\ w \notin Producer /\ pc[w] = "task"
    BY <1>7 DEF Thread, TaskReturns
  <2>2. UNCHANGED <<running, threads, queue, arg, owner, called, begun>>
    BY <1>7 DEF TaskReturns
  <2>3. pc' = [pc EXCEPT ![w] = "test"] /\ task' = [task EXCEPT ![w] = NoTask]
    BY <1>7 DEF TaskReturns
  <2>4. pc' \in [Thread -> PoolPC] /\ Places'
    BY <2>1, <2>2, <2>3, PlacesMove
  <2> QED
    BY <2>2, <2>3, <2>4 DEF TypeOK
<1>8. ASSUME NEW t \in Thread, RunLocked(t)
      PROVE  TypeOK' /\ Places'
  <2>1. pc[t] = "push" /\ arg[t] \in Task
    BY <1>8 DEF RunLocked, Places
  <2>2. UNCHANGED <<running, threads, task, owner, called, begun>>
    BY <1>8 DEF RunLocked
  <2>3. Returned(t) \in {"task", "idle"} /\ (t \in Producer => Returned(t) = "idle")
    BY DEF Returned
  <2>4. CASE Push(t)
    <3>1. queue' \in Seq(Task)
      BY <2>1, <2>4 DEF Push, TypeOK
    <3>2. arg' = [arg EXCEPT ![t] = NoTask]
          /\ pc' \in NotifyOne("empty", [pc EXCEPT ![t] = Returned(t)])
      BY <2>4 DEF Push
    <3>3. pc' \in [Thread -> PoolPC] /\ arg' \in [Thread -> Task \cup {NoTask}] /\ Places'
      BY <2>1, <2>2, <2>3, <3>2, PlacesMove
    <3> QED
      BY <2>2, <3>1, <3>3 DEF TypeOK
  <2>5. CASE pc' = [pc EXCEPT ![t] = "full"] /\ UNCHANGED <<queue, arg>>
    <3>1. pc' \in [Thread -> PoolPC] /\ Places'
      BY <2>1, <2>2, <2>5, PlacesMove
    <3> QED
      BY <2>2, <2>5, <3>1 DEF TypeOK
  <2>6. CASE arg' = [arg EXCEPT ![t] = NoTask] /\ pc' = [pc EXCEPT ![t] = Returned(t)]
             /\ UNCHANGED queue
    <3>1. pc' \in [Thread -> PoolPC] /\ arg' \in [Thread -> Task \cup {NoTask}] /\ Places'
      BY <2>1, <2>2, <2>3, <2>6, PlacesMove
    <3> QED
      BY <2>2, <2>6, <3>1 DEF TypeOK
  <2> QED
    BY <1>8, <2>4, <2>5, <2>6 DEF RunLocked
<1>9. ASSUME NEW p \in Producer, NEW k \in Task, RunCalled(p, k)
      PROVE  TypeOK' /\ Places'
  <2>1. pc[p] = "idle" /\ p \in Thread
    BY <1>9 DEF RunCalled, Thread
  <2>2. CASE RunInline(k)
    <3>1. begun' \in [Task -> Nat]
      BY <2>2 DEF RunInline, TypeOK
    <3>2. called' \in SUBSET Task
      BY <2>2 DEF RunInline, Descendants, TypeOK
    <3> QED
      BY <1>9, <2>2, <3>1, <3>2 DEF RunCalled, RunInline, TypeOK, Places
  <2>3. CASE threads # {} /\ EnterRun(p, k)
    <3>1. owner # "created"
      BY <2>3 DEF Places
    <3> QED
      BY <1>9, <2>1, <2>3, <3>1 DEF RunCalled, EnterRun, TypeOK, Places, Thread
  <2> QED
    BY <1>9, <2>2, <2>3 DEF RunCalled
<1>10. ASSUME NEW t \in Thread, SpuriousWakeup(t)
       PROVE  TypeOK' /\ Places'
  <2>1. UNCHANGED <<running, threads, queue, arg, task, owner, called, begun>>
    BY <1>10 DEF SpuriousWakeup
  <2>2. CASE pc[t] = "empty"
    <3>1. pc' = [pc EXCEPT ![t] = "take"] /\ t \notin Producer
      BY <1>10, <2>2 DEF SpuriousWakeup, Woken, Places
    <3>2. pc' \in [Thread -> PoolPC] /\ Places'
      BY <2>1, <2>2, <3>1, PlacesMove
    <3> QED
      BY <2>1, <3>2 DEF TypeOK
  <2>3. CASE pc[t] = "full"
    <3>1. pc' = [pc EXCEPT ![t] = "push"] /\ arg[t] \in Task
      BY <1>10, <2>3 DEF SpuriousWakeup, Woken, Places
    <3>2. pc' \in [Thread -> PoolPC] /\ Places'
      BY <2>1, <2>3, <3>1, PlacesMove
    <3> QED
      BY <2>1, <3>2 DEF TypeOK
  <2> QED
    BY <1>10, <2>2, <2>3 DEF SpuriousWakeup
<1>11. CASE UNCHANGED vars
  BY <1>11 DEF vars, TypeOK, Places
<1>12. Worker \subseteq Thread /\ Producer \subseteq Thread
  BY DEF Thread
<1> QED
  BY <1>1, <1>2, <1>3, <1>4, <1>5, <1>6, <1>7, <1>8, <1>9, <1>10, <1>11, <1>12
     DEF Next, WorkerStep

-------------------------------------------------------------------------------
(* Nobody sleeps beside what he waits for.                                    *)

\* A push wakes a worker for the task, and fills the room the thread had come for.
LEMMA PushKeeps ==
    ASSUME TypeOK, NoIdleWorker, NoBlockedCaller, NEW t \in Thread, pc[t] = "push",
           NEW to \in {"task", "idle"}, running, Len(queue') = Len(queue) + 1,
           pc' \in NotifyOne("empty", [pc EXCEPT ![t] = to])
    PROVE  NoIdleWorker' /\ NoBlockedCaller'
<1> DEFINE moved == [pc EXCEPT ![t] = to]
<1>1. pc \in [Thread -> PoolPC] /\ Len(queue) \in Nat /\ MaxQueue \in Nat
  BY ThreadPoolAssumption DEF TypeOK, PoolPC
<1>2. /\ to \in PoolPC /\ to # "take" /\ to # "push" /\ to # "empty" /\ to # "full"
      /\ "take" \in PoolPC /\ "push" \in PoolPC
  BY DEF PoolPC
<1>3. \/ WaitingFor("empty") = {} /\ pc' = moved
      \/ \E u \in Thread \ {t} : pc[u] = "empty" /\ pc' = [moved EXCEPT ![u] = "take"]
  BY <1>2, Notified
<1>4. moved \in [Thread -> PoolPC]
      /\ Cardinality(At(moved, "take")) = Cardinality(At(pc, "take"))
      /\ Cardinality(At(moved, "push")) = Cardinality(At(pc, "push")) - 1
  <2>1. moved \in [Thread -> PoolPC]
    BY <1>1, <1>2, MoveType
  <2>2. At(moved, "take") = At(pc, "take")
    BY <1>1, <1>2, SameNumber
  <2>3. Cardinality(At(moved, "push")) = Cardinality(At(pc, "push")) - 1
    BY <1>1, <1>2, OneLess
  <2> QED
    BY <2>1, <2>2, <2>3
<1>5. Cardinality(At(pc, "take")) \in Nat /\ Cardinality(At(pc, "push")) \in Nat
  BY <1>1, <1>2, CountType
<1>6. \A u \in Thread : moved[u] \in {"empty", "full"} => pc[u] = moved[u]
  BY <1>1, <1>2
<1> HIDE DEF moved
<1>7. CASE WaitingFor("empty") = {} /\ pc' = moved
  <2>1. WaitingFor("empty")' = {}
    BY <1>6, <1>7 DEF WaitingFor
  <2>2. ASSUME WaitingFor("full")' # {}
        PROVE  MaxQueue - Len(queue') <= Cardinality(At(pc', "push"))
    <3>1. WaitingFor("full") # {}
      BY <1>6, <1>7, <2>2 DEF WaitingFor
    <3>2. MaxQueue - Len(queue) <= Cardinality(At(pc, "push"))
      BY <3>1 DEF NoBlockedCaller, WaitingFor, At
    <3> QED
      BY <1>1, <1>4, <1>5, <1>7, <3>2
  <2> QED
    BY <2>1, <2>2 DEF NoIdleWorker, NoBlockedCaller, WaitingFor, At
<1>8. ASSUME NEW u \in Thread \ {t}, pc[u] = "empty", pc' = [moved EXCEPT ![u] = "take"]
      PROVE  NoIdleWorker' /\ NoBlockedCaller'
  <2>1. moved[u] = "empty"
    BY <1>1, <1>8 DEF moved
  <2>2. Cardinality(At(pc', "take")) = Cardinality(At(pc, "take")) + 1
    BY <1>2, <1>4, <1>8, <2>1, OneMore
  <2>3. Cardinality(At(pc', "push")) = Cardinality(At(pc, "push")) - 1
    BY <1>2, <1>4, <1>8, <2>1, SameNumber
  <2>4. Len(queue') <= Cardinality(At(pc', "take"))
    <3>1. Len(queue) <= Cardinality(At(pc, "take"))
      BY <1>8 DEF NoIdleWorker, WaitingFor, At
    <3> QED
      BY <1>1, <1>5, <2>2, <3>1
  <2>5. ASSUME WaitingFor("full")' # {}
        PROVE  MaxQueue - Len(queue') <= Cardinality(At(pc', "push"))
    <3>1. WaitingFor("full") # {}
      BY <1>4, <1>6, <1>8, <2>5 DEF WaitingFor
    <3>2. MaxQueue - Len(queue) <= Cardinality(At(pc, "push"))
      BY <3>1 DEF NoBlockedCaller, WaitingFor, At
    <3> QED
      BY <1>1, <1>5, <2>3, <3>2
  <2> QED
    BY <2>4, <2>5 DEF NoIdleWorker, NoBlockedCaller, WaitingFor, At
<1> QED
  BY <1>3, <1>7, <1>8

\* A worker that takes a task makes room, and wakes a caller for it if there is a bound.
LEMMA DequeueKeepsSafe ==
    ASSUME TypeOK, NoIdleWorker, NoBlockedCaller, NEW w \in Worker, pc[w] = "take",
           Dequeue(w), running' = running
    PROVE  NoIdleWorker' /\ NoBlockedCaller'
<1> USE DEF PoolPC
<1> DEFINE moved == [pc EXCEPT ![w] = "task"]
<1>1. pc \in [Thread -> PoolPC] /\ Len(queue) \in Nat /\ MaxQueue \in Nat /\ w \in Thread
      /\ Len(queue) > 0 /\ Len(queue') = Len(queue) - 1
  BY ThreadPoolAssumption DEF TypeOK, Dequeue, Thread
<1>2. \/ MaxQueue = 0 /\ pc' = moved
      \/ WaitingFor("full") = {} /\ pc' = moved
      \/ \E u \in Thread \ {w} : pc[u] = "full" /\ pc' = [moved EXCEPT ![u] = "push"]
  <2>1. CASE MaxQueue > 0
    <3>1. pc' \in NotifyOne("full", [pc EXCEPT ![w] = "task"]) /\ pc[w] # "full"
      BY <2>1 DEF Dequeue
    <3>2. \/ WaitingFor("full") = {} /\ pc' = [pc EXCEPT ![w] = "task"]
          \/ \E u \in Thread \ {w} :
               /\ pc[u] = "full"
               /\ pc' = [[pc EXCEPT ![w] = "task"] EXCEPT
                           ![u] = IF "full" = "empty" THEN "take" ELSE "push"]
      BY <1>1, <3>1, Notified
    <3> QED
      BY <3>2
  <2>2. CASE MaxQueue = 0
    BY <2>2 DEF Dequeue
  <2> QED
    BY <1>1, <2>1, <2>2
<1>3. moved \in [Thread -> PoolPC]
      /\ Cardinality(At(moved, "push")) = Cardinality(At(pc, "push"))
      /\ Cardinality(At(moved, "take")) = Cardinality(At(pc, "take")) - 1
  <2>1. moved \in [Thread -> PoolPC]
    BY <1>1, MoveType
  <2>2. At(moved, "push") = At(pc, "push")
    BY <1>1, SameNumber
  <2>3. Cardinality(At(moved, "take")) = Cardinality(At(pc, "take")) - 1
    BY <1>1, OneLess
  <2> QED
    BY <2>1, <2>2, <2>3
<1>4. Cardinality(At(pc, "take")) \in Nat /\ Cardinality(At(pc, "push")) \in Nat
  BY <1>1, CountType
<1>5. \A u \in Thread : moved[u] \in {"empty", "full"} => pc[u] = moved[u]
  BY <1>1
<1> HIDE DEF moved
<1>6. ASSUME running, WaitingFor("empty") # {}
      PROVE  Len(queue') <= Cardinality(At(moved, "take"))
  <2>1. Len(queue) <= Cardinality(At(pc, "take"))
    BY <1>6 DEF NoIdleWorker, WaitingFor, At
  <2> QED
    BY <1>1, <1>3, <1>4, <2>1
<1>7. CASE pc' = moved /\ (MaxQueue = 0 \/ WaitingFor("full") = {})
  <2>1. MaxQueue = 0 \/ WaitingFor("full")' = {}
    <3>1. CASE WaitingFor("full") = {}
      <4>1. \A u \in Thread : pc'[u] # "full"
        BY <1>5, <1>7, <3>1 DEF WaitingFor
      <4> QED
        BY <4>1 DEF WaitingFor
    <3> QED
      BY <1>7, <3>1
  <2>2. MaxQueue = 0 => MaxQueue - Len(queue') <= Cardinality(At(pc', "push"))
    BY <1>1, <1>3, <1>4, <1>7
  <2>3. WaitingFor("empty")' # {} => WaitingFor("empty") # {}
    BY <1>5, <1>7 DEF WaitingFor
  <2>4. NoIdleWorker'
    BY <1>6, <1>7, <2>3 DEF NoIdleWorker, WaitingFor, At
  <2>5. NoBlockedCaller'
    BY <2>1, <2>2 DEF NoBlockedCaller, WaitingFor, At
  <2> QED
    BY <2>4, <2>5
<1>8. ASSUME NEW u \in Thread \ {w}, pc[u] = "full", pc' = [moved EXCEPT ![u] = "push"]
      PROVE  NoIdleWorker' /\ NoBlockedCaller'
  <2>1. moved[u] = "full"
    BY <1>1, <1>8 DEF moved
  <2>2. Cardinality(At(pc', "push")) = Cardinality(At(pc, "push")) + 1
    <3>1. u \in Thread /\ "push" \in PoolPC /\ moved[u] # "push"
      BY <1>8, <2>1
    <3>2. Cardinality(At([moved EXCEPT ![u] = "push"], "push"))
            = Cardinality(At(moved, "push")) + 1
      BY <1>3, <3>1, OneMore
    <3> QED
      BY <1>3, <1>8, <3>2
  <2>3. Cardinality(At(pc', "take")) = Cardinality(At(moved, "take"))
    <3>1. u \in Thread /\ "push" \in PoolPC /\ "take" \in PoolPC /\ moved[u] # "take"
      BY <1>8, <2>1
    <3>2. At([moved EXCEPT ![u] = "push"], "take") = At(moved, "take")
      BY <1>3, <3>1, SameNumber
    <3> QED
      BY <1>8, <3>2
  <2>4. WaitingFor("empty")' # {} => WaitingFor("empty") # {}
    BY <1>3, <1>5, <1>8 DEF WaitingFor
  <2>5. NoIdleWorker'
    BY <1>6, <2>3, <2>4 DEF NoIdleWorker, WaitingFor, At
  <2>6. running => MaxQueue - Len(queue') <= Cardinality(At(pc', "push"))
    <3>1. running => MaxQueue - Len(queue) <= Cardinality(At(pc, "push"))
      BY <1>8 DEF NoBlockedCaller, WaitingFor, At
    <3> QED
      BY <1>1, <1>4, <2>2, <3>1
  <2> QED
    BY <2>5, <2>6 DEF NoBlockedCaller, WaitingFor, At
<1> QED
  BY <1>2, <1>7, <1>8

LEMMA SleepStep ==
    ASSUME PoolInv, [Next]_vars
    PROVE  NoIdleWorker' /\ NoBlockedCaller'
<1> USE DEF PoolPC, PoolInv
<1>0. Worker \subseteq Thread /\ Producer \subseteq Thread
  BY DEF Thread
<1>1. CASE Start
  <2>1. \A t \in Thread : pc'[t] \notin {"empty", "full"}
    BY <1>1 DEF Start, Places
  <2> QED
    BY <2>1 DEF NoIdleWorker, NoBlockedCaller, WaitingFor
<1>2. CASE Stop
  BY <1>2 DEF Stop, NoIdleWorker, NoBlockedCaller
<1>3. CASE Join
  BY <1>3 DEF Join, NoIdleWorker, NoBlockedCaller, WaitingFor
<1>4. ASSUME NEW w \in Worker, Test(w)
      PROVE  NoIdleWorker' /\ NoBlockedCaller'
  <2> DEFINE to == IF running THEN "take" ELSE "done"
  <2>1. /\ pc[w] = "test" /\ pc' = [pc EXCEPT ![w] = to] /\ to \in {"take", "done"}
        /\ queue' = queue /\ running' = running
    BY <1>4 DEF Test
  <2> HIDE DEF to
  <2> QED
    BY <1>0, <2>1, OneMove
<1>5. ASSUME NEW w \in Worker, Take(w)
      PROVE  NoIdleWorker' /\ NoBlockedCaller'
  <2>1. CASE Dequeue(w)
    BY <1>5, <2>1, DequeueKeepsSafe DEF Take
  <2>2. CASE queue = <<>> /\ UNCHANGED queue
             /\ pc' = [pc EXCEPT ![w] = IF running THEN "empty" ELSE "test"]
    <3> DEFINE to == IF running THEN "empty" ELSE "test"
    <3>1. /\ pc[w] = "take" /\ pc' = [pc EXCEPT ![w] = to] /\ to \in {"empty", "test"}
          /\ queue' = queue /\ running' = running
      BY <1>5, <2>2 DEF Take
    <3> HIDE DEF to
    <3> QED
      BY <1>0, <2>2, <3>1, OneMove
  <2> QED
    BY <1>5, <2>1, <2>2 DEF Take
<1>6. ASSUME NEW w \in Worker, TaskCallsRun(w)
      PROVE  NoIdleWorker' /\ NoBlockedCaller'
  <2>1. /\ pc[w] = "task" /\ pc' = [pc EXCEPT ![w] = "push"]
        /\ queue' = queue /\ running' = running
    BY <1>6 DEF TaskCallsRun, EnterRun
  <2> QED
    BY <1>0, <2>1, OneMove
<1>7. ASSUME NEW w \in Worker, TaskReturns(w)
      PROVE  NoIdleWorker' /\ NoBlockedCaller'
  <2>1. /\ pc[w] = "task" /\ pc' = [pc EXCEPT ![w] = "test"]
        /\ queue' = queue /\ running' = running
    BY <1>7 DEF TaskReturns
  <2> QED
    BY <1>0, <2>1, OneMove
<1>8. ASSUME NEW t \in Thread, RunLocked(t)
      PROVE  NoIdleWorker' /\ NoBlockedCaller'
  <2>1. pc[t] = "push" /\ running' = running
    BY <1>8 DEF RunLocked
  <2>2. CASE Push(t)
    <3>1. Returned(t) \in {"task", "idle"}
      BY DEF Returned
    <3>2. /\ running /\ Len(queue') = Len(queue) + 1
          /\ pc' \in NotifyOne("empty", [pc EXCEPT ![t] = Returned(t)])
      BY <2>2 DEF Push, TypeOK
    <3> QED
      BY <2>1, <3>1, <3>2, PushKeeps
  <2>3. CASE IsFull /\ pc' = [pc EXCEPT ![t] = "full"] /\ UNCHANGED queue
    <3>1. MaxQueue <= Len(queue)
      BY <2>3, ThreadPoolAssumption DEF IsFull, TypeOK
    <3> QED
      BY <2>1, <2>3, <3>1, OneMove
  <2>4. CASE ~running /\ pc' = [pc EXCEPT ![t] = Returned(t)] /\ UNCHANGED queue
    BY <2>1, <2>4 DEF NoIdleWorker, NoBlockedCaller
  <2> QED
    BY <1>8, <2>2, <2>3, <2>4 DEF RunLocked
<1>9. ASSUME NEW p \in Producer, NEW k \in Task, RunCalled(p, k)
      PROVE  NoIdleWorker' /\ NoBlockedCaller'
  <2>1. pc[p] = "idle" /\ queue' = queue /\ running' = running
    BY <1>9 DEF RunCalled
  <2>2. CASE pc' = [pc EXCEPT ![p] = "push"]
    BY <1>0, <2>1, <2>2, OneMove
  <2>3. CASE pc' = pc
    BY <2>1, <2>3 DEF NoIdleWorker, NoBlockedCaller, WaitingFor
  <2> QED
    BY <1>9, <2>2, <2>3 DEF RunCalled, RunInline, EnterRun
<1>10. ASSUME NEW t \in Thread, SpuriousWakeup(t)
       PROVE  NoIdleWorker' /\ NoBlockedCaller'
  <2>1. /\ pc[t] \in {"empty", "full"} /\ Woken(t) \in {"take", "push"}
        /\ pc' = [pc EXCEPT ![t] = Woken(t)]
        /\ queue' = queue /\ running' = running
    BY <1>10 DEF SpuriousWakeup, Woken
  <2> QED
    BY <2>1, OneMove
<1>11. CASE UNCHANGED vars
  BY <1>11 DEF vars, NoIdleWorker, NoBlockedCaller, WaitingFor
<1> QED
  BY <1>0, <1>1, <1>2, <1>3, <1>4, <1>5, <1>6, <1>7, <1>8, <1>9, <1>10, <1>11
     DEF Next, WorkerStep

-------------------------------------------------------------------------------
LEMMA PoolInvInit ==
    ASSUME Init
    PROVE  PoolInv
<1>1. TypeOK
  <2>1. queue \in Seq(Task) /\ called \in SUBSET Task
    BY DEF Init
  <2>2. pc \in [Thread -> PoolPC]
    BY DEF Init, PoolPC
  <2> QED
    BY <2>1, <2>2 DEF Init, TypeOK, PoolPC
<1>2. Places
  BY ThreadPoolAssumption DEF Init, Places, Thread
<1>3. ~running
  BY DEF Init
<1> QED
  BY <1>1, <1>2, <1>3 DEF PoolInv, NoIdleWorker, NoBlockedCaller

\* For any number of workers and callers, any tasks and any bound of the queue: no
\* worker sleeps beside a task nobody has been woken for, no caller of run() beside
\* room nobody has been woken for (ThreadPool.cc:69-97).
THEOREM NobodySleepsInVain == Spec => []PoolSafety
<1>1. Init => PoolInv
  BY PoolInvInit
<1>2. PoolInv /\ [Next]_vars => PoolInv'
  BY PlacesStep, SleepStep DEF PoolInv
<1>3. PoolInv => PoolSafety
  BY DEF PoolInv, PoolSafety
<1> QED
  BY <1>1, <1>2, <1>3, PTL DEF Spec

-------------------------------------------------------------------------------
(* No task runs twice.                                                        *)

InQueue(k) == \E i \in DOMAIN queue : queue[i] = k
InRun(k) == \E t \in Thread : arg[t] = k

(* RunsOnce without counting: a task is at most once in each of the places it *)
(* goes through, in one of them at a time, and in none before it is passed to *)
(* run().                                                                     *)
OnePlace ==
    /\ \A k \in Task : begun[k] <= 1
    /\ \A k \in Task : \A i, j \in DOMAIN queue : queue[i] = k /\ queue[j] = k => i = j
    /\ \A k \in Task : \A t, u \in Thread : arg[t] = k /\ arg[u] = k => t = u
    /\ \A k \in Task : begun[k] = 1 => ~InQueue(k) /\ ~InRun(k)
    /\ \A k \in Task : InQueue(k) => ~InRun(k)
    /\ \A k \in Task \ called : begun[k] = 0 /\ ~InQueue(k) /\ ~InRun(k)

(* A pool without threads has executed with each task the one that passes it, *)
(* so a task nobody was given has no descendant that has begun.               *)
InlineClosed == threads = {} =>
    \A j \in called : j \in Root \/ \E i \in called : Child[i] = j

HistoryInv ==
    /\ PoolInv
    /\ owner # "created" => threads = Worker
    /\ OnePlace
    /\ InlineClosed

\* The descendants of a task: it is one, its task is one with it, and a set that is
\* closed in this way holds them all.
LEMMA DescendantsClosed ==
    ASSUME NEW k \in Task
    PROVE  /\ k \in Descendants(k)
           /\ \A i \in Descendants(k) : Child[i] \in Task => Child[i] \in Descendants(k)
           /\ \A S \in SUBSET Task :
                k \in S /\ (\A i \in S : Child[i] \in Task => Child[i] \in S)
                  => Descendants(k) \subseteq S
BY DEF Descendants

\* Each descendant but the task itself is passed to run() by another one.
LEMMA DescendantsPassed ==
    ASSUME NEW k \in Task, NEW j \in Descendants(k), j # k
    PROVE  \E i \in Descendants(k) : Child[i] = j
<1> DEFINE S == {d \in Descendants(k) : d = k \/ \E i \in Descendants(k) : Child[i] = d}
<1>1. S \in SUBSET Task
  BY DEF Descendants
<1>2. k \in S
  BY DescendantsClosed
<1>3. \A i \in S : Child[i] \in Task => Child[i] \in S
  BY DescendantsClosed
<1>4. Descendants(k) \subseteq S
  <2> HIDE DEF S
  <2> QED
    BY <1>1, <1>2, <1>3, DescendantsClosed
<1> QED
  BY <1>4

\* In a pool without threads, a task nobody was given has only such descendants.
LEMMA DescendantsFresh ==
    ASSUME InlineClosed, threads = {}, called \in SUBSET Task, NEW k \in Root \ called
    PROVE  Descendants(k) \cap called = {}
<1> DEFINE S == Descendants(k) \ called
<1>1. k \in Task /\ S \in SUBSET Task
  BY DEF Root, Descendants
<1>2. k \in S
  BY <1>1, DescendantsClosed
<1>3. ASSUME NEW i \in S, Child[i] \in Task
      PROVE  Child[i] \in S
  <2>1. Child[i] \in Descendants(k)
    BY <1>1, <1>3, DescendantsClosed
  <2>2. ASSUME Child[i] \in called
        PROVE  FALSE
    <3>1. Child[i] \notin Root
      BY <1>1 DEF Root
    <3>2. PICK h \in called : Child[h] = Child[i]
      BY <2>2, <3>1 DEF InlineClosed
    <3>3. h = i
      BY <1>1, <1>3, <3>2, ThreadPoolAssumption
    <3> QED
      BY <3>3
  <2> QED
    BY <2>1, <2>2
<1>4. Descendants(k) \subseteq S
  <2> HIDE DEF S
  <2> QED
    BY <1>1, <1>2, <1>3, DescendantsClosed
<1> QED
  BY <1>4

\* A thread begins run(k) with a task that was not passed to run() before.
LEMMA EnterOnce ==
    ASSUME HistoryInv, NEW t \in Thread, NEW k \in Task \ called, EnterRun(t, k),
           queue' = queue
    PROVE  OnePlace'
<1>1. begun[k] = 0 /\ ~InQueue(k) /\ ~InRun(k)
  BY DEF HistoryInv, OnePlace
<1>2. arg' = [arg EXCEPT ![t] = k] /\ called' = called \cup {k} /\ begun' = begun
  BY DEF EnterRun
<1>3. arg \in [Thread -> Task \cup {NoTask}]
  BY DEF HistoryInv, PoolInv, TypeOK
<1>4. \A j \in Task : InRun(j)' => j = k \/ InRun(j)
  BY <1>2, <1>3 DEF InRun
<1>5. \A j \in Task : InQueue(j)' <=> InQueue(j)
  BY DEF InQueue
<1>6. \A j \in Task : \A u, v \in Thread : arg'[u] = j /\ arg'[v] = j => u = v
  BY <1>1, <1>2, <1>3 DEF HistoryInv, OnePlace, InRun
<1> QED
  BY <1>1, <1>2, <1>4, <1>5, <1>6 DEF HistoryInv, OnePlace

\* The task goes from the argument of run() to the queue.
LEMMA PushOnce ==
    ASSUME HistoryInv, NEW t \in Thread, pc[t] = "push", Push(t), UNCHANGED <<called, begun>>
    PROVE  OnePlace'
<1> DEFINE k == arg[t]
<1>1. k \in Task /\ queue \in Seq(Task) /\ arg \in [Thread -> Task \cup {NoTask}]
      /\ NoTask \notin Task
  BY ThreadPoolAssumption DEF HistoryInv, PoolInv, Places, TypeOK
<1>2. InRun(k) /\ ~InQueue(k) /\ begun[k] # 1
  BY <1>1 DEF InRun, HistoryInv, OnePlace
<1>3. queue' = Append(queue, k) /\ arg' = [arg EXCEPT ![t] = NoTask]
  BY DEF Push
<1>4. \A j \in Task : InRun(j)' => j # k /\ InRun(j)
  BY <1>1, <1>3 DEF InRun, HistoryInv, OnePlace
<1>5. \A j \in Task : InQueue(j)' => j = k \/ InQueue(j)
  BY <1>1, <1>3 DEF InQueue
<1>6. \A j \in Task : \A a, b \in DOMAIN queue' : queue'[a] = j /\ queue'[b] = j => a = b
  <2> SUFFICES ASSUME NEW j \in Task, NEW a \in DOMAIN queue', NEW b \in DOMAIN queue',
                      queue'[a] = j, queue'[b] = j
               PROVE  a = b
    OBVIOUS
  <2>1. CASE j = k
    BY <1>1, <1>2, <1>3, <2>1 DEF InQueue
  <2>2. CASE j # k
    <3>1. a \in DOMAIN queue /\ b \in DOMAIN queue /\ queue[a] = j /\ queue[b] = j
      BY <1>1, <1>3, <2>2
    <3> QED
      BY <3>1 DEF HistoryInv, OnePlace
  <2> QED
    BY <2>1, <2>2
<1>7. \A j \in Task : \A u, v \in Thread : arg'[u] = j /\ arg'[v] = j => u = v
  BY <1>1, <1>3 DEF HistoryInv, OnePlace
<1>8. \A j \in Task \ called : j # k
  BY <1>2 DEF HistoryInv, OnePlace
<1> HIDE DEF k
<1> QED
  BY <1>2, <1>4, <1>5, <1>6, <1>7, <1>8 DEF HistoryInv, OnePlace

\* The task goes from the queue to the worker that begins it.
LEMMA DequeueOnce ==
    ASSUME HistoryInv, NEW w \in Worker, Dequeue(w), UNCHANGED <<arg, called>>
    PROVE  OnePlace'
<1> DEFINE k == Head(queue)
<1>1. k \in Task /\ queue \in Seq(Task) /\ queue # <<>> /\ begun \in [Task -> Nat]
  BY DEF HistoryInv, PoolInv, TypeOK, Dequeue
<1>2. queue' = Tail(queue) /\ begun' = [begun EXCEPT ![k] = @ + 1]
  BY DEF Dequeue
<1>3. k = queue[1] /\ 1 \in DOMAIN queue
  BY <1>1
<1>4. InQueue(k) /\ begun[k] = 0 /\ ~InRun(k)
  <2>1. InQueue(k) /\ begun[k] # 1 /\ begun[k] <= 1
    BY <1>1, <1>3 DEF InQueue, HistoryInv, OnePlace
  <2> QED
    BY <1>1, <2>1 DEF HistoryInv, OnePlace
<1>5. \A a \in DOMAIN queue' : a + 1 \in DOMAIN queue /\ queue'[a] = queue[a + 1] /\ a \in Nat
                                /\ a + 1 # 1
  BY <1>1, <1>2
<1>6. \A j \in Task : InQueue(j)' => j # k /\ InQueue(j)
  <2> SUFFICES ASSUME NEW j \in Task, NEW a \in DOMAIN queue', queue'[a] = j
               PROVE  j # k /\ InQueue(j)
    BY DEF InQueue
  <2>1. InQueue(j) /\ queue[a + 1] = j
    BY <1>5 DEF InQueue
  <2>2. j # k
    BY <1>1, <1>3, <1>5, <2>1 DEF HistoryInv, OnePlace
  <2> QED
    BY <2>1, <2>2
<1>7. \A j \in Task : \A a, b \in DOMAIN queue' : queue'[a] = j /\ queue'[b] = j => a = b
  <2> SUFFICES ASSUME NEW j \in Task, NEW a \in DOMAIN queue', NEW b \in DOMAIN queue',
                      queue'[a] = j, queue'[b] = j
               PROVE  a = b
    OBVIOUS
  <2>1. a + 1 = b + 1
    BY <1>5 DEF HistoryInv, OnePlace
  <2> QED
    BY <1>5, <2>1
<1>8. \A j \in Task : begun'[j] = IF j = k THEN 1 ELSE begun[j]
  BY <1>1, <1>2, <1>4
<1>9. \A j \in Task : InRun(j)' <=> InRun(j)
  BY DEF InRun
<1>10. \A j \in Task \ called : j # k
  BY <1>4 DEF HistoryInv, OnePlace
<1>11. \A j \in Task : \A t, u \in Thread : arg'[t] = j /\ arg'[u] = j => t = u
  BY DEF HistoryInv, OnePlace
<1> HIDE DEF k
<1>12. \A j \in Task : begun'[j] <= 1
  BY <1>8 DEF HistoryInv, OnePlace
<1>13. \A j \in Task : begun'[j] = 1 => ~InQueue(j)' /\ ~InRun(j)'
  BY <1>4, <1>6, <1>8, <1>9 DEF HistoryInv, OnePlace
<1>14. \A j \in Task : InQueue(j)' => ~InRun(j)'
  BY <1>6, <1>9 DEF HistoryInv, OnePlace
<1>15. \A j \in Task \ called' : begun'[j] = 0 /\ ~InQueue(j)' /\ ~InRun(j)'
  BY <1>6, <1>8, <1>9, <1>10 DEF HistoryInv, OnePlace
<1> QED
  BY <1>7, <1>11, <1>12, <1>13, <1>14, <1>15 DEF OnePlace

\* A pool without threads executes a task and its descendants, none of which was given
\* to it before.
LEMMA InlineOnce ==
    ASSUME HistoryInv, threads = {}, NEW k \in Root \ called, RunInline(k), queue' = queue
    PROVE  OnePlace' /\ InlineClosed'
<1>1. Descendants(k) \cap called = {} /\ k \in Task
  BY DescendantsFresh DEF HistoryInv, PoolInv, TypeOK, Root
<1>2. \A j \in Descendants(k) : j \in Task \ called
  BY <1>1 DEF Descendants
<1>3. /\ called' = called \cup Descendants(k) /\ arg' = arg
      /\ begun' = [j \in Task |-> IF j \in Descendants(k) THEN begun[j] + 1 ELSE begun[j]]
  BY DEF RunInline
<1>4. \A j \in Task : (InQueue(j)' <=> InQueue(j)) /\ (InRun(j)' <=> InRun(j))
  BY <1>3 DEF InQueue, InRun
<1>5. \A j \in Descendants(k) : begun[j] = 0 /\ ~InQueue(j) /\ ~InRun(j)
  BY <1>2 DEF HistoryInv, OnePlace
<1>6. \A j \in Task : begun'[j] = IF j \in Descendants(k) THEN 1 ELSE begun[j]
  BY <1>3, <1>5
<1>7. OnePlace'
  BY <1>2, <1>3, <1>4, <1>5, <1>6 DEF HistoryInv, OnePlace
<1>8. InlineClosed'
  <2> SUFFICES ASSUME NEW j \in called'
               PROVE  j \in Root \/ \E i \in called' : Child[i] = j
    BY DEF InlineClosed
  <2>1. CASE j \in called
    BY <1>3, <2>1 DEF HistoryInv, InlineClosed
  <2>2. CASE j \in Descendants(k)
    BY <1>1, <1>3, <2>2, DescendantsPassed
  <2> QED
    BY <1>3, <2>1, <2>2
<1> QED
  BY <1>7, <1>8

LEMMA HistoryStep ==
    ASSUME HistoryInv, [Next]_vars
    PROVE  HistoryInv'
<1>1. PoolInv'
  BY PlacesStep, SleepStep DEF HistoryInv, PoolInv
<1>2. owner' # "created" => threads' = Worker
  BY DEF HistoryInv, Next, vars, Start, Stop, Join, WorkerStep, Test, Take, TaskCallsRun,
         TaskReturns, RunLocked, RunCalled, SpuriousWakeup
<1>3. ASSUME NEW t \in Thread, RunLocked(t)
      PROVE  OnePlace' /\ InlineClosed'
  <2>1. UNCHANGED <<threads, called, begun>> /\ pc[t] = "push"
    BY <1>3 DEF RunLocked
  <2>2. InlineClosed'
    BY <2>1 DEF HistoryInv, InlineClosed
  <2>3. CASE Push(t)
    BY <2>1, <2>2, <2>3, PushOnce
  <2>4. CASE UNCHANGED queue /\ arg' \in {arg, [arg EXCEPT ![t] = NoTask]}
    <3>1. \A j \in Task : InQueue(j)' <=> InQueue(j)
      BY <2>4 DEF InQueue
    <3>2. \A u \in Thread : arg'[u] = NoTask \/ arg'[u] = arg[u]
      BY <2>4 DEF HistoryInv, PoolInv, TypeOK
    <3>3. \A j \in Task : InRun(j)' => InRun(j)
      BY <3>2, ThreadPoolAssumption DEF InRun
    <3>4. \A j \in Task : \A u, v \in Thread : arg'[u] = j /\ arg'[v] = j => u = v
      BY <3>2, ThreadPoolAssumption DEF HistoryInv, OnePlace
    <3>5. OnePlace'
      BY <2>1, <2>4, <3>1, <3>3, <3>4 DEF HistoryInv, OnePlace
    <3> QED
      BY <2>2, <3>5
  <2> QED
    BY <1>3, <2>3, <2>4 DEF RunLocked
<1>4. ASSUME NEW w \in Worker, Take(w)
      PROVE  OnePlace' /\ InlineClosed'
  <2>1. InlineClosed'
    BY <1>4 DEF Take, HistoryInv, InlineClosed
  <2>2. CASE Dequeue(w)
    BY <1>4, <2>1, <2>2, DequeueOnce DEF Take
  <2>3. CASE UNCHANGED <<queue, begun>>
    BY <1>4, <2>1, <2>3 DEF Take, HistoryInv, OnePlace, InQueue, InRun
  <2> QED
    BY <1>4, <2>2, <2>3 DEF Take
<1>5. ASSUME NEW w \in Worker, TaskCallsRun(w)
      PROVE  OnePlace' /\ InlineClosed'
  <2>1. w \in Thread /\ pc[w] = "task"
    BY <1>5 DEF TaskCallsRun, Thread
  <2>2. owner # "created"
    BY <2>1 DEF HistoryInv, PoolInv, Places
  <2>3. threads # {} /\ threads' = threads
    BY <1>5, <2>2 DEF HistoryInv, TaskCallsRun
  <2>4. OnePlace'
    BY <1>5, <2>1, EnterOnce DEF TaskCallsRun
  <2> QED
    BY <2>3, <2>4 DEF InlineClosed
<1>6. ASSUME NEW p \in Producer, NEW k \in Task, RunCalled(p, k)
      PROVE  OnePlace' /\ InlineClosed'
  <2>1. p \in Thread /\ k \in Root \ called /\ UNCHANGED <<threads, queue>>
    BY <1>6 DEF RunCalled, Thread
  <2>2. CASE threads = {} /\ RunInline(k)
    BY <2>1, <2>2, InlineOnce
  <2>3. CASE threads # {} /\ EnterRun(p, k)
    <3>1. OnePlace'
      BY <2>1, <2>3, EnterOnce
    <3> QED
      BY <2>1, <2>3, <3>1 DEF InlineClosed
  <2> QED
    BY <1>6, <2>2, <2>3 DEF RunCalled
<1>7. ASSUME UNCHANGED <<queue, arg, called, begun>>, threads' \in {threads, Worker}
      PROVE  OnePlace' /\ InlineClosed'
  <2>1. OnePlace'
    BY <1>7 DEF HistoryInv, OnePlace, InQueue, InRun
  <2>2. threads' = {} => threads = {}
    BY <1>7 DEF HistoryInv, PoolInv, TypeOK
  <2>3. InlineClosed'
    BY <1>7, <2>2 DEF HistoryInv, InlineClosed
  <2> QED
    BY <2>1, <2>3
<1>8. OnePlace' /\ InlineClosed'
  <2>1. ASSUME Start \/ Stop \/ Join
        PROVE  OnePlace' /\ InlineClosed'
    BY <1>7, <2>1 DEF Start, Stop, Join
  <2>2. ASSUME NEW w \in Worker, Test(w) \/ TaskReturns(w)
        PROVE  OnePlace' /\ InlineClosed'
    BY <1>7, <2>2 DEF Test, TaskReturns
  <2>3. ASSUME NEW t \in Thread, SpuriousWakeup(t)
        PROVE  OnePlace' /\ InlineClosed'
    BY <1>7, <2>3 DEF SpuriousWakeup
  <2>4. ASSUME UNCHANGED vars
        PROVE  OnePlace' /\ InlineClosed'
    BY <1>7, <2>4 DEF vars
  <2> QED
    BY <1>3, <1>4, <1>5, <1>6, <2>1, <2>2, <2>3, <2>4 DEF Next, WorkerStep, Thread
<1> QED
  BY <1>1, <1>2, <1>8 DEF HistoryInv

\* A set with at most one element has at most one element.
LEMMA AtMostOne ==
    ASSUME NEW S, \A a, b \in S : a = b
    PROVE  Cardinality(S) <= 1 /\ Cardinality(S) \in Nat /\ (S = {} => Cardinality(S) = 0)
<1>1. CASE S = {}
  BY <1>1, FS_EmptySet
<1>2. CASE S # {}
  <2>1. PICK a \in S : S = {a}
    BY <1>2
  <2>2. Cardinality({a}) = 1
    BY FS_Singleton
  <2>3. Cardinality(S) = 1
    BY <2>1, <2>2, Zenon
  <2> QED
    BY <1>2, <2>3
<1> QED
  BY <1>1, <1>2

\* For any number of workers and callers and any tasks that pass tasks to run(): a task
\* is never in two places, a queue entry, the argument of a run() or begun, and never
\* begins twice (ThreadPool.cc:63-97).
THEOREM NoTaskRunsTwice == Spec => []RunsOnce
<1>1. Init => HistoryInv
  <2> SUFFICES ASSUME Init
               PROVE  HistoryInv
    OBVIOUS
  <2>1. PoolInv
    BY PoolInvInit
  <2>2. /\ queue = <<>> /\ called = {} /\ owner = "created"
        /\ \A t \in Thread : arg[t] = NoTask
        /\ \A k \in Task : begun[k] = 0
    BY DEF Init
  <2>3. \A k \in Task : ~InQueue(k) /\ ~InRun(k)
    BY <2>2, ThreadPoolAssumption DEF InQueue, InRun
  <2> QED
    BY <2>1, <2>2, <2>3, ThreadPoolAssumption DEF HistoryInv, OnePlace, InlineClosed
<1>2. HistoryInv /\ [Next]_vars => HistoryInv'
  BY HistoryStep
<1>3. HistoryInv => RunsOnce
  <2> SUFFICES ASSUME HistoryInv, NEW k \in Task
               PROVE  begun[k] + Cardinality({i \in DOMAIN queue : queue[i] = k})
                               + Cardinality({t \in Thread : arg[t] = k}) <= 1
    BY DEF RunsOnce
  <2> DEFINE entries == {i \in DOMAIN queue : queue[i] = k}
             callers == {t \in Thread : arg[t] = k}
  <2>1. /\ Cardinality(entries) <= 1 /\ Cardinality(entries) \in Nat
        /\ entries = {} => Cardinality(entries) = 0
    <3>1. \A a, b \in entries : a = b
      BY DEF HistoryInv, OnePlace
    <3> QED
      BY <3>1, AtMostOne
  <2>2. /\ Cardinality(callers) <= 1 /\ Cardinality(callers) \in Nat
        /\ callers = {} => Cardinality(callers) = 0
    <3>1. \A a, b \in callers : a = b
      BY DEF HistoryInv, OnePlace
    <3> QED
      BY <3>1, AtMostOne
  <2>3. begun[k] \in {0, 1}
    BY DEF HistoryInv, OnePlace, PoolInv, TypeOK
  <2>4. /\ begun[k] = 1 => entries = {} /\ callers = {}
        /\ entries # {} => callers = {}
    BY DEF HistoryInv, OnePlace, InQueue, InRun
  <2> HIDE DEF entries, callers
  <2>5. begun[k] + Cardinality(entries) + Cardinality(callers) <= 1
    BY <2>1, <2>2, <2>3, <2>4
  <2> QED
    BY <2>5 DEF entries, callers
<1> QED
  BY <1>1, <1>2, <1>3, PTL DEF Spec
===============================================================================
