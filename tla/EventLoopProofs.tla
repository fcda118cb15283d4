--------------------------- MODULE EventLoopProofs ----------------------------
(***************************************************************************)
(* Proofs about EventLoop.tla and EventLoopThread.tla, for every set of    *)
(* functors and of foreign threads.                                        *)
(***************************************************************************)
EXTENDS EventLoopThread, SequenceTheorems, TLAPS

\* Every variable has its type in every reachable state of the loop.
THEOREM TypeCorrect == Spec => []TypeOK
<1>1. Init => TypeOK
  BY EmptySeq DEF Init, TypeOK, LoopPC, ForeignPC
<1>2. TypeOK /\ [Next]_vars => TypeOK'
  <2> SUFFICES ASSUME TypeOK, [Next]_vars PROVE TypeOK'
    OBVIOUS
  <2> USE DEF TypeOK, LoopPC, ForeignPC
  <2>1. CASE StartLoop
    BY <2>1 DEF StartLoop
  <2>2. CASE LoopStep
    <3>1. CASE CheckQuit \/ Poll \/ PollTimeout \/ PollError
      BY <3>1 DEF CheckQuit, Poll, PollTimeout, PollError, Ready
    <3>2. CASE HandleWakeup \/ HandleIO \/ HandlerReturns
      BY <3>2 DEF HandleWakeup, HandleIO, HandlerReturns
    <3>3. CASE BeginTasks \/ FunctorReturns \/ EndTasks
      BY <3>3 DEF BeginTasks, FunctorReturns, EndTasks
    <3>4. CASE SwapTasks
      BY <3>4, EmptySeq DEF SwapTasks
    <3>5. CASE RunFunctor
      <4>1. Head(functors) \in Task /\ Tail(functors) \in Seq(Task)
        BY <3>5, HeadTailProperties DEF RunFunctor
      <4>2. Append(ran, Head(functors)) \in Seq(Task)
        BY <4>1, AppendProperties
      <4> QED
        BY <3>5, <4>1, <4>2 DEF RunFunctor
    <3> QED
      BY <2>2, <3>1, <3>2, <3>3, <3>4, <3>5 DEF LoopStep, LoopProgress
  <2>3. CASE LoopQuit \/ IOReady
    BY <2>3 DEF LoopQuit, IOReady
  <2>4. ASSUME NEW t \in Task, LoopPush(t) PROVE TypeOK'
    <3>1. Append(taskQueue, t) \in Seq(Task) /\ Append(pushed, t) \in Seq(Task)
      BY AppendProperties
    <3> QED
      BY <2>4, <3>1 DEF LoopPush, Enqueue
  <2>5. ASSUME NEW f \in Foreign, ForeignStep(f) PROVE TypeOK'
    BY <2>5 DEF ForeignStep, ForeignWakeup, ForeignQuitReads, ForeignQuitLateStore
  <2>6. ASSUME NEW f \in Foreign, ForeignQuit(f) \/ ForeignQuitEarlyRead(f)
        PROVE  TypeOK'
    BY <2>6 DEF ForeignQuit, ForeignQuitEarlyRead
  <2>7. ASSUME NEW f \in Foreign, NEW t \in Task, ForeignPush(f, t) PROVE TypeOK'
    <3>1. Append(taskQueue, t) \in Seq(Task) /\ Append(pushed, t) \in Seq(Task)
      BY AppendProperties
    <3> QED
      BY <2>7, <3>1 DEF ForeignPush, Enqueue
  <2>8. CASE UNCHANGED vars
    BY <2>8 DEF vars
  <2> QED
    BY <2>1, <2>2, <2>3, <2>4, <2>5, <2>6, <2>7, <2>8 DEF Next
<1> QED
  BY <1>1, <1>2, PTL DEF Spec

-------------------------------------------------------------------------------
(* doTask() and the functors: where the loop thread is decides doingTask_,  *)
(* and the local vector is empty outside doTask()'s loop.                   *)

TaskPhase ==
    /\ doingTask <=> pc \in {"swap", "run", "body"}
    /\ pc \notin {"run", "body"} => functors = <<>>

LEMMA TaskPhaseInvariant == Spec => []TaskPhase
<1>1. Init => TaskPhase
  BY DEF Init, TaskPhase
<1>2. TypeOK /\ TaskPhase /\ [Next]_vars => TaskPhase'
  <2> SUFFICES ASSUME TypeOK, TaskPhase, [Next]_vars PROVE TaskPhase'
    OBVIOUS
  <2> USE DEF TypeOK, TaskPhase, LoopPC
  <2>1. CASE StartLoop \/ LoopQuit \/ IOReady
    BY <2>1 DEF StartLoop, LoopQuit, IOReady
  <2>2. CASE LoopStep
    BY <2>2 DEF LoopStep, LoopProgress, CheckQuit, Poll, PollTimeout, PollError, HandleWakeup,
                HandleIO, HandlerReturns, BeginTasks, SwapTasks, RunFunctor,
                FunctorReturns, EndTasks
  <2>3. ASSUME NEW t \in Task, LoopPush(t) PROVE TaskPhase'
    BY <2>3 DEF LoopPush
  <2>4. ASSUME NEW f \in Foreign, ForeignStep(f) \/ ForeignQuit(f)
                                   \/ ForeignQuitEarlyRead(f)
        PROVE  TaskPhase'
    BY <2>4 DEF ForeignStep, ForeignWakeup, ForeignQuitReads,
                ForeignQuitLateStore, ForeignQuit, ForeignQuitEarlyRead
  <2>5. ASSUME NEW f \in Foreign, NEW t \in Task, ForeignPush(f, t)
        PROVE  TaskPhase'
    BY <2>5 DEF ForeignPush
  <2>6. CASE UNCHANGED vars
    BY <2>6 DEF vars
  <2> QED
    BY <2>1, <2>2, <2>3, <2>4, <2>5, <2>6 DEF Next
<1> QED
  BY <1>1, <1>2, TypeCorrect, PTL DEF Spec

-------------------------------------------------------------------------------
(* No wakeup is lost.  NoLostWakeup speaks of the loop between two waits;   *)
(* it is inductive once it also covers the phases before: a functor queued  *)
(* while doTask() runs, or left behind by a loop that ended, has its wakeup *)
(* on the way.                                                              *)

WakeupOwed ==
    pc \in {"idle", "check", "wait", "run", "body"} /\ taskQueue # <<>> =>
        eventfd \/ \E f \in Foreign : fpc[f] = "pushed"

LEMMA WakeupOwedStep ==
    ASSUME ~EarlyPush, TypeOK, TaskPhase, WakeupOwed, [Next]_vars
    PROVE  WakeupOwed'
<1> USE DEF TypeOK, TaskPhase, LoopPC, ForeignPC
<1>1. CASE StartLoop
  BY <1>1 DEF StartLoop, WakeupOwed
<1>2. CASE LoopStep
  <2>1. CASE CheckQuit \/ Poll \/ PollTimeout \/ PollError
    BY <2>1 DEF CheckQuit, Poll, PollTimeout, PollError, WakeupOwed
  <2>2. CASE HandleWakeup \/ HandleIO \/ HandlerReturns \/ BeginTasks
    BY <2>2 DEF HandleWakeup, HandleIO, HandlerReturns, BeginTasks, WakeupOwed
  <2>3. CASE SwapTasks
    BY <2>3 DEF SwapTasks, WakeupOwed
  <2>4. CASE RunFunctor \/ FunctorReturns \/ EndTasks
    BY <2>4 DEF RunFunctor, FunctorReturns, EndTasks, WakeupOwed
  <2> QED
    BY <1>2, <2>1, <2>2, <2>3, <2>4 DEF LoopStep, LoopProgress
<1>3. CASE LoopQuit \/ IOReady
  BY <1>3 DEF LoopQuit, IOReady, WakeupOwed
<1>4. ASSUME NEW t \in Task, LoopPush(t) PROVE WakeupOwed'
  BY <1>4 DEF LoopPush, WakeupOwed
<1>5. ASSUME NEW f \in Foreign, ForeignStep(f) PROVE WakeupOwed'
  <2>1. CASE ForeignWakeup(f)
    BY <2>1 DEF ForeignWakeup, WakeupOwed
  <2>2. CASE ForeignQuitReads(f) \/ ForeignQuitLateStore(f)
    <3>1. \A g \in Foreign : fpc[g] = "pushed" => fpc'[g] = "pushed"
      BY <2>2 DEF ForeignQuitReads, ForeignQuitLateStore
    <3> QED
      BY <2>2, <3>1 DEF ForeignQuitReads, ForeignQuitLateStore, WakeupOwed
  <2> QED
    BY <1>5, <2>1, <2>2 DEF ForeignStep
<1>6. ASSUME NEW f \in Foreign, ForeignQuit(f) \/ ForeignQuitEarlyRead(f)
      PROVE  WakeupOwed'
  <2>1. \A g \in Foreign : fpc[g] = "pushed" => fpc'[g] = "pushed"
    BY <1>6 DEF ForeignQuit, ForeignQuitEarlyRead
  <2> QED
    BY <1>6, <2>1 DEF ForeignQuit, ForeignQuitEarlyRead, WakeupOwed
<1>7. ASSUME NEW f \in Foreign, NEW t \in Task, ForeignPush(f, t)
      PROVE  WakeupOwed'
  BY <1>7 DEF ForeignPush, WakeupOwed
<1>8. CASE UNCHANGED vars
  BY <1>8 DEF vars, WakeupOwed
<1> QED
  BY <1>1, <1>2, <1>3, <1>4, <1>5, <1>6, <1>7, <1>8 DEF Next

\* If the loop's own thread uses pushTask() only inside loop(), the loop never
\* sleeps on a queued functor, whatever the interleaving of the threads.
THEOREM WakeupNotLost ==
    ASSUME ~EarlyPush
    PROVE  Spec => []NoLostWakeup
<1>1. Init => WakeupOwed
  BY DEF Init, WakeupOwed
<1>2. TypeOK /\ TaskPhase /\ WakeupOwed /\ [Next]_vars => WakeupOwed'
  BY WakeupOwedStep
<1>3. WakeupOwed => NoLostWakeup
  BY DEF WakeupOwed, NoLostWakeup
<1> QED
  BY <1>1, <1>2, <1>3, TypeCorrect, TaskPhaseInvariant, PTL DEF Spec

-------------------------------------------------------------------------------
(* No quit() is lost, when the store to quit_ is not delayed.  The missing  *)
(* part of the invariant: nobody is in the state reached by an early load.  *)

QuitOwed ==
    /\ \A f \in Foreign : fpc[f] # "missed"
    /\ NoLostQuit

LEMMA QuitOwedStep ==
    ASSUME ~StoreDelay, TypeOK, TaskPhase, QuitOwed, [Next]_vars
    PROVE  QuitOwed'
<1> USE DEF TypeOK, TaskPhase, QuitOwed, NoLostQuit, LoopPC, ForeignPC
<1>1. CASE StartLoop \/ LoopQuit \/ IOReady
  BY <1>1 DEF StartLoop, LoopQuit, IOReady
<1>2. CASE LoopStep
  BY <1>2 DEF LoopStep, LoopProgress, CheckQuit, Poll, PollTimeout, PollError, HandleWakeup,
              HandleIO, HandlerReturns, BeginTasks, SwapTasks, RunFunctor,
              FunctorReturns, EndTasks
<1>3. ASSUME NEW t \in Task, LoopPush(t) PROVE QuitOwed'
  BY <1>3 DEF LoopPush
<1>4. ASSUME NEW f \in Foreign, ForeignWakeup(f) PROVE QuitOwed'
  BY <1>4 DEF ForeignWakeup
<1>5. ASSUME NEW f \in Foreign, ForeignQuit(f) PROVE QuitOwed'
  BY <1>5 DEF ForeignQuit
<1>6. ASSUME NEW f \in Foreign, ForeignQuitReads(f) PROVE QuitOwed'
  \* In epoll_wait doingTask_ is FALSE: the thread that stored quit_ goes on
  \* to write the eventfd, and so does every other one that owed a write.
  <2>1. \A g \in Foreign : fpc'[g] # "missed"
    BY <1>6 DEF ForeignQuitReads
  <2>2. ASSUME pc = "wait" PROVE
          \A g \in Foreign : fpc[g] \in {"stored", "waking"}
                             => fpc'[g] \in {"stored", "waking"}
    BY <1>6, <2>2 DEF ForeignQuitReads
  <2> QED
    BY <1>6, <2>1, <2>2 DEF ForeignQuitReads
<1>7. ASSUME NEW f \in Foreign, ForeignQuitLateStore(f) \/ ForeignQuitEarlyRead(f)
      PROVE  QuitOwed'
  BY <1>7 DEF ForeignQuitLateStore, ForeignQuitEarlyRead
<1>8. ASSUME NEW f \in Foreign, NEW t \in Task, ForeignPush(f, t) PROVE QuitOwed'
  <2>1. \A g \in Foreign : fpc[g] \in {"stored", "waking"}
                           => fpc'[g] \in {"stored", "waking"}
    BY <1>8 DEF ForeignPush
  <2>2. \A g \in Foreign : fpc'[g] # "missed"
    BY <1>8 DEF ForeignPush
  <2> QED
    BY <1>8, <2>1, <2>2 DEF ForeignPush
<1>9. CASE UNCHANGED vars
  BY <1>9 DEF vars
<1> QED
  BY <1>1, <1>2, <1>3, <1>4, <1>5, <1>6, <1>7, <1>8, <1>9 DEF Next, ForeignStep

\* The loop never sleeps through a quit() when quit_ is stored before
\* doingTask_ is loaded: the order of the two statements of quit() and of the
\* two of the loop (clear doingTask_, then test quit_) leaves no gap.
THEOREM QuitNotLost ==
    ASSUME ~StoreDelay
    PROVE  Spec => []NoLostQuit
<1>1. Init => QuitOwed
  BY DEF Init, QuitOwed, NoLostQuit
<1>2. TypeOK /\ TaskPhase /\ QuitOwed /\ [Next]_vars => QuitOwed'
  BY QuitOwedStep
<1>3. QuitOwed => NoLostQuit
  BY DEF QuitOwed
<1> QED
  BY <1>1, <1>2, <1>3, TypeCorrect, TaskPhaseInvariant, PTL DEF Spec

-------------------------------------------------------------------------------
(* Sequences.                                                               *)

LEMMA AppendToConcat ==
    ASSUME NEW S, NEW s \in Seq(S), NEW u \in Seq(S), NEW e \in S
    PROVE  s \o Append(u, e) = Append(s \o u, e)
<1>1. <<e>> \in Seq(S)
  OBVIOUS
<1>2. (s \o u) \o <<e>> = s \o (u \o <<e>>)
  BY <1>1, ConcatAssociative
<1>3. s \o u \in Seq(S)
  BY ConcatProperties
<1> QED
  BY <1>2, <1>3, AppendIsConcat

LEMMA ShiftHead ==
    ASSUME NEW S, NEW s \in Seq(S), NEW u \in Seq(S), u # <<>>
    PROVE  Append(s, Head(u)) \o Tail(u) = s \o u
<1>1. Head(u) \in S /\ Tail(u) \in Seq(S)
  BY HeadTailProperties
<1>2. <<Head(u)>> \in Seq(S)
  BY <1>1
<1>3. Append(s, Head(u)) \o Tail(u) = (s \o <<Head(u)>>) \o Tail(u)
  BY <1>1, AppendIsConcat
<1>4. @ = s \o (<<Head(u)>> \o Tail(u))
  BY <1>1, <1>2, ConcatAssociative
<1>5. <<Head(u)>> \o Tail(u) = u
  <2> DEFINE v == <<Head(u)>> \o Tail(u)
  <2>0. /\ Len(u) \in Nat \ {0}
        /\ Len(Tail(u)) = Len(u) - 1
        /\ \A i \in 1 .. Len(Tail(u)) : Tail(u)[i] = u[i + 1]
    BY HeadTailProperties, EmptySeq
  <2>1. /\ v \in Seq(S)
        /\ Len(v) = 1 + Len(Tail(u))
        /\ \A i \in 1 .. 1 + Len(Tail(u)) :
              v[i] = IF i <= 1 THEN <<Head(u)>>[i] ELSE Tail(u)[i - 1]
    <3>1. Len(<<Head(u)>>) = 1
      OBVIOUS
    <3> QED
      BY <1>1, <1>2, <3>1, ConcatProperties
  <2>2. Len(v) = Len(u)
    BY <2>0, <2>1
  <2>3. Head(u) = u[1]
    OBVIOUS
  <2>4. ASSUME NEW i \in 1 .. Len(v) PROVE v[i] = u[i]
    <3>1. CASE i = 1
      BY <3>1, <2>0, <2>1, <2>3
    <3>2. CASE i # 1
      <4>1. i - 1 \in 1 .. Len(Tail(u))
        BY <3>2, <2>0, <2>1
      <4>2. v[i] = Tail(u)[i - 1]
        BY <3>2, <2>0, <2>1
      <4> QED
        BY <4>1, <4>2, <2>0
    <3> QED
      BY <3>1, <3>2
  <2> HIDE DEF v
  <2>5. v = u
    BY <2>1, <2>2, <2>4, SeqEqual
  <2> QED
    BY <2>5 DEF v
<1> QED
  BY <1>3, <1>4, <1>5

-------------------------------------------------------------------------------
(* Every functor is run once and in order.                                  *)

LEMMA PushConserves ==
    ASSUME TypeOK, Conservation, NEW t \in Task, Enqueue(t),
           UNCHANGED <<functors, ran>>
    PROVE  Conservation'
<1>1. ran \o functors \in Seq(Task)
  BY ConcatProperties DEF TypeOK
<1>2. (ran \o functors) \o Append(taskQueue, t)
        = Append((ran \o functors) \o taskQueue, t)
  BY <1>1, AppendToConcat DEF TypeOK
<1>3. /\ taskQueue' = Append(taskQueue, t)
      /\ pushed' = Append(pushed, t)
      /\ functors' = functors /\ ran' = ran
  BY DEF Enqueue
<1> QED
  BY <1>2, <1>3, Zenon DEF Conservation

LEMMA ConservationStep ==
    ASSUME TypeOK, TaskPhase, Conservation, [Next]_vars
    PROVE  Conservation'
<1>1. CASE StartLoop \/ LoopQuit \/ IOReady
  BY <1>1 DEF StartLoop, LoopQuit, IOReady, Conservation
<1>2. CASE LoopStep
  <2>1. CASE CheckQuit \/ Poll \/ PollTimeout \/ PollError \/ HandleWakeup
    BY <2>1 DEF CheckQuit, Poll, PollTimeout, PollError, HandleWakeup, Conservation
  <2>2. CASE HandleIO \/ HandlerReturns \/ BeginTasks \/ FunctorReturns \/ EndTasks
    BY <2>2 DEF HandleIO, HandlerReturns, BeginTasks, FunctorReturns, EndTasks,
                Conservation
  <2>3. CASE SwapTasks
    <3>1. functors = <<>> /\ functors' = taskQueue /\ taskQueue' = <<>>
      BY <2>3 DEF SwapTasks, TaskPhase
    <3>2. pushed' = pushed /\ ran' = ran
      BY <2>3 DEF SwapTasks
    <3>3. ran \o <<>> = ran
      BY ConcatEmptySeq DEF TypeOK
    <3>4. ran \o taskQueue \in Seq(Task)
      BY ConcatProperties DEF TypeOK
    <3>5. (ran \o taskQueue) \o <<>> = ran \o taskQueue
      BY <3>4, ConcatEmptySeq
    <3> QED
      BY <3>1, <3>2, <3>3, <3>5 DEF Conservation
  <2>4. CASE RunFunctor
    <3>1. Append(ran, Head(functors)) \o Tail(functors) = ran \o functors
      BY <2>4, ShiftHead DEF RunFunctor, TypeOK
    <3> QED
      BY <2>4, <3>1 DEF RunFunctor, Conservation
  <2> QED
    BY <1>2, <2>1, <2>2, <2>3, <2>4 DEF LoopStep, LoopProgress
<1>3. ASSUME NEW t \in Task, LoopPush(t) PROVE Conservation'
  BY <1>3, PushConserves DEF LoopPush
<1>4. ASSUME NEW f \in Foreign, ForeignStep(f) \/ ForeignQuit(f)
                                 \/ ForeignQuitEarlyRead(f)
      PROVE  Conservation'
  BY <1>4 DEF ForeignStep, ForeignWakeup, ForeignQuitReads, ForeignQuitLateStore,
              ForeignQuit, ForeignQuitEarlyRead, Conservation
<1>5. ASSUME NEW f \in Foreign, NEW t \in Task, ForeignPush(f, t)
      PROVE  Conservation'
  BY <1>5, PushConserves DEF ForeignPush
<1>6. CASE UNCHANGED vars
  BY <1>6 DEF vars, Conservation
<1> QED
  BY <1>1, <1>2, <1>3, <1>4, <1>5, <1>6 DEF Next

\* No functor is lost, run twice or overtaken, across the swap of taskQueue_
\* and across any number of calls of loop().
THEOREM FunctorsConserved == Spec => []Conservation
<1>1. Init => Conservation
  <2>1. <<>> \in Seq(Task)
    BY EmptySeq
  <2>2. (<<>> \o <<>>) \o <<>> = <<>>
    BY <2>1, ConcatEmptySeq
  <2> QED
    BY <2>2 DEF Init, Conservation
<1>2. TypeOK /\ TaskPhase /\ Conservation /\ [Next]_vars => Conservation'
  BY ConservationStep
<1> QED
  BY <1>1, <1>2, TypeCorrect, TaskPhaseInvariant, PTL DEF Spec

\* The queue of functors works: none is lost, doubled, overtaken or slept upon.
THEOREM LoopIsSafe ==
    ASSUME ~EarlyPush
    PROVE  Spec => []LoopSafety
<1>1. TypeOK /\ NoLostWakeup /\ Conservation => LoopSafety
  BY DEF LoopSafety
<1> QED
  BY <1>1, TypeCorrect, WakeupNotLost, FunctorsConserved, PTL

-------------------------------------------------------------------------------
(* The refinement.                                                          *)

LEMMA FreshIsUnknown ==
    ASSUME TypeOK, Conservation, NEW t, Fresh(t)
    PROVE  t \notin Range(functors \o taskQueue) \cup Range(ran)
<1> DEFINE taken == ran \o functors
<1>1. ran \in Seq(Task) /\ functors \in Seq(Task) /\ taskQueue \in Seq(Task)
  BY DEF TypeOK
<1>2. taken \in Seq(Task)
  BY <1>1, ConcatProperties
<1>3. Range(taken) = Range(ran) \cup Range(functors)
  BY <1>1, RangeConcatenation
<1>4. pushed = taken \o taskQueue
  BY DEF Conservation
<1> HIDE DEF taken
<1>5. Range(pushed) = Range(taken) \cup Range(taskQueue)
  BY <1>1, <1>2, <1>4, RangeConcatenation
<1>6. Range(functors \o taskQueue) = Range(functors) \cup Range(taskQueue)
  BY <1>1, RangeConcatenation
<1> QED
  BY <1>3, <1>5, <1>6 DEF Fresh

LEMMA PushSubmits ==
    ASSUME TypeOK, Conservation, NEW t \in Task, Enqueue(t),
           UNCHANGED <<pc, functors, ran>>
    PROVE  Abstract!Submit(t)
<1>1. t \notin Range(functors \o taskQueue) \cup Range(ran)
  BY FreshIsUnknown DEF Enqueue
<1>2. functors \o Append(taskQueue, t) = Append(functors \o taskQueue, t)
  BY AppendToConcat DEF TypeOK
<1>3. /\ taskQueue' = Append(taskQueue, t)
      /\ pc' = pc /\ functors' = functors /\ ran' = ran
  BY DEF Enqueue
<1> QED
  BY <1>1, <1>2, <1>3, Zenon DEF Abstract!Submit, Abstract!Range, Range

LEMMA RefinementStep ==
    ASSUME TypeOK, TaskPhase, Conservation, [Next]_vars
    PROVE  [Abstract!Next]_(Abstract!execVars)
<1> USE DEF Abstract!execVars
<1>1. CASE StartLoop
  BY <1>1 DEF StartLoop, Abstract!Start, Abstract!Next
<1>2. CASE LoopStep
  <2>1. CASE CheckQuit \/ PollError
    BY <2>1 DEF CheckQuit, PollError, Abstract!Stop, Abstract!Next
  <2>2. CASE Poll \/ PollTimeout \/ HandleWakeup \/ HandleIO \/ HandlerReturns
    BY <2>2 DEF Poll, PollTimeout, HandleWakeup, HandleIO, HandlerReturns
  <2>3. CASE BeginTasks \/ FunctorReturns \/ EndTasks
    BY <2>3 DEF BeginTasks, FunctorReturns, EndTasks
  <2>4. CASE SwapTasks
    <3>1. functors = <<>> /\ functors' = taskQueue /\ taskQueue' = <<>>
      BY <2>4 DEF SwapTasks, TaskPhase
    <3>2. functors' \o taskQueue' = functors \o taskQueue
      BY <3>1, ConcatEmptySeq DEF TypeOK
    <3> QED
      BY <2>4, <3>2 DEF SwapTasks
  <2>5. CASE RunFunctor
    <3>1. functors # <<>> /\ pc = "run" /\ pc' = "body"
      BY <2>5 DEF RunFunctor
    <3>2. PICK h \in Task, rest \in Seq(Task) :
             /\ h = Head(functors)
             /\ rest = Tail(functors)
             /\ Append(<<>>, h) \o rest = functors
      <4>1. Append(<<>>, Head(functors)) \o Tail(functors) = <<>> \o functors
        BY <3>1, ShiftHead, EmptySeq DEF TypeOK
      <4> QED
        BY <3>1, <4>1, HeadTailProperties, ConcatEmptySeq DEF TypeOK
    <3>3. /\ functors \o taskQueue # <<>>
          /\ Head(functors \o taskQueue) = Head(functors)
          /\ Tail(functors \o taskQueue) = Tail(functors) \o taskQueue
      <4> DEFINE s == functors \o taskQueue
                 u == Tail(functors) \o taskQueue
      <4>1. /\ Len(functors) \in Nat \ {0}
            /\ Len(taskQueue) \in Nat
            /\ Tail(functors) \in Seq(Task)
            /\ Len(Tail(functors)) = Len(functors) - 1
            /\ \A i \in 1 .. Len(Tail(functors)) : Tail(functors)[i] = functors[i + 1]
        BY <3>1, HeadTailProperties, EmptySeq, LenProperties DEF TypeOK
      <4>2. /\ s \in Seq(Task)
            /\ Len(s) = Len(functors) + Len(taskQueue)
            /\ \A i \in 1 .. Len(functors) + Len(taskQueue) : s[i] =
                 IF i <= Len(functors) THEN functors[i]
                                       ELSE taskQueue[i - Len(functors)]
        BY ConcatProperties DEF TypeOK
      <4>3. /\ u \in Seq(Task)
            /\ Len(u) = Len(functors) - 1 + Len(taskQueue)
            /\ \A i \in 1 .. Len(functors) - 1 + Len(taskQueue) : u[i] =
                 IF i <= Len(functors) - 1 THEN Tail(functors)[i]
                                 ELSE taskQueue[i - (Len(functors) - 1)]
        BY <4>1, ConcatProperties DEF TypeOK
      <4> HIDE DEF s, u
      <4>4. s # <<>>
        BY <4>1, <4>2, EmptySeq
      <4>5. Head(s) = Head(functors)
        <5>1. Head(s) = s[1] /\ Head(functors) = functors[1]
          BY <4>4, <3>1
        <5> QED
          BY <5>1, <4>1, <4>2
      <4>6. /\ Tail(s) \in Seq(Task)
            /\ Len(Tail(s)) = Len(s) - 1
            /\ \A i \in 1 .. Len(Tail(s)) : Tail(s)[i] = s[i + 1]
        BY <4>2, <4>4, HeadTailProperties
      <4>7. ASSUME NEW i \in 1 .. Len(Tail(s)) PROVE Tail(s)[i] = u[i]
        <5>1. /\ i \in Nat \ {0}
              /\ i <= Len(functors) - 1 + Len(taskQueue)
          BY <4>1, <4>2, <4>6
        <5>2. CASE i <= Len(functors) - 1
          BY <5>1, <5>2, <4>1, <4>2, <4>3, <4>6
        <5>3. CASE i > Len(functors) - 1
          <6>1. Tail(s)[i] = taskQueue[i + 1 - Len(functors)]
            BY <5>1, <5>3, <4>1, <4>2, <4>6
          <6>2. u[i] = taskQueue[i - (Len(functors) - 1)]
            BY <5>1, <5>3, <4>1, <4>3
          <6>3. i + 1 - Len(functors) = i - (Len(functors) - 1)
            BY <5>1, <4>1
          <6> QED
            BY <6>1, <6>2, <6>3
        <5> QED
          BY <5>1, <5>2, <5>3, <4>1
      <4>8. Len(Tail(s)) = Len(u)
        BY <4>1, <4>2, <4>3, <4>6
      <4>9. Tail(s) = u
        BY <4>3, <4>6, <4>7, <4>8, SeqEqual
      <4> QED
        BY <4>4, <4>5, <4>9 DEF s, u
    <3> QED
      BY <2>5, <3>1, <3>3 DEF RunFunctor, Abstract!Execute, Abstract!Next
  <2> QED
    BY <1>2, <2>1, <2>2, <2>3, <2>4, <2>5 DEF LoopStep, LoopProgress
<1>3. CASE LoopQuit \/ IOReady
  BY <1>3 DEF LoopQuit, IOReady
<1>4. ASSUME NEW t \in Task, LoopPush(t) PROVE [Abstract!Next]_(Abstract!execVars)
  BY <1>4, PushSubmits DEF LoopPush, Abstract!Next
<1>5. ASSUME NEW f \in Foreign, ForeignStep(f) \/ ForeignQuit(f)
                                 \/ ForeignQuitEarlyRead(f)
      PROVE  UNCHANGED Abstract!execVars
  BY <1>5 DEF ForeignStep, ForeignWakeup, ForeignQuitReads, ForeignQuitLateStore,
              ForeignQuit, ForeignQuitEarlyRead
<1>6. ASSUME NEW f \in Foreign, NEW t \in Task, ForeignPush(f, t)
      PROVE  [Abstract!Next]_(Abstract!execVars)
  BY <1>6, PushSubmits DEF ForeignPush, Abstract!Next
<1>7. CASE UNCHANGED vars
  BY <1>7 DEF vars
<1> QED
  BY <1>1, <1>2, <1>3, <1>4, <1>5, <1>6, <1>7 DEF Next

\* The loop implements the executor it promises, as far as safety goes; that
\* it also keeps executing is checked by the run of FairSpec.
THEOREM LoopImplementsExecutor == Spec => Abstract!SafeSpec
<1>1. Init => Abstract!Init
  <2>1. <<>> \o <<>> = <<>>
    BY EmptySeq, ConcatEmptySeq
  <2> QED
    BY <2>1 DEF Init, Abstract!Init
<1>2. TypeOK /\ TaskPhase /\ Conservation /\ [Next]_vars
         => [Abstract!Next]_(Abstract!execVars)
  BY RefinementStep
<1> QED
  BY <1>1, <1>2, TypeCorrect, TaskPhaseInvariant, FunctorsConserved, PTL
     DEF Spec, Abstract!SafeSpec

------------------------------------------------------------------------------
(***************************************************************************)
(* The life of an EventLoopThread, for any loop and any owner.             *)
(***************************************************************************)
ThreadSafeSpec == ThreadInit /\ [][ThreadNext]_allVars

(***************************************************************************)
(* Where the two threads are decides whether loop_ is set and whether the  *)
(* loop exists; a thread that was never created stays so until the owner   *)
(* starts it.                                                              *)
(***************************************************************************)
Lifetime ==
    /\ published <=> tpc \in {"entering", "looping"}
    /\ alive <=> tpc \in {"entering", "looping", "leaving"}
    /\ opc = "new" => tpc = "none"
    /\ opc = "done" => tpc \in {"none", "exited"}
    /\ tpc \in ThreadPC

LEMMA LifetimeInvariant == ThreadSafeSpec => []Lifetime
<1> USE DEF Lifetime, ThreadPC, threadVars
<1>1. ThreadInit => Lifetime
  BY DEF ThreadInit
<1>2. Lifetime /\ [ThreadNext]_allVars => Lifetime'
  <2> SUFFICES ASSUME Lifetime, [ThreadNext]_allVars PROVE Lifetime'
    OBVIOUS
  <2>1. CASE StartThread
    BY <2>1 DEF StartThread
  <2>2. CASE OwnerStep
    BY <2>2 DEF OwnerStep, StartReturns, OwnerCalls, DestructorQuits, QuitReturns,
                Join
  <2>3. CASE OwnerPushes
    BY <2>3 DEF OwnerPushes
  <2>4. CASE DestructorReads
    BY <2>4 DEF DestructorReads, MayDestroy
  <2>5. CASE ThreadStep
    BY <2>5 DEF ThreadStep, Publish, EnterLoop, InLoop, Unpublish, DestroyLoop
  <2>6. CASE Callbacks \/ Descriptor \/ Finished
    BY <2>6 DEF Callbacks, Descriptor, Finished, allVars
  <2>7. CASE UNCHANGED allVars
    BY <2>7 DEF allVars
  <2> QED
    BY <2>1, <2>2, <2>3, <2>4, <2>5, <2>6, <2>7 DEF ThreadNext
<1> QED
  BY <1>1, <1>2, PTL DEF ThreadSafeSpec

\* loop_ never dangles, however the two threads are scheduled.
THEOREM LoopPtrAlwaysValid == ThreadSpec => []LoopPtrValid
<1>1. Lifetime => LoopPtrValid
  BY DEF Lifetime, LoopPtrValid
<1> QED
  BY <1>1, LifetimeInvariant, PTL DEF ThreadSpec, ThreadSafeSpec

\* The destructor returns only after the thread and its loop are gone.
THEOREM ThreadAlwaysDiesFirst == ThreadSpec => []ThreadDiesFirst
<1>1. Lifetime => ThreadDiesFirst
  BY DEF Lifetime, ThreadDiesFirst
<1> QED
  BY <1>1, LifetimeInvariant, PTL DEF ThreadSpec, ThreadSafeSpec

\* Neither the loop nor the object is used after its end.
THEOREM ThreadIsSafe == ThreadSpec => []ThreadSafety
<1>1. LoopPtrValid /\ ThreadDiesFirst => ThreadSafety
  BY DEF ThreadSafety
<1> QED
  BY <1>1, LoopPtrAlwaysValid, ThreadAlwaysDiesFirst, PTL
==============================================================================
