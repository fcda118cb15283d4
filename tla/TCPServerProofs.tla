--------------------------- MODULE TCPServerProofs ----------------------------
(***************************************************************************)
(* Proofs about the life of the connections of a server, for any           *)
(* connections and any pool of I/O loops.                                  *)
(*                                                                         *)
(* The argument counts the functors.  OrderInv says which functors a       *)
(* connection may have before and after it is announced, whatever the user *)
(* calls; CloseInv, for a user who is careful with forceClose(), that an   *)
(* announced connection is in one of five stages and has the one functor   *)
(* that leads to the next.  What a step does to the functors is stated once*)
(* (Moves), and each step then only says which ones it runs and queues.    *)
(***************************************************************************)
EXTENDS TCPServer, SequenceTheorems, TLAPS

Op == {"established", "remove", "destroyed", "close", "shutdown"}

TaskOf(op, c) == [op |-> op, conn |-> c]

LoopInv == \A l \in Loops :
    /\ idx[l] # 0
    /\ mode[l] # "tasks" => functors[l] = <<>>
    /\ batch[l] # {} => mode[l] = "batch"

ForeignInv == fpc # "idle" => fconn \in Conn

TypeInv == TypeOK /\ LoopInv /\ ForeignInv

-------------------------------------------------------------------------------
(* Types.                                                                   *)

\* What the user's callback leaves behind: nothing, a shutdown() or a
\* forceClose().
LEMMA CallsCases ==
    ASSUME NEW ctx, NEW c, NEW s, NEW r \in Calls(ctx, c, s)
    PROVE  \/ /\ r.tasks = <<>>
              /\ r.state = s \/ (s = "CONNECTED" /\ r.state = "DISCONNECTING")
           \/ /\ r.tasks = <<TaskOf("close", c)>>
              /\ ctx \in ForceFrom
              /\ s \in {"CONNECTED", "DISCONNECTING"}
              /\ r.state = "DISCONNECTED"
BY DEF Calls, TaskOf

\* The functors it queues are none, or one.
LEMMA CallsQueue ==
    ASSUME TypeOK, NEW ctx, NEW l \in Loops, NEW c \in Conn, NEW s,
           NEW r \in Calls(ctx, c, s), queue' = [queue EXCEPT ![l] = @ \o r.tasks]
    PROVE  \/ /\ queue' = queue
              /\ r.state = s \/ (s = "CONNECTED" /\ r.state = "DISCONNECTING")
           \/ /\ Push(l, "close", c)
              /\ ctx \in ForceFrom
              /\ s \in {"CONNECTED", "DISCONNECTING"}
              /\ r.state = "DISCONNECTED"
<1>1. queue \in [Loops -> Seq(Task)] /\ queue[l] \in Seq(Task)
  BY DEF TypeOK
<1>2. CASE r.tasks = <<>> /\ (r.state = s \/ (s = "CONNECTED" /\ r.state = "DISCONNECTING"))
  <2>1. queue[l] \o r.tasks = queue[l]
    BY <1>1, <1>2, ConcatEmptySeq
  <2>2. queue' = queue
    BY <1>1, <2>1
  <2> QED
    BY <1>2, <2>2
<1>3. CASE /\ r.tasks = <<TaskOf("close", c)>>
           /\ ctx \in ForceFrom
           /\ s \in {"CONNECTED", "DISCONNECTING"}
           /\ r.state = "DISCONNECTED"
  <2>1. TaskOf("close", c) \in Task
    BY DEF Task, TaskOf
  <2>2. Append(queue[l], TaskOf("close", c)) = queue[l] \o <<TaskOf("close", c)>>
    BY <1>1, <2>1, AppendIsConcat
  <2>3. Push(l, "close", c)
    BY <1>1, <1>3, <2>2 DEF Push, TaskOf
  <2> QED
    BY <1>3, <2>3
<1>4. \/ /\ r.tasks = <<>>
         /\ r.state = s \/ (s = "CONNECTED" /\ r.state = "DISCONNECTING")
      \/ /\ r.tasks = <<TaskOf("close", c)>>
         /\ ctx \in ForceFrom
         /\ s \in {"CONNECTED", "DISCONNECTING"}
         /\ r.state = "DISCONNECTED"
  BY CallsCases
<1> QED
  BY <1>2, <1>3, <1>4

LEMMA PushType ==
    ASSUME TypeOK, NEW l \in Loops, NEW op \in Op, NEW c \in Conn, Push(l, op, c)
    PROVE  queue' \in [Loops -> Seq(Task)]
<1>1. [op |-> op, conn |-> c] \in Task
  BY DEF Op, Task
<1> QED
  BY <1>1 DEF Push, TypeOK

LEMMA BaseLoop == Base \in Loops
BY DEF Loops

LEMMA LoopsRange ==
    ASSUME TypeOK
    PROVE  Range(loops) \subseteq Loops /\ loops \in Seq(Loops)
<1>1. Range(loops) \subseteq Loops /\ loops \in Seq(Range(loops))
  BY TCPServerAssumption DEF TypeOK, Loops
<1> QED
  BY <1>1, SeqMonotonic

\* The round robin stays inside loops_.
LEMMA NextLoopType ==
    ASSUME TypeOK
    PROVE  NextLoop \in Loops /\ (TakeNextLoop => next' \in 0 .. Len(loops))
<1>1. CASE loops = <<>>
  BY <1>1, BaseLoop DEF NextLoop, TakeNextLoop, TypeOK
<1>2. CASE loops # <<>>
  <2>1. Len(loops) \in Nat \ {0} /\ next \in 0 .. Len(loops)
    BY <1>2, LoopsRange, EmptySeq DEF TypeOK
  <2>2. NextIndex \in 1 .. Len(loops)
    BY <2>1 DEF NextIndex
  <2>3. loops[NextIndex] \in Loops
    BY <2>2, LoopsRange, ElementOfSeq
  <2> QED
    BY <1>2, <2>1, <2>2, <2>3 DEF NextLoop, TakeNextLoop
<1> QED
  BY <1>1, <1>2

LEMMA CallsState ==
    ASSUME TypeOK, NEW ctx, NEW c \in Conn,
           NEW s \in {"CONNECTING", "CONNECTED", "DISCONNECTING", "DISCONNECTED"},
           NEW r \in Calls(ctx, c, s)
    PROVE  r.state \in {"CONNECTING", "CONNECTED", "DISCONNECTING", "DISCONNECTED"}
BY CallsCases

LEMMA CallsQueueType ==
    ASSUME TypeOK, NEW ctx, NEW l \in Loops, NEW c \in Conn, NEW s,
           NEW r \in Calls(ctx, c, s), queue' = [queue EXCEPT ![l] = @ \o r.tasks]
    PROVE  queue' \in [Loops -> Seq(Task)]
<1>1. queue' = queue \/ Push(l, "close", c)
  BY CallsQueue
<1> QED
  BY <1>1, PushType DEF TypeOK, Op

LEMMA EstablishType ==
    ASSUME TypeOK, NEW l \in Loops, NEW c \in Conn, Establish(l, c)
    PROVE  /\ cstate' \in [Conn -> {"none", "CONNECTING", "CONNECTED", "DISCONNECTING",
                                    "DISCONNECTED"}]
           /\ reg' \in [Conn -> {"NEW", "ADD", "DELETE"}]
           /\ recving' \in [Conn -> BOOLEAN]
           /\ up' \in [Conn -> Nat]
           /\ down' \in [Conn -> Nat]
           /\ queue' \in [Loops -> Seq(Task)]
<1>1. PICK r \in Calls("connection", c, "CONNECTED") :
          /\ cstate' = [cstate EXCEPT ![c] = r.state]
          /\ queue' = [queue EXCEPT ![l] = @ \o r.tasks]
  BY DEF Establish
<1>2. r.state \in {"CONNECTING", "CONNECTED", "DISCONNECTING", "DISCONNECTED"}
  BY CallsState
<1>3. queue' \in [Loops -> Seq(Task)]
  BY <1>1, CallsQueueType
<1>4. cstate' \in [Conn -> {"none", "CONNECTING", "CONNECTED", "DISCONNECTING",
                            "DISCONNECTED"}]
  BY <1>1, <1>2 DEF TypeOK
<1>5. /\ reg' = [reg EXCEPT ![c] = "ADD"] /\ recving' = [recving EXCEPT ![c] = TRUE]
      /\ up' = [up EXCEPT ![c] = up[c] + 1] /\ down' = down
  BY DEF Establish
<1>6. /\ reg \in [Conn -> {"NEW", "ADD", "DELETE"}] /\ recving \in [Conn -> BOOLEAN]
      /\ up \in [Conn -> Nat] /\ down \in [Conn -> Nat]
  BY DEF TypeOK
<1>7. reg' \in [Conn -> {"NEW", "ADD", "DELETE"}]
  BY <1>5, <1>6
<1>8. recving' \in [Conn -> BOOLEAN]
  BY <1>5, <1>6
<1>9. up' \in [Conn -> Nat] /\ down' \in [Conn -> Nat]
  BY <1>5, <1>6
<1> QED
  BY <1>3, <1>4, <1>7, <1>8, <1>9

LEMMA CloseType ==
    ASSUME TypeOK, NEW c \in Conn, CloseConnection(c)
    PROVE  /\ cstate' \in [Conn -> {"none", "CONNECTING", "CONNECTED", "DISCONNECTING",
                                    "DISCONNECTED"}]
           /\ reg' \in [Conn -> {"NEW", "ADD", "DELETE"}]
           /\ recving' \in [Conn -> BOOLEAN]
           /\ down' \in [Conn -> Nat]
           /\ queue' \in [Loops -> Seq(Task)]
           /\ connections' \subseteq Conn
<1>1. queue' \in [Loops -> Seq(Task)]
  BY PushType, BaseLoop DEF CloseConnection, RemoveInLoop, TypeOK, Op
<1>2. connections' \subseteq Conn
  BY DEF CloseConnection, RemoveInLoop, TypeOK
<1>3. /\ cstate' = [cstate EXCEPT ![c] = "DISCONNECTED"]
      /\ reg' = [reg EXCEPT ![c] = Disabled(reg[c])]
      /\ recving' = [recving EXCEPT ![c] = FALSE]
      /\ down' = [down EXCEPT ![c] = down[c] + 1]
  BY DEF CloseConnection
<1>4. cstate' \in [Conn -> {"none", "CONNECTING", "CONNECTED", "DISCONNECTING",
                            "DISCONNECTED"}]
  BY <1>3 DEF TypeOK
<1>5. reg' \in [Conn -> {"NEW", "ADD", "DELETE"}]
  <2>1. Disabled(reg[c]) \in {"NEW", "ADD", "DELETE"}
    BY DEF Disabled
  <2> QED
    BY <1>3, <2>1 DEF TypeOK
<1>6. recving' \in [Conn -> BOOLEAN]
  BY <1>3 DEF TypeOK
<1>7. down' \in [Conn -> Nat]
  BY <1>3 DEF TypeOK
<1> QED
  BY <1>1, <1>2, <1>4, <1>5, <1>6, <1>7

LEMMA TypeStep ==
    ASSUME TypeInv, [Next]_vars
    PROVE  TypeOK'
<1> USE DEF TypeInv
<1>1. ASSUME NEW l \in Loops, Poll(l) PROVE TypeOK'
  <2>1. PICK s \in SUBSET Ready(l) : batch' = [batch EXCEPT ![l] = s]
    BY <1>1 DEF Poll
  <2>2. s \in SUBSET (Conn \cup {NoConn})
    BY DEF Ready
  <2> QED
    BY <1>1, <2>1, <2>2 DEF Poll, TypeOK, connVars, serverVars
<1>2. ASSUME NEW l \in Loops, BeginTasks(l) PROVE TypeOK'
  <2>1. <<>> \in Seq(Task) /\ queue[l] \in Seq(Task)
    BY EmptySeq DEF TypeOK
  <2> QED
    BY <1>2, <2>1 DEF BeginTasks, TypeOK, connVars, serverVars
<1>3. ASSUME NEW l \in Loops, EndTasks(l) PROVE TypeOK'
  <2>1. <<>> \in Seq(Task)
    BY EmptySeq
  <2>2. queue' = [queue EXCEPT ![l] = <<>>] \/ queue' = queue
    BY <1>3 DEF EndTasks
  <2>3. functors' = [functors EXCEPT ![l] = <<>>]
    BY <1>3 DEF EndTasks
  <2>4. queue' \in [Loops -> Seq(Task)]
    <3>1. [queue EXCEPT ![l] = <<>>] \in [Loops -> Seq(Task)]
      BY <2>1 DEF TypeOK
    <3> QED
      BY <2>2, <3>1 DEF TypeOK
  <2>5. functors' \in [Loops -> Seq(Task)]
    BY <2>1, <2>3 DEF TypeOK
  <2>6. mode' = [mode EXCEPT ![l] = "over"] \/ mode' = [mode EXCEPT ![l] = "poll"]
    BY <1>3 DEF EndTasks
  <2>7. mode' \in [Loops -> {"poll", "batch", "tasks", "over"}]
    BY <2>6 DEF TypeOK
  <2>8. /\ idx' = [idx EXCEPT ![l] = 1]
        /\ UNCHANGED <<connVars, serverVars, batch, fpc, fconn, fault>>
    BY <1>3 DEF EndTasks
  <2> QED
    BY <2>4, <2>5, <2>7, <2>8 DEF TypeOK, connVars, serverVars
<1>4. CASE AcceptFails
  BY <1>4 DEF AcceptFails, Handled, TypeOK, connVars, serverVars
<1>5. ASSUME NEW c \in Conn, NewConnection(c) PROVE TypeOK'
  <2>1. NextLoop \in Loops /\ next' \in 0 .. Len(loops)
    BY <1>5, NextLoopType DEF NewConnection
  <2>2. /\ loopOf' \in [Conn -> Loops]
        /\ connections' \subseteq Conn
        /\ loops' = loops /\ gone' = gone /\ fault' = fault
        /\ Handled(Base, NoConn)
    BY <1>5, <2>1 DEF NewConnection, TypeOK
  <2>3. /\ cstate' \in [Conn -> {"none", "CONNECTING", "CONNECTED", "DISCONNECTING",
                                 "DISCONNECTED"}]
        /\ reg' \in [Conn -> {"NEW", "ADD", "DELETE"}]
        /\ recving' \in [Conn -> BOOLEAN]
        /\ up' \in [Conn -> Nat]
        /\ down' \in [Conn -> Nat]
        /\ queue' \in [Loops -> Seq(Task)]
    <3>1. CASE NextLoop = Base
      <4>1. Establish(Base, c)
        BY <1>5, <3>1 DEF NewConnection
      <4> QED
        BY <4>1, EstablishType, BaseLoop
    <3>2. CASE NextLoop # Base
      <4>1. /\ cstate' = [cstate EXCEPT ![c] = "CONNECTING"]
            /\ Push(NextLoop, "established", c)
            /\ UNCHANGED <<reg, recving, up, down>>
        BY <1>5, <3>2 DEF NewConnection
      <4>2. queue' \in [Loops -> Seq(Task)]
        BY <2>1, <4>1, PushType DEF Op
      <4> QED
        BY <4>1, <4>2 DEF TypeOK
    <3> QED
      BY <3>1, <3>2
  <2> QED
    BY <2>1, <2>2, <2>3 DEF Handled, TypeOK
<1>6. ASSUME NEW l \in Loops, NEW c \in Conn, HandleMessage(l, c) PROVE TypeOK'
  <2>0. PICK d \in Conn :
           \E r \in Calls(IF d = c THEN "message" ELSE "peer", d, cstate[d]) :
              /\ cstate' = [cstate EXCEPT ![d] = r.state]
              /\ queue' = [queue EXCEPT ![l] = @ \o r.tasks]
    BY <1>6 DEF HandleMessage
  <2>1. PICK r \in Calls(IF d = c THEN "message" ELSE "peer", d, cstate[d]) :
            /\ cstate' = [cstate EXCEPT ![d] = r.state]
            /\ queue' = [queue EXCEPT ![l] = @ \o r.tasks]
    BY <2>0
  <2>2. queue' \in [Loops -> Seq(Task)]
    BY <2>1, CallsQueueType
  <2>3. r.state \in {"none", "CONNECTING", "CONNECTED", "DISCONNECTING", "DISCONNECTED"}
    BY <2>1, CallsCases DEF TypeOK
  <2>4. cstate' \in [Conn -> {"none", "CONNECTING", "CONNECTED", "DISCONNECTING",
                              "DISCONNECTED"}]
    BY <2>1, <2>3 DEF TypeOK
  <2> QED
    BY <1>6, <2>2, <2>4 DEF HandleMessage, Handled, TypeOK, serverVars
<1>7. ASSUME NEW l \in Loops, NEW c \in Conn, HandleEof(l, c) PROVE TypeOK'
  <2>1. CloseConnection(c) /\ Handled(l, c) /\ fault' = fault
    BY <1>7 DEF HandleEof
  <2>2. UNCHANGED <<up, loopOf, loops, next, gone>>
    BY <2>1 DEF CloseConnection
  <2>3. /\ UNCHANGED <<mode, functors, idx, fpc, fconn>>
        /\ batch' \in [Loops -> SUBSET (Conn \cup {NoConn})]
    BY <2>1 DEF Handled, TypeOK
  <2>4. TypeOK
    OBVIOUS
  <2>5. /\ cstate' \in [Conn -> {"none", "CONNECTING", "CONNECTED", "DISCONNECTING",
                                 "DISCONNECTED"}]
        /\ reg' \in [Conn -> {"NEW", "ADD", "DELETE"}]
        /\ recving' \in [Conn -> BOOLEAN]
        /\ down' \in [Conn -> Nat]
        /\ queue' \in [Loops -> Seq(Task)]
        /\ connections' \subseteq Conn
    BY <2>1, <2>4, CloseType
  <2> QED
    BY <2>1, <2>2, <2>3, <2>5 DEF TypeOK
<1>8. ASSUME NEW l \in Loops, NEW c \in Conn, NEW op \in Op, Running(l, op, c)
      PROVE  idx' \in [Loops -> Nat] /\ UNCHANGED <<mode, batch, functors, fpc, fconn>>
  <2>1. idx' = [idx EXCEPT ![l] = idx[l] + 1] /\ UNCHANGED <<mode, batch, functors, fpc, fconn>>
    BY <1>8 DEF Running
  <2>2. idx \in [Loops -> Nat]
    BY DEF TypeOK
  <2> QED
    BY <2>1, <2>2
<1>9. ASSUME NEW l \in Loops, NEW c \in Conn, RunEstablished(l, c) PROVE TypeOK'
  <2>1. /\ Establish(l, c) /\ UNCHANGED <<loopOf, serverVars, fault>>
        /\ idx' \in [Loops -> Nat] /\ UNCHANGED <<mode, batch, functors, fpc, fconn>>
    BY <1>8, <1>9 DEF RunEstablished, Op
  <2> QED
    BY <2>1, EstablishType DEF TypeOK, serverVars
<1>10. ASSUME NEW l \in Loops, NEW c \in Conn, RunRemove(l, c) PROVE TypeOK'
  <2>1. /\ RemoveInLoop(c) /\ UNCHANGED <<connVars, loops, next, gone, fault>>
        /\ idx' \in [Loops -> Nat] /\ UNCHANGED <<mode, batch, functors, fpc, fconn>>
    BY <1>8, <1>10 DEF RunRemove, Op
  <2>2. queue' \in [Loops -> Seq(Task)] /\ connections' \subseteq Conn
    BY <2>1, PushType DEF RemoveInLoop, TypeOK, Op
  <2> QED
    BY <2>1, <2>2 DEF TypeOK, connVars
<1>11. ASSUME NEW l \in Loops, NEW c \in Conn, RunDestroyed(l, c) PROVE TypeOK'
  <2>1. /\ UNCHANGED <<up, loopOf, serverVars, queue>>
        /\ idx' \in [Loops -> Nat] /\ UNCHANGED <<mode, batch, functors, fpc, fconn>>
    BY <1>8, <1>11 DEF RunDestroyed, Op
  <2>2. /\ cstate' \in [Conn -> {"none", "CONNECTING", "CONNECTED", "DISCONNECTING",
                                 "DISCONNECTED"}]
        /\ down' \in [Conn -> Nat]
        /\ recving' \in [Conn -> BOOLEAN]
        /\ reg' \in [Conn -> {"NEW", "ADD", "DELETE"}]
    <3>1. /\ cstate' = [cstate EXCEPT ![c] = IF cstate[c] = "CONNECTED"
                                             THEN "DISCONNECTED" ELSE cstate[c]]
          /\ down' = [down EXCEPT ![c] = IF cstate[c] = "CONNECTED"
                                         THEN down[c] + 1 ELSE down[c]]
          /\ recving' = [recving EXCEPT ![c] = FALSE]
          /\ reg' = [reg EXCEPT ![c] = "NEW"]
      BY <1>11 DEF RunDestroyed
    <3>2. cstate' \in [Conn -> {"none", "CONNECTING", "CONNECTED", "DISCONNECTING",
                                "DISCONNECTED"}]
      BY <3>1 DEF TypeOK
    <3>3. down' \in [Conn -> Nat]
      <4> DEFINE d == IF cstate[c] = "CONNECTED" THEN down[c] + 1 ELSE down[c]
      <4>1. down \in [Conn -> Nat]
        BY DEF TypeOK
      <4>2. down' = [down EXCEPT ![c] = d]
        BY <3>1
      <4>3. d \in Nat
        BY <4>1
      <4> HIDE DEF d
      <4> QED
        BY <4>1, <4>2, <4>3
    <3>4. recving' \in [Conn -> BOOLEAN]
      BY <3>1 DEF TypeOK
    <3>5. reg' \in [Conn -> {"NEW", "ADD", "DELETE"}]
      BY <3>1 DEF TypeOK
    <3> QED
      BY <3>2, <3>3, <3>4, <3>5
  <2>3. fault' \subseteq {"assert", "dangling", "null"}
    BY <1>11 DEF RunDestroyed, Dangling, TypeOK
  <2> QED
    BY <2>1, <2>2, <2>3 DEF TypeOK, serverVars
<1>12. ASSUME NEW l \in Loops, NEW c \in Conn, RunClose(l, c) PROVE TypeOK'
  <2>1. /\ CloseConnection(c)
        /\ idx' \in [Loops -> Nat] /\ UNCHANGED <<mode, batch, functors, fpc, fconn>>
    BY <1>8, <1>12 DEF RunClose, Op
  <2>2. fault' \subseteq {"assert", "dangling", "null"}
    BY <1>12 DEF RunClose, Dangling, TypeOK
  <2> QED
    BY <2>1, <2>2, CloseType DEF CloseConnection, TypeOK
<1>13. ASSUME NEW l \in Loops, NEW c \in Conn, RunShutdown(l, c) PROVE TypeOK'
  <2>1. /\ UNCHANGED <<connVars, serverVars, queue>>
        /\ idx' \in [Loops -> Nat] /\ UNCHANGED <<mode, batch, functors, fpc, fconn>>
    BY <1>8, <1>13 DEF RunShutdown, Op
  <2>2. fault' \subseteq {"assert", "dangling", "null"}
    BY <1>13 DEF RunShutdown, Dangling, TypeOK
  <2> QED
    BY <2>1, <2>2 DEF TypeOK, connVars, serverVars
<1>14. ASSUME NEW l \in Loops, NEW c \in Conn, UserFunctor(l, c) PROVE TypeOK'
  <2>1. PICK r \in Calls("functor", c, cstate[c]) :
            /\ cstate' = [cstate EXCEPT ![c] = r.state]
            /\ queue' = [queue EXCEPT ![l] = @ \o r.tasks]
    BY <1>14 DEF UserFunctor
  <2>2. queue' \in [Loops -> Seq(Task)]
    BY <2>1, CallsQueueType
  <2>3. r.state \in {"none", "CONNECTING", "CONNECTED", "DISCONNECTING", "DISCONNECTED"}
    BY <2>1, CallsCases DEF TypeOK
  <2>4. cstate' \in [Conn -> {"none", "CONNECTING", "CONNECTED", "DISCONNECTING",
                              "DISCONNECTED"}]
    BY <2>1, <2>3 DEF TypeOK
  <2> QED
    BY <1>14, <2>2, <2>4 DEF UserFunctor, TypeOK, serverVars
<1>15. ASSUME NEW c \in Conn, ForeignReads(c) PROVE TypeOK'
  BY <1>15 DEF ForeignReads, TypeOK, connVars, serverVars, loopVars
<1>16. CASE ForeignStores
  BY <1>16 DEF ForeignStores, TypeOK, serverVars, loopVars
<1>17. CASE ForeignPushes
  <2>1. fconn \in Conn /\ loopOf[fconn] \in Loops
    BY <1>17 DEF ForeignPushes, ForeignInv, TypeOK
  <2>2. queue' \in [Loops -> Seq(Task)]
    BY <1>17, <2>1, PushType DEF ForeignPushes, Op
  <2> QED
    BY <1>17, <2>2 DEF ForeignPushes, TypeOK, connVars, serverVars
<1>18. CASE ServerDestroyed
  BY <1>18 DEF ServerDestroyed, TypeOK, connVars, loopVars
<1>19. CASE UNCHANGED vars
  BY <1>19 DEF vars, TypeOK, connVars, serverVars, loopVars
<1> QED
  BY <1>1, <1>2, <1>3, <1>4, <1>5, <1>6, <1>7, <1>9, <1>10, <1>11, <1>12, <1>13, <1>14,
     <1>15, <1>16, <1>17, <1>18, <1>19 DEF Next, LoopStep

LEMMA LoopInvStep ==
    ASSUME TypeInv, [Next]_vars
    PROVE  LoopInv' /\ ForeignInv'
<1> USE DEF TypeInv
<1>1. ASSUME NEW l \in Loops, Poll(l) PROVE LoopInv'
  BY <1>1 DEF Poll, LoopInv, TypeOK
<1>2. ASSUME NEW l \in Loops, BeginTasks(l) PROVE LoopInv'
  BY <1>2 DEF BeginTasks, LoopInv, TypeOK
<1>3. ASSUME NEW l \in Loops, EndTasks(l) PROVE LoopInv'
  <2>1. /\ mode[l] = "tasks" /\ batch' = batch
        /\ functors' = [functors EXCEPT ![l] = <<>>]
        /\ idx' = [idx EXCEPT ![l] = 1]
    BY <1>3 DEF EndTasks
  <2>2. \A k \in Loops \ {l} : mode'[k] = mode[k]
    BY <1>3 DEF EndTasks, TypeOK
  <2> QED
    BY <2>1, <2>2 DEF LoopInv, TypeOK
<1>4. ASSUME NEW l \in Loops, NEW c, Handled(l, c) PROVE LoopInv'
  BY <1>4 DEF Handled, LoopInv, TypeOK
<1>5. ASSUME NEW l \in Loops, NEW c, NEW op, Running(l, op, c) PROVE LoopInv'
  BY <1>5 DEF Running, LoopInv, TypeOK
<1>6. ASSUME UNCHANGED <<mode, batch, functors, idx>> PROVE LoopInv'
  BY <1>6 DEF LoopInv
<1>7. ASSUME NEW l \in Loops, LoopStep(l) PROVE LoopInv'
  <2>1. ASSUME NEW c \in Conn,
               \/ RunEstablished(l, c) \/ RunRemove(l, c) \/ RunDestroyed(l, c)
               \/ RunClose(l, c) \/ RunShutdown(l, c)
        PROVE  LoopInv'
    BY <1>5, <2>1 DEF RunEstablished, RunRemove, RunDestroyed, RunClose, RunShutdown
  <2>2. ASSUME NEW c \in Conn, NewConnection(c) \/ HandleMessage(l, c) \/ HandleEof(l, c)
        PROVE  LoopInv'
    BY <1>4, <2>2, BaseLoop DEF NewConnection, HandleMessage, HandleEof
  <2>3. CASE AcceptFails
    BY <1>4, <2>3, BaseLoop DEF AcceptFails
  <2> QED
    BY <1>1, <1>2, <1>3, <1>7, <2>1, <2>2, <2>3 DEF LoopStep
<1>8. ASSUME \/ \E l \in Loops, c \in Conn : UserFunctor(l, c)
             \/ \E c \in Conn : ForeignReads(c)
             \/ ForeignStores \/ ForeignPushes \/ ServerDestroyed \/ UNCHANGED vars
      PROVE  LoopInv'
  <2>1. UNCHANGED <<mode, batch, functors, idx>>
    BY <1>8 DEF UserFunctor, ForeignReads, ForeignStores, ForeignPushes, ServerDestroyed,
                vars, loopVars
  <2> QED
    BY <2>1, <1>6
<1>9. ASSUME UNCHANGED <<fpc, fconn>> PROVE ForeignInv'
  BY <1>9 DEF ForeignInv
<1>10. ASSUME NEW l \in Loops, LoopStep(l) PROVE UNCHANGED <<fpc, fconn>>
  BY <1>10 DEF LoopStep, AcceptFails, NewConnection, HandleMessage, HandleEof,
               RunEstablished, RunRemove, RunDestroyed, RunClose, RunShutdown,
               Poll, BeginTasks, EndTasks, Handled, Running
<1>11. ASSUME \/ \E l \in Loops, c \in Conn : UserFunctor(l, c)
              \/ ServerDestroyed \/ UNCHANGED vars
       PROVE  ForeignInv'
  BY <1>9, <1>11 DEF UserFunctor, ServerDestroyed, vars
<1>12. ASSUME NEW c \in Conn, ForeignReads(c) PROVE ForeignInv'
  BY <1>12 DEF ForeignReads, ForeignInv
<1>13. ASSUME ForeignStores PROVE ForeignInv'
  BY <1>13 DEF ForeignStores, ForeignInv
<1>14. ASSUME ForeignPushes PROVE ForeignInv'
  BY <1>14 DEF ForeignPushes, ForeignInv
<1>15. LoopInv'
  BY <1>7, <1>8 DEF Next
<1>16. ForeignInv'
  BY <1>9, <1>10, <1>11, <1>12, <1>13, <1>14 DEF Next
<1> QED
  BY <1>15, <1>16

LEMMA TypeInvariant == Spec => []TypeInv
<1>1. Init => TypeInv
  <2>1. <<>> \in Seq(Task)
    BY EmptySeq
  <2> SUFFICES ASSUME Init PROVE TypeInv
    OBVIOUS
  <2>2. TypeOK
    <3>1. loops \in Seq(Range(loops)) /\ Len(loops) \in Nat
      BY TCPServerAssumption, LenProperties DEF Init
    <3>2. next \in 0 .. Len(loops)
      BY <3>1 DEF Init
    <3>3. queue \in [Loops -> Seq(Task)] /\ functors \in [Loops -> Seq(Task)]
      BY <2>1 DEF Init
    <3> QED
      BY <3>2, <3>3, BaseLoop DEF Init, TypeOK
  <2>3. LoopInv /\ ForeignInv
    BY DEF Init, LoopInv, ForeignInv
  <2> QED
    BY <2>2, <2>3 DEF TypeInv
<1>2. TypeInv /\ [Next]_vars => TypeInv'
  BY TypeStep, LoopInvStep DEF TypeInv
<1> QED
  BY <1>1, <1>2, PTL DEF Spec

\* Every variable has its type in every reachable state.
THEOREM TypeCorrect == Spec => []TypeOK
<1>1. TypeInv => TypeOK
  BY DEF TypeInv
<1> QED
  BY <1>1, TypeInvariant, PTL
-------------------------------------------------------------------------------
(***************************************************************************)
(* The tasks a loop has still to run: those it has not reached in the      *)
(* vector of doTask(), and those in its queue.                             *)
(***************************************************************************)
InFunctors(l, t) == \E i \in 1 .. Len(functors[l]) : idx[l] <= i /\ functors[l][i] = t

InQueue(l, t) == \E i \in 1 .. Len(queue[l]) : queue[l][i] = t

Has(l, t) == InFunctors(l, t) \/ InQueue(l, t)

OnceInFunctors(l, t) == \A i, j \in 1 .. Len(functors[l]) :
    idx[l] <= i /\ idx[l] <= j /\ functors[l][i] = t /\ functors[l][j] = t => i = j

OnceInQueue(l, t) == \A i, j \in 1 .. Len(queue[l]) :
    queue[l][i] = t /\ queue[l][j] = t => i = j

\* The loop has the task at most once.
Once(l, t) ==
    /\ OnceInFunctors(l, t)
    /\ OnceInQueue(l, t)
    /\ ~(InFunctors(l, t) /\ InQueue(l, t))

\* No loop has a task of c, or only loop l has one, op.
NoTask(c) == \A l \in Loops, op \in Op : ~Has(l, TaskOf(op, c))

OnlyTask(c, l, op) == \A k \in Loops, p \in Op : Has(k, TaskOf(p, c)) => k = l /\ p = op

\* A step that runs the tasks `run' and queues the tasks `new', pairs of a loop
\* and a task.
Moves(run, new) == \A l \in Loops, t \in Task :
    /\ Has(l, t)' => Has(l, t) \/ <<l, t>> \in new
    /\ (Has(l, t) /\ <<l, t>> \notin run) \/ <<l, t>> \in new => Has(l, t)'
    /\ <<l, t>> \in run => InFunctors(l, t)
    /\ <<l, t>> \in run \ new /\ Once(l, t) => ~Has(l, t)'
    /\ Once(l, t) /\ (<<l, t>> \in new => ~Has(l, t)) => Once(l, t)'

\* The step runs no functor, or one.
Ran(run) ==
    /\ functors' = functors
    /\ \/ idx' = idx /\ run = {}
       \/ \E m \in Loops, op \in Op, c \in Conn :
             Running(m, op, c) /\ run = {<<m, TaskOf(op, c)>>}

LEMMA RanNone ==
    ASSUME functors' = functors, idx' = idx
    PROVE  Ran({})
BY DEF Ran

LEMMA RanOne ==
    ASSUME NEW l \in Loops, NEW op \in Op, NEW c \in Conn, Running(l, op, c)
    PROVE  Ran({<<l, TaskOf(op, c)>>})
BY DEF Ran, Running

LEMMA TaskType ==
    ASSUME NEW op \in Op, NEW c \in Conn
    PROVE  TaskOf(op, c) \in Task
BY DEF Op, Task, TaskOf

\* What running one functor does to the vector.
LEMMA FunctorsMove ==
    ASSUME TypeInv, NEW run, Ran(run)
    PROVE  \A l \in Loops, t \in Task :
              /\ InFunctors(l, t)' => InFunctors(l, t)
              /\ InFunctors(l, t) /\ <<l, t>> \notin run => InFunctors(l, t)'
              /\ <<l, t>> \in run => InFunctors(l, t)
              /\ <<l, t>> \in run /\ OnceInFunctors(l, t) => ~InFunctors(l, t)'
              /\ OnceInFunctors(l, t) => OnceInFunctors(l, t)'
<1>1. functors' = functors
  BY DEF Ran
<1>2. CASE idx' = idx /\ run = {}
  BY <1>1, <1>2 DEF InFunctors, OnceInFunctors
<1>3. ASSUME NEW m \in Loops, NEW op \in Op, NEW c \in Conn,
             Running(m, op, c), run = {<<m, TaskOf(op, c)>>}
      PROVE  \A l \in Loops, t \in Task :
                /\ InFunctors(l, t)' => InFunctors(l, t)
                /\ InFunctors(l, t) /\ <<l, t>> \notin run => InFunctors(l, t)'
                /\ <<l, t>> \in run => InFunctors(l, t)
                /\ <<l, t>> \in run /\ OnceInFunctors(l, t) => ~InFunctors(l, t)'
                /\ OnceInFunctors(l, t) => OnceInFunctors(l, t)'
  <2>1. /\ functors \in [Loops -> Seq(Task)] /\ idx \in [Loops -> Nat]
        /\ idx[m] # 0
    BY DEF TypeInv, TypeOK, LoopInv
  <2>2. /\ idx[m] <= Len(functors[m])
        /\ functors[m][idx[m]] = TaskOf(op, c)
        /\ idx' = [idx EXCEPT ![m] = @ + 1]
    BY <1>3 DEF Running, TaskOf
  <2>3. \A l \in Loops : Len(functors[l]) \in Nat
    BY <2>1, LenProperties
  <2>4. idx[m] \in 1 .. Len(functors[m])
    BY <2>1, <2>2, <2>3
  <2> SUFFICES ASSUME NEW l \in Loops, NEW t \in Task
               PROVE  /\ InFunctors(l, t)' => InFunctors(l, t)
                      /\ InFunctors(l, t) /\ <<l, t>> \notin run => InFunctors(l, t)'
                      /\ <<l, t>> \in run => InFunctors(l, t)
                      /\ <<l, t>> \in run /\ OnceInFunctors(l, t) => ~InFunctors(l, t)'
                      /\ OnceInFunctors(l, t) => OnceInFunctors(l, t)'
    OBVIOUS
  <2>5. <<l, t>> \in run <=> l = m /\ t = TaskOf(op, c)
    BY <1>3
  <2>6. CASE l # m
    <3>1. idx'[l] = idx[l]
      BY <2>1, <2>2, <2>6
    <3> QED
      BY <1>1, <2>5, <2>6, <3>1 DEF InFunctors, OnceInFunctors
  <2>7. CASE l = m
    <3>1. idx'[l] = idx[l] + 1 /\ idx[l] \in Nat /\ Len(functors[l]) \in Nat
      BY <2>1, <2>2, <2>3, <2>7
    <3>2. InFunctors(l, t)' => InFunctors(l, t)
      BY <1>1, <3>1 DEF InFunctors
    <3>3. InFunctors(l, t) /\ <<l, t>> \notin run => InFunctors(l, t)'
      BY <1>1, <2>2, <2>5, <2>7, <3>1 DEF InFunctors
    <3>4. <<l, t>> \in run => InFunctors(l, t)
      BY <1>1, <2>2, <2>4, <2>5, <3>1 DEF InFunctors
    <3>5. <<l, t>> \in run /\ OnceInFunctors(l, t) => ~InFunctors(l, t)'
      BY <1>1, <2>2, <2>4, <2>5, <3>1 DEF InFunctors, OnceInFunctors
    <3>6. OnceInFunctors(l, t) => OnceInFunctors(l, t)'
      BY <1>1, <3>1 DEF OnceInFunctors
    <3> QED
      BY <3>2, <3>3, <3>4, <3>5, <3>6
  <2> QED
    BY <2>6, <2>7
<1> QED
  BY <1>2, <1>3 DEF Ran

\* What queueing one functor does to the queue.
LEMMA QueueMove ==
    ASSUME TypeInv, NEW new,
           \/ queue' = queue /\ new = {}
           \/ \E m \in Loops, op \in Op, c \in Conn :
                 Push(m, op, c) /\ new = {<<m, TaskOf(op, c)>>}
    PROVE  \A l \in Loops, t \in Task :
              /\ InQueue(l, t)' <=> InQueue(l, t) \/ <<l, t>> \in new
              /\ OnceInQueue(l, t) /\ (<<l, t>> \in new => ~InQueue(l, t)) => OnceInQueue(l, t)'
<1>1. CASE queue' = queue /\ new = {}
  BY <1>1 DEF InQueue, OnceInQueue
<1>2. ASSUME NEW m \in Loops, NEW op \in Op, NEW c \in Conn,
             Push(m, op, c), new = {<<m, TaskOf(op, c)>>}
      PROVE  \A l \in Loops, t \in Task :
                /\ InQueue(l, t)' <=> InQueue(l, t) \/ <<l, t>> \in new
                /\ OnceInQueue(l, t) /\ (<<l, t>> \in new => ~InQueue(l, t))
                      => OnceInQueue(l, t)'
  <2> DEFINE u == TaskOf(op, c)
  <2>1. queue \in [Loops -> Seq(Task)] /\ u \in Task
    BY TaskType DEF TypeInv, TypeOK
  <2>2. queue' = [queue EXCEPT ![m] = Append(queue[m], u)]
    BY <1>2 DEF Push, TaskOf
  <2>3. /\ Len(queue[m]) \in Nat
        /\ Len(queue'[m]) = Len(queue[m]) + 1
        /\ \A i \in 1 .. Len(queue[m]) : queue'[m][i] = queue[m][i]
        /\ queue'[m][Len(queue[m]) + 1] = u
    BY <2>1, <2>2, AppendProperties, LenProperties
  <2> HIDE DEF u
  <2> SUFFICES ASSUME NEW l \in Loops, NEW t \in Task
               PROVE  /\ InQueue(l, t)' <=> InQueue(l, t) \/ <<l, t>> \in new
                      /\ OnceInQueue(l, t) /\ (<<l, t>> \in new => ~InQueue(l, t))
                            => OnceInQueue(l, t)'
    OBVIOUS
  <2>4. <<l, t>> \in new <=> l = m /\ t = u
    BY <1>2 DEF u
  <2>5. CASE l # m
    <3>1. queue'[l] = queue[l]
      BY <2>1, <2>2, <2>5
    <3> QED
      BY <2>4, <2>5, <3>1 DEF InQueue, OnceInQueue
  <2>6. CASE l = m
    <3>1. InQueue(m, t)' => InQueue(m, t) \/ t = u
      BY <2>3 DEF InQueue
    <3>2. InQueue(m, t) => InQueue(m, t)'
      BY <2>3 DEF InQueue
    <3>3. t = u => InQueue(m, t)'
      <4>1. Len(queue[m]) + 1 \in 1 .. Len(queue'[m])
        BY <2>3
      <4> QED
        BY <2>3, <4>1 DEF InQueue
    <3>4. ASSUME OnceInQueue(m, t), t = u => ~InQueue(m, t) PROVE OnceInQueue(m, t)'
      <4> SUFFICES ASSUME NEW i \in 1 .. Len(queue'[m]), NEW j \in 1 .. Len(queue'[m]),
                          queue'[m][i] = t, queue'[m][j] = t
                   PROVE  i = j
        BY DEF OnceInQueue
      <4>1. \A k \in 1 .. Len(queue'[m]) : k \in 1 .. Len(queue[m]) \/ k = Len(queue[m]) + 1
        BY <2>3
      <4>2. CASE t = u
        <5>1. \A k \in 1 .. Len(queue[m]) : queue'[m][k] # t
          BY <2>3, <3>4, <4>2 DEF InQueue
        <5> QED
          BY <4>1, <5>1
      <4>3. CASE t # u
        BY <2>3, <3>4, <4>1, <4>3 DEF OnceInQueue
      <4> QED
        BY <4>2, <4>3
    <3> QED
      BY <2>4, <2>6, <3>1, <3>2, <3>3, <3>4
  <2> QED
    BY <2>5, <2>6
<1> QED
  BY <1>1, <1>2

\* Both at once.
LEMMA TasksMove ==
    ASSUME TypeInv, NEW run, Ran(run), NEW new,
           \/ queue' = queue /\ new = {}
           \/ \E m \in Loops, op \in Op, c \in Conn :
                 Push(m, op, c) /\ new = {<<m, TaskOf(op, c)>>}
    PROVE  Moves(run, new)
<1> SUFFICES ASSUME NEW l \in Loops, NEW t \in Task
             PROVE  /\ Has(l, t)' => Has(l, t) \/ <<l, t>> \in new
                    /\ (Has(l, t) /\ <<l, t>> \notin run) \/ <<l, t>> \in new => Has(l, t)'
                    /\ <<l, t>> \in run => InFunctors(l, t)
                    /\ <<l, t>> \in run \ new /\ Once(l, t) => ~Has(l, t)'
                    /\ Once(l, t) /\ (<<l, t>> \in new => ~Has(l, t)) => Once(l, t)'
  BY DEF Moves
<1>1. /\ InFunctors(l, t)' => InFunctors(l, t)
      /\ InFunctors(l, t) /\ <<l, t>> \notin run => InFunctors(l, t)'
      /\ <<l, t>> \in run => InFunctors(l, t)
      /\ <<l, t>> \in run /\ OnceInFunctors(l, t) => ~InFunctors(l, t)'
      /\ OnceInFunctors(l, t) => OnceInFunctors(l, t)'
  BY FunctorsMove
<1>2. /\ InQueue(l, t)' <=> InQueue(l, t) \/ <<l, t>> \in new
      /\ OnceInQueue(l, t) /\ (<<l, t>> \in new => ~InQueue(l, t)) => OnceInQueue(l, t)'
  BY QueueMove
<1> QED
  BY <1>1, <1>2, Zenon DEF Has, Once

LEMMA StillMoves ==
    ASSUME TypeInv, NEW run, Ran(run), queue' = queue
    PROVE  Moves(run, {})
<1> DEFINE new == {}
<1>1. queue' = queue /\ new = {}
  OBVIOUS
<1> HIDE DEF new
<1>2. Moves(run, new)
  BY <1>1, TasksMove
<1> QED
  BY <1>2 DEF new

LEMMA PushMoves ==
    ASSUME TypeInv, NEW run, Ran(run),
           NEW l \in Loops, NEW p \in Op, NEW d \in Conn, Push(l, p, d)
    PROVE  Moves(run, {<<l, TaskOf(p, d)>>})
<1> DEFINE new == {<<l, TaskOf(p, d)>>}
<1>1. \E m \in Loops, op \in Op, c \in Conn : Push(m, op, c) /\ new = {<<m, TaskOf(op, c)>>}
  OBVIOUS
<1> HIDE DEF new
<1>2. Moves(run, new)
  BY <1>1, TasksMove
<1> QED
  BY <1>2 DEF new

\* doTask() takes the whole queue.
LEMMA BeginMoves ==
    ASSUME TypeInv, NEW l \in Loops, BeginTasks(l)
    PROVE  /\ Moves({}, {})
           /\ \A t \in Task : InFunctors(l, t)' <=> InQueue(l, t)
           /\ \A t \in Task : ~InQueue(l, t)'
           /\ \A k \in Loops \ {l}, t \in Task : InQueue(k, t)' <=> InQueue(k, t)
<1>1. /\ functors \in [Loops -> Seq(Task)] /\ queue \in [Loops -> Seq(Task)]
      /\ idx \in [Loops -> Nat]
      /\ functors[l] = <<>>
  BY DEF TypeInv, TypeOK, LoopInv, BeginTasks
<1>2. /\ functors'[l] = queue[l] /\ queue'[l] = <<>> /\ idx'[l] = 1
      /\ \A k \in Loops \ {l} : functors'[k] = functors[k] /\ queue'[k] = queue[k]
                                /\ idx'[k] = idx[k]
  BY <1>1 DEF BeginTasks
<1>3. Len(<<>>) = 0 /\ 1 .. 0 = {} /\ \A k \in Loops : Len(queue[k]) \in Nat
  BY <1>1, LenProperties
<1>4. \A t \in Task : InFunctors(l, t)' <=> InQueue(l, t)
  BY <1>2, <1>3 DEF InFunctors, InQueue
<1>5. \A t \in Task : ~InQueue(l, t)' /\ OnceInQueue(l, t)'
  BY <1>2, <1>3 DEF InQueue, OnceInQueue
<1>6. \A t \in Task : ~InFunctors(l, t)
  BY <1>1, <1>3 DEF InFunctors
<1>7. \A t \in Task : OnceInQueue(l, t) => OnceInFunctors(l, t)'
  BY <1>2 DEF OnceInFunctors, OnceInQueue
<1>8. ASSUME NEW k \in Loops \ {l}, NEW t \in Task
      PROVE  /\ InFunctors(k, t)' <=> InFunctors(k, t)
             /\ InQueue(k, t)' <=> InQueue(k, t)
             /\ OnceInFunctors(k, t)' <=> OnceInFunctors(k, t)
             /\ OnceInQueue(k, t)' <=> OnceInQueue(k, t)
  BY <1>2 DEF InFunctors, InQueue, OnceInFunctors, OnceInQueue
<1>9. ASSUME NEW k \in Loops, NEW t \in Task
      PROVE  (Has(k, t)' <=> Has(k, t)) /\ (Once(k, t) => Once(k, t)')
  BY <1>4, <1>5, <1>6, <1>7, <1>8 DEF Has, Once
<1>10. Moves({}, {})
  BY <1>9 DEF Moves
<1> QED
  BY <1>4, <1>5, <1>8, <1>10

\* The vector that doTask() has run is empty; a loop that quits drops its queue.
LEMMA EndMoves ==
    ASSUME TypeInv, NEW l \in Loops, EndTasks(l)
    PROVE  /\ \A k \in Loops, t \in Task :
                 /\ Has(k, t)' => Has(k, t)
                 /\ Once(k, t) => Once(k, t)'
                 /\ k # l => (Has(k, t)' <=> Has(k, t)) /\ (InQueue(k, t)' <=> InQueue(k, t))
           /\ mode'[l] \in {"poll", "over"}
           /\ mode'[l] = "poll" => \A t \in Task : Has(l, t)' <=> Has(l, t)
           /\ \A t \in Task : ~InFunctors(l, t)
           /\ \A t \in Task : InQueue(l, t)' => InQueue(l, t)
           /\ \A k \in Loops \ {l} : mode'[k] = mode[k]
<1>1. /\ functors \in [Loops -> Seq(Task)] /\ queue \in [Loops -> Seq(Task)]
      /\ idx \in [Loops -> Nat] /\ mode \in [Loops -> {"poll", "batch", "tasks", "over"}]
  BY DEF TypeInv, TypeOK
<1>2. /\ functors'[l] = <<>> /\ idx'[l] = 1
      /\ \A k \in Loops \ {l} : functors'[k] = functors[k] /\ idx'[k] = idx[k]
  BY <1>1 DEF EndTasks
<1>3. \/ mode' = [mode EXCEPT ![l] = "poll"] /\ queue' = queue
      \/ mode' = [mode EXCEPT ![l] = "over"] /\ queue' = [queue EXCEPT ![l] = <<>>]
  BY DEF EndTasks
<1>4. Len(<<>>) = 0 /\ 1 .. 0 = {} /\ \A k \in Loops : Len(functors[k]) \in Nat
  BY <1>1, LenProperties
<1>5. \A t \in Task : ~InFunctors(l, t)
  <2>1. idx[l] > Len(functors[l]) /\ idx[l] \in Nat
    BY <1>1 DEF EndTasks
  <2> QED
    BY <1>4, <2>1 DEF InFunctors
<1>6. \A t \in Task : ~InFunctors(l, t)' /\ OnceInFunctors(l, t)'
  BY <1>2, <1>4 DEF InFunctors, OnceInFunctors
<1>7. \A k \in Loops \ {l}, t \in Task :
         /\ InFunctors(k, t)' <=> InFunctors(k, t)
         /\ OnceInFunctors(k, t)' <=> OnceInFunctors(k, t)
  BY <1>2 DEF InFunctors, OnceInFunctors
<1>8. \A k \in Loops \ {l} : queue'[k] = queue[k] /\ mode'[k] = mode[k]
  BY <1>1, <1>3
<1>9. \A k \in Loops \ {l}, t \in Task :
         /\ InQueue(k, t)' <=> InQueue(k, t)
         /\ OnceInQueue(k, t)' <=> OnceInQueue(k, t)
  BY <1>8 DEF InQueue, OnceInQueue
<1>10. \A t \in Task : (InQueue(l, t)' => InQueue(l, t)) /\ (OnceInQueue(l, t) => OnceInQueue(l, t)')
  <2>1. CASE queue' = queue
    BY <2>1 DEF InQueue, OnceInQueue
  <2>2. CASE queue' = [queue EXCEPT ![l] = <<>>]
    <3>1. queue'[l] = <<>>
      BY <1>1, <2>2
    <3> QED
      BY <1>4, <3>1 DEF InQueue, OnceInQueue
  <2> QED
    BY <1>3, <2>1, <2>2
<1>11. mode'[l] \in {"poll", "over"} /\ (mode'[l] = "poll" => queue' = queue)
  BY <1>1, <1>3
<1>12. mode'[l] = "poll" => \A t \in Task : Has(l, t)' <=> Has(l, t)
  BY <1>5, <1>6, <1>11 DEF Has, InQueue
<1>13. ASSUME NEW k \in Loops, NEW t \in Task
       PROVE  /\ Has(k, t)' => Has(k, t)
              /\ Once(k, t) => Once(k, t)'
              /\ k # l => (Has(k, t)' <=> Has(k, t)) /\ (InQueue(k, t)' <=> InQueue(k, t))
  BY <1>5, <1>6, <1>7, <1>9, <1>10 DEF Has, Once
<1> QED
  BY <1>5, <1>8, <1>10, <1>11, <1>12, <1>13

-------------------------------------------------------------------------------
(***************************************************************************)
(* The order of the reports, whatever the user calls.  A connection that   *)
(* is accepted has one functor, connectEstablished(); once it is announced *)
(* no other is queued, and removeConnectionInLoop() is queued only by      *)
(* handleClose(), after the report.                                        *)
(***************************************************************************)
Fresh(c) ==
    /\ cstate[c] = "none" /\ reg[c] = "NEW" /\ up[c] = 0 /\ down[c] = 0
    /\ c \notin connections
    /\ NoTask(c)

Accepted(c) ==
    /\ cstate[c] = "CONNECTING" /\ reg[c] = "NEW" /\ up[c] = 0 /\ down[c] = 0
    /\ c \in connections
    /\ OnlyTask(c, loopOf[c], "established")
    /\ Once(loopOf[c], TaskOf("established", c))

Announced(c) ==
    /\ cstate[c] # "none" /\ up[c] = 1
    /\ c \notin connections => down[c] > 0
    /\ \A l \in Loops : ~Has(l, TaskOf("established", c))
    /\ \A l \in Loops : Has(l, TaskOf("remove", c)) => down[c] > 0

OrderInv ==
    /\ \A c \in Conn : Fresh(c) \/ Accepted(c) \/ Announced(c)
    /\ \A l \in Loops, c \in Conn : c \in batch[l] => up[c] = 1
    /\ fconn \in Conn => up[fconn] = 1

\* A step that leaves connection c alone ...
Same(c) ==
    /\ cstate'[c] = cstate[c] /\ reg'[c] = reg[c] /\ recving'[c] = recving[c]
    /\ loopOf'[c] = loopOf[c] /\ up'[c] = up[c] /\ down'[c] = down[c]
    /\ c \in connections' <=> c \in connections

\* ... and gives it no functor.
NoNewTask(c) == \A l \in Loops, op \in Op :
    /\ Has(l, TaskOf(op, c))' => Has(l, TaskOf(op, c))
    /\ Once(l, TaskOf(op, c)) => Once(l, TaskOf(op, c))'

\* Every task of the pairs is of connection d.
About(pairs, d) == \A l \in Loops, op \in Op, c \in Conn :
    <<l, TaskOf(op, c)>> \in pairs => c = d

\* The connections that a batch or the foreign thread comes to hold are announced.
HoldsAnnounced ==
    /\ \A l \in Loops, c \in Conn : c \in batch'[l] => c \in batch[l] \/ up[c] = 1
    /\ fconn' \in Conn => fconn' = fconn \/ up[fconn'] = 1

LEMMA TaskOfEq ==
    ASSUME NEW op, NEW c, NEW p, NEW d, TaskOf(op, c) = TaskOf(p, d)
    PROVE  op = p /\ c = d
BY DEF TaskOf

LEMMA AboutOne ==
    ASSUME NEW m, NEW p, NEW d
    PROVE  About({<<m, TaskOf(p, d)>>}, d) /\ About({}, d)
BY TaskOfEq DEF About

LEMMA OtherTasks ==
    ASSUME NEW run, NEW new, Moves(run, new), NEW d \in Conn, About(run, d), About(new, d),
           NEW c \in Conn \ {d}
    PROVE  /\ NoNewTask(c)
           /\ \A l \in Loops, op \in Op :
                 Has(l, TaskOf(op, c))' <=> Has(l, TaskOf(op, c))
<1> SUFFICES ASSUME NEW l \in Loops, NEW op \in Op
             PROVE  /\ Has(l, TaskOf(op, c))' <=> Has(l, TaskOf(op, c))
                    /\ Once(l, TaskOf(op, c)) => Once(l, TaskOf(op, c))'
  BY DEF NoNewTask
<1>1. TaskOf(op, c) \in Task
  BY TaskType
<1>2. <<l, TaskOf(op, c)>> \notin run /\ <<l, TaskOf(op, c)>> \notin new
  BY DEF About
<1> QED
  BY <1>1, <1>2 DEF Moves

LEMMA StageKept ==
    ASSUME TypeInv, NEW c \in Conn, Same(c), NoNewTask(c)
    PROVE  /\ Fresh(c) => Fresh(c)'
           /\ Accepted(c) => Accepted(c)'
           /\ Announced(c) => Announced(c)'
<1>1. loopOf[c] \in Loops /\ loopOf'[c] = loopOf[c]
  BY DEF TypeInv, TypeOK, Same
<1>2. Fresh(c) => Fresh(c)'
  BY DEF Fresh, Same, NoNewTask, NoTask
<1>3. Accepted(c) => Accepted(c)'
  <2>1. "established" \in Op
    BY DEF Op
  <2>2. Once(loopOf[c], TaskOf("established", c)) => Once(loopOf[c], TaskOf("established", c))'
    BY <1>1, <2>1 DEF NoNewTask
  <2>3. OnlyTask(c, loopOf[c], "established") => OnlyTask(c, loopOf[c], "established")'
    BY <1>1 DEF OnlyTask, NoNewTask
  <2> QED
    BY <1>1, <2>2, <2>3 DEF Accepted, Same
<1>4. Announced(c) => Announced(c)'
  <2>1. "established" \in Op /\ "remove" \in Op
    BY DEF Op
  <2> QED
    BY <2>1 DEF Announced, Same, NoNewTask
<1> QED
  BY <1>2, <1>3, <1>4

\* A step that changes one connection at most.
LEMMA StageStep ==
    ASSUME TypeInv, OrderInv, HoldsAnnounced, NEW D \in SUBSET Conn,
           \A c \in Conn \ D : Same(c) /\ NoNewTask(c),
           \A d \in D : /\ (Fresh(d) \/ Accepted(d) \/ Announced(d))'
                        /\ up'[d] = up[d] \/ up'[d] = 1
    PROVE  OrderInv'
<1>1. \A c \in Conn : (Fresh(c) \/ Accepted(c) \/ Announced(c))'
  <2> SUFFICES ASSUME NEW c \in Conn \ D
               PROVE  (Fresh(c) \/ Accepted(c) \/ Announced(c))'
    OBVIOUS
  <2>1. Fresh(c) \/ Accepted(c) \/ Announced(c)
    BY DEF OrderInv
  <2> QED
    BY <2>1, StageKept
<1>2. \A c \in Conn : up[c] = 1 => up'[c] = 1
  BY DEF Same
<1>3. \A l \in Loops, c \in Conn : c \in batch'[l] => up'[c] = 1
  BY <1>2 DEF OrderInv, HoldsAnnounced
<1>4. fconn' \in Conn => up'[fconn'] = 1
  BY <1>2 DEF OrderInv, HoldsAnnounced
<1> QED
  BY <1>1, <1>3, <1>4 DEF OrderInv

\* A step of an announced connection.
LEMMA AnnouncedStep ==
    ASSUME TypeInv, OrderInv, HoldsAnnounced,
           NEW d \in Conn, Announced(d), \A c \in Conn \ {d} : Same(c),
           NEW run, NEW new, Moves(run, new), About(run, d), About(new, d),
           up' = up, cstate'[d] # "none", down[d] > 0 => down'[d] > 0,
           d \notin connections' => d \notin connections \/ down'[d] > 0,
           \A l \in Loops : <<l, TaskOf("established", d)>> \notin new,
           \A l \in Loops : <<l, TaskOf("remove", d)>> \in new => down'[d] > 0
    PROVE  OrderInv'
<1>1. \A c \in Conn \ {d} : NoNewTask(c)
  BY OtherTasks
<1>2. TaskOf("established", d) \in Task /\ TaskOf("remove", d) \in Task
  BY TaskType DEF Op
<1>3. \A l \in Loops : ~Has(l, TaskOf("established", d))'
  BY <1>2 DEF Moves, Announced
<1>4. \A l \in Loops : Has(l, TaskOf("remove", d))' => down'[d] > 0
  BY <1>2 DEF Moves, Announced
<1>5. Announced(d)'
  BY <1>3, <1>4 DEF Announced
<1> DEFINE D == {d}
<1>6. /\ D \in SUBSET Conn
      /\ \A c \in Conn \ D : Same(c) /\ NoNewTask(c)
      /\ \A c \in D : (Fresh(c) \/ Accepted(c) \/ Announced(c))' /\ up'[c] = up[c]
  BY <1>1, <1>5
<1> HIDE DEF D
<1> QED
  BY <1>6, StageStep

\* A step that changes no connection and queues nothing.
LEMMA QuietStep ==
    ASSUME TypeInv, OrderInv, HoldsAnnounced, UNCHANGED <<connVars, connections>>,
           \A c \in Conn : NoNewTask(c)
    PROVE  OrderInv'
<1> DEFINE D == {}
<1>1. D \in SUBSET Conn /\ \A c \in Conn \ D : Same(c) /\ NoNewTask(c)
  BY DEF Same, connVars
<1>2. \A c \in D : (Fresh(c) \/ Accepted(c) \/ Announced(c))' /\ up'[c] = up[c]
  OBVIOUS
<1> HIDE DEF D
<1> QED
  BY <1>1, <1>2, StageStep

\* The user's calls queue forceClose()'s functor, or nothing.
LEMMA CallsMove ==
    ASSUME TypeInv, NEW run, Ran(run),
           NEW ctx, NEW l \in Loops, NEW d \in Conn, NEW s,
           NEW r \in Calls(ctx, d, s), queue' = [queue EXCEPT ![l] = @ \o r.tasks]
    PROVE  /\ \/ /\ Moves(run, {})
                 /\ r.state = s \/ (s = "CONNECTED" /\ r.state = "DISCONNECTING")
              \/ /\ Moves(run, {<<l, TaskOf("close", d)>>})
                 /\ ctx \in ForceFrom
                 /\ s \in {"CONNECTED", "DISCONNECTING"}
                 /\ r.state = "DISCONNECTED"
           /\ r.state = s \/ r.state \in {"DISCONNECTING", "DISCONNECTED"}
<1>1. \/ /\ queue' = queue
         /\ r.state = s \/ (s = "CONNECTED" /\ r.state = "DISCONNECTING")
      \/ /\ Push(l, "close", d)
         /\ ctx \in ForceFrom
         /\ s \in {"CONNECTED", "DISCONNECTING"}
         /\ r.state = "DISCONNECTED"
  BY CallsQueue DEF TypeInv
<1>2. queue' = queue => Moves(run, {})
  BY StillMoves
<1>3. Push(l, "close", d) => Moves(run, {<<l, TaskOf("close", d)>>})
  BY PushMoves DEF Op
<1> QED
  BY <1>1, <1>2, <1>3

\* handleClose() queues what removes the connection from the server, or what
\* follows the removal.
LEMMA CloseMoves ==
    ASSUME TypeInv, NEW run, Ran(run),
           NEW c \in Conn, CloseConnection(c)
    PROVE  \/ /\ loopOf[c] = Base
              /\ connections' = connections \ {c}
              /\ Moves(run, {<<loopOf[c], TaskOf("destroyed", c)>>})
           \/ /\ loopOf[c] # Base
              /\ connections' = connections
              /\ Moves(run, {<<Base, TaskOf("remove", c)>>})
<1>1. "destroyed" \in Op /\ "remove" \in Op
  BY DEF Op
<1>2. Base \in Loops /\ loopOf[c] \in Loops
  BY BaseLoop DEF TypeInv, TypeOK
<1>3. Push(loopOf[c], "destroyed", c) => Moves(run, {<<loopOf[c], TaskOf("destroyed", c)>>})
  BY <1>1, <1>2, PushMoves
<1>4. Push(Base, "remove", c) => Moves(run, {<<Base, TaskOf("remove", c)>>})
  BY <1>1, <1>2, PushMoves
<1> QED
  BY <1>3, <1>4 DEF CloseConnection, RemoveInLoop

\* A functor that runs was there.
LEMMA RunningHas ==
    ASSUME NEW l \in Loops, NEW op \in Op, NEW c \in Conn, NEW new,
           Moves({<<l, TaskOf(op, c)>>}, new)
    PROVE  InFunctors(l, TaskOf(op, c)) /\ Has(l, TaskOf(op, c))
BY TaskType DEF Moves, Has

\* Every connection but c is left alone by handleClose(c).
LEMMA CloseSame ==
    ASSUME TypeInv, NEW c \in Conn, CloseConnection(c)
    PROVE  /\ \A d \in Conn \ {c} : Same(d)
           /\ up' = up /\ loopOf' = loopOf
           /\ cstate'[c] = "DISCONNECTED" /\ ~recving'[c]
           /\ down'[c] = down[c] + 1 /\ reg'[c] = Disabled(reg[c])
<1>1. /\ cstate' = [cstate EXCEPT ![c] = "DISCONNECTED"]
      /\ reg' = [reg EXCEPT ![c] = Disabled(@)]
      /\ recving' = [recving EXCEPT ![c] = FALSE]
      /\ down' = [down EXCEPT ![c] = @ + 1]
      /\ up' = up /\ loopOf' = loopOf
      /\ connections' = connections \/ connections' = connections \ {c}
  BY DEF CloseConnection, RemoveInLoop
<1> QED
  BY <1>1 DEF Same, TypeInv, TypeOK

\* A connection that was announced, or that has a functor other than
\* connectEstablished(), is in the third stage.
LEMMA AnnouncedIf ==
    ASSUME OrderInv, NEW c \in Conn
    PROVE  /\ up[c] > 0 => Announced(c)
           /\ \A l \in Loops, op \in Op \ {"established"} :
                 Has(l, TaskOf(op, c)) => Announced(c)
           /\ reg[c] # "NEW" => Announced(c)
<1>1. Fresh(c) \/ Accepted(c) \/ Announced(c)
  BY DEF OrderInv
<1>2. Fresh(c) => up[c] = 0 /\ reg[c] = "NEW" /\ \A l \in Loops, op \in Op : ~Has(l, TaskOf(op, c))
  BY DEF Fresh, NoTask
<1>3. Accepted(c) => /\ up[c] = 0 /\ reg[c] = "NEW"
                     /\ \A l \in Loops, op \in Op : Has(l, TaskOf(op, c)) => op = "established"
  BY DEF Accepted, OnlyTask
<1> QED
  BY <1>1, <1>2, <1>3

LEMMA EstablishSame ==
    ASSUME TypeInv, NEW l \in Loops, NEW c \in Conn, Establish(l, c)
    PROVE  /\ \A d \in Conn \ {c} :
                 /\ cstate'[d] = cstate[d] /\ reg'[d] = reg[d] /\ recving'[d] = recving[d]
                 /\ up'[d] = up[d] /\ down'[d] = down[d]
           /\ cstate'[c] \in {"CONNECTED", "DISCONNECTING", "DISCONNECTED"}
           /\ up'[c] = up[c] + 1 /\ down'[c] = down[c]
           /\ reg'[c] = "ADD" /\ recving'[c]
<1>1. PICK r \in Calls("connection", c, "CONNECTED") :
          /\ cstate' = [cstate EXCEPT ![c] = r.state]
          /\ queue' = [queue EXCEPT ![l] = @ \o r.tasks]
  BY DEF Establish
<1>2. r.state \in {"CONNECTED", "DISCONNECTING", "DISCONNECTED"}
  BY CallsCases
<1>3. /\ reg' = [reg EXCEPT ![c] = "ADD"]
      /\ recving' = [recving EXCEPT ![c] = TRUE]
      /\ up' = [up EXCEPT ![c] = @ + 1]
      /\ down' = down
  BY DEF Establish
<1>4. \A d \in Conn \ {c} : cstate'[d] = cstate[d] /\ reg'[d] = reg[d]
  BY <1>1, <1>3 DEF TypeInv, TypeOK
<1>5. \A d \in Conn \ {c} : recving'[d] = recving[d] /\ up'[d] = up[d] /\ down'[d] = down[d]
  BY <1>3 DEF TypeInv, TypeOK
<1>6. cstate'[c] = r.state /\ reg'[c] = "ADD" /\ recving'[c]
  BY <1>1, <1>3 DEF TypeInv, TypeOK
<1>7. up'[c] = up[c] + 1 /\ down'[c] = down[c]
  BY <1>3 DEF TypeInv, TypeOK
<1> QED
  BY <1>2, <1>4, <1>5, <1>6, <1>7

\* connectEstablished() queues nothing but what the user's callback asks for.
LEMMA EstablishMoves ==
    ASSUME TypeInv, NEW run, Ran(run),
           NEW l \in Loops, NEW c \in Conn, Establish(l, c)
    PROVE  \/ Moves(run, {}) /\ cstate'[c] \in {"CONNECTED", "DISCONNECTING"}
           \/ Moves(run, {<<l, TaskOf("close", c)>>}) /\ "connection" \in ForceFrom
<1>1. PICK r \in Calls("connection", c, "CONNECTED") :
          /\ cstate' = [cstate EXCEPT ![c] = r.state]
          /\ queue' = [queue EXCEPT ![l] = @ \o r.tasks]
  BY DEF Establish
<1>2. cstate'[c] = r.state
  BY <1>1 DEF TypeInv, TypeOK
<1>3. TypeOK /\ "close" \in Op
  BY DEF TypeInv, Op
<1>4. \/ queue' = queue /\ r.state \in {"CONNECTED", "DISCONNECTING"}
      \/ Push(l, "close", c) /\ "connection" \in ForceFrom
  BY <1>1, <1>3, CallsQueue
<1>5. queue' = queue => Moves(run, {})
  BY StillMoves
<1>6. Push(l, "close", c) => Moves(run, {<<l, TaskOf("close", c)>>})
  BY <1>3, PushMoves
<1> QED
  BY <1>2, <1>4, <1>5, <1>6

\* The steps of the loops that change no connection.
LEMMA OrderLoops ==
    ASSUME TypeInv, OrderInv, NEW l \in Loops,
           Poll(l) \/ BeginTasks(l) \/ EndTasks(l) \/ AcceptFails
    PROVE  OrderInv'
<1>1. CASE Poll(l)
  <2>1. PICK s \in SUBSET Ready(l) : batch' = [batch EXCEPT ![l] = s]
    BY <1>1 DEF Poll
  <2>2. \A c \in Conn : c \in s => up[c] = 1
    <3> SUFFICES ASSUME NEW c \in Conn, c \in s PROVE up[c] = 1
      OBVIOUS
    <3>1. reg[c] = "ADD"
      BY TCPServerAssumption DEF Ready
    <3> QED
      BY <3>1, AnnouncedIf DEF Announced
  <2>3. \A k \in Loops, c \in Conn : c \in batch'[k] => c \in batch[k] \/ up[c] = 1
    BY <2>1, <2>2 DEF TypeInv, TypeOK
  <2>4. HoldsAnnounced
    BY <1>1, <2>3 DEF HoldsAnnounced, Poll
  <2>5. \A c \in Conn : NoNewTask(c)
    BY <1>1 DEF Poll, NoNewTask, Has, Once, InFunctors, InQueue, OnceInFunctors, OnceInQueue
  <2> QED
    BY <1>1, <2>4, <2>5, QuietStep DEF Poll, serverVars
<1>2. CASE BeginTasks(l)
  <2>1. Moves({}, {})
    BY <1>2, BeginMoves
  <2>2. \A c \in Conn : NoNewTask(c)
    BY <2>1, TaskType DEF Moves, NoNewTask
  <2> QED
    BY <1>2, <2>2, QuietStep DEF BeginTasks, HoldsAnnounced, serverVars
<1>3. CASE EndTasks(l)
  <2>1. \A c \in Conn : NoNewTask(c)
    BY <1>3, EndMoves, TaskType DEF NoNewTask
  <2> QED
    BY <1>3, <2>1, QuietStep DEF EndTasks, HoldsAnnounced, serverVars
<1>4. CASE AcceptFails
  <2>1. \A c \in Conn : NoNewTask(c)
    BY <1>4 DEF AcceptFails, Handled, NoNewTask, Has, Once, InFunctors, InQueue,
                OnceInFunctors, OnceInQueue
  <2>2. \A k \in Loops : batch'[k] \subseteq batch[k]
    BY <1>4, BaseLoop DEF AcceptFails, Handled, TypeInv, TypeOK
  <2> QED
    BY <1>4, <2>1, <2>2, QuietStep DEF AcceptFails, Handled, HoldsAnnounced, serverVars
<1> QED
  BY <1>1, <1>2, <1>3, <1>4

LEMMA HandledHolds ==
    ASSUME TypeInv, NEW l \in Loops, NEW c, Handled(l, c)
    PROVE  HoldsAnnounced /\ functors' = functors /\ idx' = idx
<1>1. \A k \in Loops : batch'[k] \subseteq batch[k]
  BY DEF Handled, TypeInv, TypeOK
<1> QED
  BY <1>1 DEF Handled, HoldsAnnounced

\* A connection is accepted: it is announced at once, or its functor is queued.
LEMMA OrderNew ==
    ASSUME TypeInv, OrderInv, NEW c \in Conn, NewConnection(c)
    PROVE  OrderInv'
<1>1. HoldsAnnounced /\ functors' = functors /\ idx' = idx
  BY HandledHolds, BaseLoop DEF NewConnection
<1>2. Fresh(c)
  BY DEF NewConnection, OrderInv, Accepted, Announced
<1>3. PICK n \in Loops : n = NextLoop
  BY NextLoopType DEF TypeInv
<1>4. /\ loopOf'[c] = n /\ c \in connections'
      /\ \A d \in Conn \ {c} : loopOf'[d] = loopOf[d] /\ (d \in connections' <=> d \in connections)
  BY <1>3 DEF NewConnection, TypeInv, TypeOK
<1>5. CASE n = Base
  <2>1. Establish(Base, c)
    BY <1>3, <1>5 DEF NewConnection
  <2>2. PICK new : Moves({}, new) /\ new \in {{}, {<<Base, TaskOf("close", c)>>}}
    <3> DEFINE run == {}
    <3>1. Ran(run)
      BY <1>1, RanNone
    <3> HIDE DEF run
    <3>2. \/ Moves(run, {}) \/ Moves(run, {<<Base, TaskOf("close", c)>>})
      BY <2>1, <3>1, EstablishMoves, BaseLoop
    <3> QED
      BY <3>2 DEF run
  <2>3. About({}, c) /\ About(new, c)
    <3>1. About({<<Base, TaskOf("close", c)>>}, c)
      BY AboutOne
    <3>2. About({}, c)
      BY AboutOne
    <3> QED
      BY <2>2, <3>1, <3>2
  <2>4. \A d \in Conn \ {c} : Same(d) /\ NoNewTask(d)
    BY <1>4, <2>1, <2>2, <2>3, OtherTasks, EstablishSame, BaseLoop DEF Same
  <2>5. /\ cstate'[c] # "none" /\ up'[c] = 1
    BY <1>2, <2>1, EstablishSame, BaseLoop DEF Fresh
  <2>6. \A l \in Loops, op \in {"established", "remove"} : ~Has(l, TaskOf(op, c))'
    <3> SUFFICES ASSUME NEW l \in Loops, NEW op \in {"established", "remove"}
                 PROVE  ~Has(l, TaskOf(op, c))'
      OBVIOUS
    <3>1. TaskOf(op, c) \in Task /\ ~Has(l, TaskOf(op, c))
      BY <1>2, TaskType DEF Fresh, NoTask, Op
    <3>2. <<l, TaskOf(op, c)>> \notin new
      BY <2>2, TaskOfEq
    <3> QED
      BY <2>2, <3>1, <3>2 DEF Moves
  <2>7. Announced(c)'
    BY <1>4, <2>5, <2>6 DEF Announced
  <2> DEFINE D == {c}
  <2>8. /\ D \in SUBSET Conn
        /\ \A d \in Conn \ D : Same(d) /\ NoNewTask(d)
        /\ \A d \in D : (Fresh(d) \/ Accepted(d) \/ Announced(d))' /\ up'[d] = 1
    BY <2>4, <2>5, <2>7
  <2> HIDE DEF D
  <2> QED
    BY <1>1, <2>8, StageStep
<1>6. CASE n # Base
  <2>1. /\ cstate' = [cstate EXCEPT ![c] = "CONNECTING"]
        /\ Push(n, "established", c)
        /\ UNCHANGED <<reg, recving, up, down>>
    BY <1>3, <1>6 DEF NewConnection
  <2> DEFINE run == {}
             t == TaskOf("established", c)
             new == {<<n, t>>}
  <2>2. Moves(run, new)
    <3>1. Ran(run)
      BY <1>1, RanNone
    <3> HIDE DEF run
    <3>2. "established" \in Op
      BY DEF Op
    <3> QED
      BY <1>3, <2>1, <3>1, <3>2, PushMoves
  <2>3. About(run, c) /\ About(new, c)
    BY AboutOne
  <2>4. \A l \in Loops, op \in Op : <<l, TaskOf(op, c)>> \in new <=> l = n /\ op = "established"
    BY TaskOfEq
  <2>5. t \in Task /\ <<n, t>> \in new /\ ~Has(n, t)
    BY <1>2, <1>3, TaskType DEF Fresh, NoTask, Op
  <2> HIDE DEF run, new, t
  <2>6. \A d \in Conn \ {c} : Same(d) /\ NoNewTask(d)
    <3>1. \A d \in Conn \ {c} : NoNewTask(d)
      BY <2>2, <2>3, OtherTasks
    <3> QED
      BY <1>4, <2>1, <3>1 DEF Same, TypeInv, TypeOK
  <2>7. OnlyTask(c, n, "established")'
    <3> SUFFICES ASSUME NEW l \in Loops, NEW op \in Op, Has(l, TaskOf(op, c))'
                 PROVE  l = n /\ op = "established"
      BY DEF OnlyTask
    <3>1. TaskOf(op, c) \in Task /\ ~Has(l, TaskOf(op, c))
      BY <1>2, TaskType DEF Fresh, NoTask
    <3> QED
      BY <2>2, <2>4, <3>1 DEF Moves
  <2>8. Once(n, t)'
    <3>1. Once(n, t)
      BY <2>5 DEF Once, Has, InFunctors, InQueue, OnceInFunctors, OnceInQueue
    <3> QED
      BY <1>3, <2>2, <2>5, <3>1 DEF Moves
  <2>9. Accepted(c)'
    BY <1>2, <1>4, <2>1, <2>7, <2>8 DEF Accepted, Fresh, TypeInv, TypeOK, t
  <2> DEFINE D == {c}
  <2>10. /\ D \in SUBSET Conn
         /\ \A d \in Conn \ D : Same(d) /\ NoNewTask(d)
         /\ \A d \in D : (Fresh(d) \/ Accepted(d) \/ Announced(d))' /\ up'[d] = up[d]
    BY <2>1, <2>6, <2>9
  <2> HIDE DEF D
  <2> QED
    BY <1>1, <2>10, StageStep
<1> QED
  BY <1>5, <1>6

\* What is used of a user's call in a step on connection d.
LEMMA CallsStep ==
    ASSUME TypeInv, OrderInv, HoldsAnnounced, NEW d \in Conn, up[d] > 0,
           functors' = functors, idx' = idx,
           UNCHANGED <<reg, recving, loopOf, up, down, connections>>,
           NEW ctx, NEW l \in Loops, NEW r \in Calls(ctx, d, cstate[d]),
           cstate' = [cstate EXCEPT ![d] = r.state],
           queue' = [queue EXCEPT ![l] = @ \o r.tasks]
    PROVE  OrderInv'
<1> DEFINE run == {}
<1>1. Ran(run) /\ About(run, d)
  BY RanNone, AboutOne
<1> HIDE DEF run
<1>2. PICK new : Moves(run, new) /\ new \in {{}, {<<l, TaskOf("close", d)>>}}
  BY <1>1, CallsMove
<1>3. About(new, d)
  <2>1. About({<<l, TaskOf("close", d)>>}, d)
    BY AboutOne
  <2>2. About({}, d)
    BY AboutOne
  <2> QED
    BY <1>2, <2>1, <2>2
<1>4. \A c \in Conn \ {d} : Same(c)
  BY DEF Same, TypeInv, TypeOK
<1>5. Announced(d)
  BY AnnouncedIf
<1>6. cstate'[d] # "none"
  <2>1. cstate'[d] = r.state
    BY DEF TypeInv, TypeOK
  <2>2. r.state = cstate[d] \/ r.state \in {"DISCONNECTING", "DISCONNECTED"}
    BY CallsCases
  <2> QED
    BY <1>5, <2>1, <2>2 DEF Announced
<1>7. \A k \in Loops, op \in {"established", "remove"} : <<k, TaskOf(op, d)>> \notin new
  BY <1>2, TaskOfEq
<1> QED
  BY <1>1, <1>2, <1>3, <1>4, <1>5, <1>6, <1>7, AnnouncedStep

\* handleClose(), in the batch or as a functor.
LEMMA CloseStep ==
    ASSUME TypeInv, OrderInv, HoldsAnnounced, NEW c \in Conn, Announced(c),
           NEW run, Ran(run), About(run, c), CloseConnection(c)
    PROVE  OrderInv'
<1>1. PICK new : /\ Moves(run, new)
                 /\ \/ new = {<<loopOf[c], TaskOf("destroyed", c)>>}
                    \/ new = {<<Base, TaskOf("remove", c)>>}
  BY CloseMoves
<1>2. About(new, c)
  <2>1. About({<<loopOf[c], TaskOf("destroyed", c)>>}, c)
    BY AboutOne
  <2>2. About({<<Base, TaskOf("remove", c)>>}, c)
    BY AboutOne
  <2> QED
    BY <1>1, <2>1, <2>2
<1>3. \A l \in Loops : <<l, TaskOf("established", c)>> \notin new
  BY <1>1, TaskOfEq
<1>4. /\ \A d \in Conn \ {c} : Same(d)
      /\ up' = up /\ cstate'[c] # "none" /\ down'[c] = down[c] + 1
  BY CloseSame
<1>5. down'[c] > 0
  BY <1>4 DEF TypeInv, TypeOK
<1> QED
  BY <1>1, <1>2, <1>3, <1>4, <1>5, AnnouncedStep

\* The steps of a batch.
LEMMA OrderBatch ==
    ASSUME TypeInv, OrderInv, NEW l \in Loops, NEW c \in Conn,
           HandleMessage(l, c) \/ HandleEof(l, c)
    PROVE  OrderInv'
<1>1. CASE HandleMessage(l, c)
  <2>1. HoldsAnnounced /\ functors' = functors /\ idx' = idx
    BY <1>1, HandledHolds DEF HandleMessage
  <2>2. PICK d \in Conn :
           /\ up[d] > 0
           /\ \E r \in Calls(IF d = c THEN "message" ELSE "peer", d, cstate[d]) :
                 /\ cstate' = [cstate EXCEPT ![d] = r.state]
                 /\ queue' = [queue EXCEPT ![l] = @ \o r.tasks]
    BY <1>1 DEF HandleMessage
  <2>3. PICK r \in Calls(IF d = c THEN "message" ELSE "peer", d, cstate[d]) :
            /\ cstate' = [cstate EXCEPT ![d] = r.state]
            /\ queue' = [queue EXCEPT ![l] = @ \o r.tasks]
    BY <2>2
  <2>4. UNCHANGED <<reg, recving, loopOf, up, down, connections>>
    BY <1>1 DEF HandleMessage, serverVars
  <2> QED
    BY <2>1, <2>2, <2>3, <2>4, CallsStep
<1>2. CASE HandleEof(l, c)
  <2>1. HoldsAnnounced /\ functors' = functors /\ idx' = idx
    BY <1>2, HandledHolds DEF HandleEof
  <2>2. up[c] > 0
    BY <1>2 DEF HandleEof, Handled, OrderInv
  <2>3. Announced(c)
    BY <2>2, AnnouncedIf
  <2> DEFINE run == {}
  <2>4. Ran(run) /\ About(run, c)
    BY <2>1, RanNone, AboutOne
  <2> HIDE DEF run
  <2> QED
    BY <1>2, <2>1, <2>3, <2>4, CloseStep DEF HandleEof
<1> QED
  BY <1>1, <1>2

LEMMA RunningHolds ==
    ASSUME NEW l \in Loops, NEW op \in Op, NEW c \in Conn, Running(l, op, c)
    PROVE  /\ HoldsAnnounced /\ functors' = functors
           /\ Ran({<<l, TaskOf(op, c)>>})
           /\ About({<<l, TaskOf(op, c)>>}, c)
BY RanOne, AboutOne DEF Running, HoldsAnnounced

\* connectEstablished() as a functor: the one functor of an accepted connection.
LEMMA OrderEstablished ==
    ASSUME TypeInv, OrderInv, NEW l \in Loops, NEW c \in Conn, RunEstablished(l, c)
    PROVE  OrderInv'
<1> DEFINE t == TaskOf("established", c)
           run == {<<l, t>>}
<1>1. HoldsAnnounced /\ Ran(run) /\ About(run, c)
  <2>1. "established" \in Op
    BY DEF Op
  <2> QED
    BY <2>1, RunningHolds DEF RunEstablished
<1>2. \A m \in Loops, p \in Op : <<m, TaskOf(p, c)>> \in run <=> m = l /\ p = "established"
  BY TaskOfEq
<1>3. <<l, t>> \in run /\ t \in Task
  BY TaskType DEF Op
<1> HIDE DEF run
<1>4. Establish(l, c) /\ UNCHANGED <<loopOf, connections>>
  BY DEF RunEstablished, serverVars
<1>5. PICK new : Moves(run, new) /\ new \in {{}, {<<l, TaskOf("close", c)>>}}
  BY <1>1, <1>4, EstablishMoves
<1>6. About(new, c)
  <2>1. About({<<l, TaskOf("close", c)>>}, c)
    BY AboutOne
  <2>2. About({}, c)
    BY AboutOne
  <2> QED
    BY <1>5, <2>1, <2>2
<1>7. \A m \in Loops, p \in Op \ {"close"} : <<m, TaskOf(p, c)>> \notin new
  BY <1>5, TaskOfEq
<1>8. Has(l, t)
  BY <1>3, <1>5 DEF Moves, Has
<1>9. Accepted(c)
  BY <1>8 DEF OrderInv, Fresh, Announced, NoTask, Op
<1>10. loopOf[c] = l /\ Once(l, t)
  BY <1>8, <1>9 DEF Accepted, OnlyTask, Op
<1>11. \A m \in Loops : ~Has(m, t)'
  <2>1. <<l, t>> \notin new
    BY <1>7 DEF Op
  <2>2. ~Has(l, t)'
    BY <1>3, <1>5, <1>10, <2>1 DEF Moves
  <2>3. ASSUME NEW m \in Loops \ {l} PROVE ~Has(m, t)'
    <3>1. ~Has(m, t)
      BY <1>9, <1>10 DEF Accepted, OnlyTask, Op
    <3>2. <<m, t>> \notin new
      BY <1>7 DEF Op
    <3> QED
      BY <1>3, <1>5, <3>1, <3>2 DEF Moves
  <2> QED
    BY <2>2, <2>3
<1>12. \A m \in Loops : ~Has(m, TaskOf("remove", c))'
  <2> SUFFICES ASSUME NEW m \in Loops PROVE ~Has(m, TaskOf("remove", c))'
    OBVIOUS
  <2>1. ~Has(m, TaskOf("remove", c)) /\ TaskOf("remove", c) \in Task
    BY <1>9, TaskType DEF Accepted, OnlyTask, Op
  <2>2. <<m, TaskOf("remove", c)>> \notin new
    BY <1>7 DEF Op
  <2> QED
    BY <1>5, <2>1, <2>2 DEF Moves
<1>13. cstate'[c] # "none" /\ up'[c] = 1
  BY <1>4, <1>9, EstablishSame DEF Accepted
<1>14. Announced(c)'
  BY <1>4, <1>9, <1>11, <1>12, <1>13 DEF Announced, Accepted
<1>15. \A d \in Conn \ {c} : Same(d) /\ NoNewTask(d)
  BY <1>1, <1>4, <1>5, <1>6, OtherTasks, EstablishSame DEF Same
<1> DEFINE D == {c}
<1>16. /\ D \in SUBSET Conn
       /\ \A d \in Conn \ D : Same(d) /\ NoNewTask(d)
       /\ \A d \in D : (Fresh(d) \/ Accepted(d) \/ Announced(d))' /\ up'[d] = 1
  BY <1>13, <1>14, <1>15
<1> HIDE DEF D
<1> QED
  BY <1>1, <1>16, StageStep

\* The other functors: each was queued for an announced connection.
LEMMA OrderRun ==
    ASSUME TypeInv, OrderInv, NEW l \in Loops, NEW c \in Conn,
           RunRemove(l, c) \/ RunDestroyed(l, c) \/ RunClose(l, c) \/ RunShutdown(l, c)
    PROVE  OrderInv'
<1>1. ASSUME NEW op \in Op \ {"established"}, Running(l, op, c)
      PROVE  /\ HoldsAnnounced /\ functors' = functors
             /\ Ran({<<l, TaskOf(op, c)>>})
             /\ About({<<l, TaskOf(op, c)>>}, c)
             /\ Has(l, TaskOf(op, c)) /\ Announced(c)
  <2>1. /\ HoldsAnnounced /\ functors' = functors
        /\ Ran({<<l, TaskOf(op, c)>>})
        /\ About({<<l, TaskOf(op, c)>>}, c)
    BY <1>1, RunningHolds
  <2>2. Has(l, TaskOf(op, c))
    <3>1. idx[l] \in 1 .. Len(functors[l])
      <4>1. /\ idx[l] \in Nat /\ idx[l] # 0 /\ Len(functors[l]) \in Nat
            /\ idx[l] <= Len(functors[l])
        BY <1>1, LenProperties DEF Running, TypeInv, TypeOK, LoopInv
      <4> QED
        BY <4>1
    <3>2. functors[l][idx[l]] = TaskOf(op, c) /\ idx[l] <= idx[l]
      BY <1>1, <3>1 DEF Running, TaskOf
    <3> QED
      BY <3>1, <3>2 DEF Has, InFunctors
  <2> QED
    BY <2>1, <2>2, AnnouncedIf
<1>2. "remove" \in Op /\ "destroyed" \in Op /\ "close" \in Op /\ "shutdown" \in Op
  BY DEF Op
<1>3. CASE RunRemove(l, c)
  <2> DEFINE run == {<<l, TaskOf("remove", c)>>}
             new == {<<loopOf[c], TaskOf("destroyed", c)>>}
  <2>1. /\ HoldsAnnounced /\ Ran(run) /\ About(run, c)
        /\ Has(l, TaskOf("remove", c)) /\ Announced(c)
    BY <1>1, <1>2, <1>3 DEF RunRemove
  <2>2. down[c] > 0
    BY <2>1 DEF Announced
  <2>3. About(new, c)
    BY AboutOne
  <2>4. \A k \in Loops, p \in {"established", "remove"} : <<k, TaskOf(p, c)>> \notin new
    BY TaskOfEq
  <2> HIDE DEF run
  <2>5. Moves(run, new)
    <3>1. loopOf[c] \in Loops
      BY DEF TypeInv, TypeOK
    <3> QED
      BY <1>2, <1>3, <2>1, <3>1, PushMoves DEF RunRemove, RemoveInLoop
  <2> HIDE DEF new
  <2>6. /\ \A d \in Conn \ {c} : Same(d)
        /\ up' = up /\ cstate' = cstate /\ down' = down
    BY <1>3 DEF RunRemove, RemoveInLoop, Same, connVars
  <2>7. cstate'[c] # "none" /\ down'[c] > 0
    BY <2>1, <2>2, <2>6 DEF Announced
  <2> QED
    BY <2>1, <2>3, <2>4, <2>5, <2>6, <2>7, AnnouncedStep
<1>4. CASE RunDestroyed(l, c)
  <2> DEFINE run == {<<l, TaskOf("destroyed", c)>>}
             new == {}
  <2>1. HoldsAnnounced /\ Ran(run) /\ About(run, c) /\ Announced(c)
    BY <1>1, <1>2, <1>4 DEF RunDestroyed
  <2>2. About(new, c)
    BY AboutOne
  <2> HIDE DEF run
  <2>3. Moves(run, new)
    BY <1>4, <2>1, StillMoves DEF RunDestroyed
  <2>4. \A k \in Loops, p \in {"established", "remove"} : <<k, TaskOf(p, c)>> \notin new
    OBVIOUS
  <2> HIDE DEF new
  <2>5. /\ up' = up /\ connections' = connections
        /\ cstate'[c] \in {cstate[c], "DISCONNECTED"}
        /\ down'[c] \in {down[c], down[c] + 1}
    BY <1>4 DEF RunDestroyed, TypeInv, TypeOK, serverVars
  <2>6. \A d \in Conn \ {c} : Same(d)
    <3>1. \A d \in Conn \ {c} : cstate'[d] = cstate[d] /\ down'[d] = down[d]
      BY <1>4 DEF RunDestroyed, TypeInv, TypeOK
    <3>2. \A d \in Conn \ {c} : reg'[d] = reg[d] /\ recving'[d] = recving[d]
      BY <1>4 DEF RunDestroyed, TypeInv, TypeOK
    <3> QED
      BY <1>4, <3>1, <3>2 DEF RunDestroyed, Same, serverVars
  <2>7. cstate'[c] # "none" /\ (down[c] > 0 => down'[c] > 0)
    BY <2>1, <2>5 DEF Announced, TypeInv, TypeOK
  <2> QED
    BY <2>1, <2>2, <2>3, <2>4, <2>5, <2>6, <2>7, AnnouncedStep
<1>5. CASE RunClose(l, c)
  <2> DEFINE run == {<<l, TaskOf("close", c)>>}
  <2>1. HoldsAnnounced /\ Ran(run) /\ About(run, c) /\ Announced(c)
    BY <1>1, <1>2, <1>5 DEF RunClose
  <2> HIDE DEF run
  <2> QED
    BY <1>5, <2>1, CloseStep DEF RunClose
<1>6. CASE RunShutdown(l, c)
  <2> DEFINE run == {<<l, TaskOf("shutdown", c)>>}
  <2>1. HoldsAnnounced /\ Ran(run) /\ About(run, c) /\ Announced(c)
    BY <1>1, <1>2, <1>6 DEF RunShutdown
  <2> HIDE DEF run
  <2>2. Moves(run, {})
    BY <1>6, <2>1, StillMoves DEF RunShutdown
  <2>3. \A d \in Conn : NoNewTask(d)
    BY <2>2, TaskType DEF Moves, NoNewTask
  <2> QED
    BY <1>6, <2>1, <2>3, QuietStep DEF RunShutdown, serverVars
<1> QED
  BY <1>3, <1>4, <1>5, <1>6

\* The user's functors, the foreign thread, and the server's end.
LEMMA OrderUser ==
    ASSUME TypeInv, OrderInv,
           \/ \E l \in Loops, c \in Conn : UserFunctor(l, c)
           \/ \E c \in Conn : ForeignReads(c)
           \/ ForeignStores \/ ForeignPushes \/ ServerDestroyed \/ UNCHANGED vars
    PROVE  OrderInv'
<1>1. ASSUME functors' = functors, idx' = idx, queue' = queue
      PROVE  \A c \in Conn : NoNewTask(c)
  BY <1>1 DEF NoNewTask, Has, Once, InFunctors, InQueue, OnceInFunctors, OnceInQueue
<1>2. ASSUME NEW l \in Loops, NEW c \in Conn, UserFunctor(l, c) PROVE OrderInv'
  <2>1. PICK r \in Calls("functor", c, cstate[c]) :
            /\ cstate' = [cstate EXCEPT ![c] = r.state]
            /\ queue' = [queue EXCEPT ![l] = @ \o r.tasks]
    BY <1>2 DEF UserFunctor
  <2>2. /\ HoldsAnnounced /\ up[c] > 0 /\ functors' = functors /\ idx' = idx
        /\ UNCHANGED <<reg, recving, loopOf, up, down, connections>>
    BY <1>2 DEF UserFunctor, HoldsAnnounced, serverVars
  <2> QED
    BY <2>1, <2>2, CallsStep
<1>3. ASSUME NEW c \in Conn, ForeignReads(c) PROVE OrderInv'
  <2>1. up[c] = 1
    BY <1>3, AnnouncedIf DEF ForeignReads, Announced
  <2>2. HoldsAnnounced
    BY <1>3, <2>1 DEF ForeignReads, HoldsAnnounced, loopVars
  <2>3. \A d \in Conn : NoNewTask(d)
    BY <1>1, <1>3 DEF ForeignReads, loopVars
  <2> QED
    BY <1>3, <2>2, <2>3, QuietStep DEF ForeignReads, serverVars
<1>4. CASE ForeignStores
  <2>1. PICK c \in Conn : c = fconn
    BY <1>4 DEF ForeignStores, TypeInv, ForeignInv
  <2>2. Announced(c)
    BY <2>1, AnnouncedIf DEF OrderInv
  <2>3. /\ HoldsAnnounced /\ UNCHANGED <<reg, recving, loopOf, up, down, connections>>
        /\ functors' = functors /\ idx' = idx /\ queue' = queue
    BY <1>4 DEF ForeignStores, HoldsAnnounced, loopVars, serverVars
  <2>4. cstate'[c] # "none" /\ \A d \in Conn \ {c} : cstate'[d] = cstate[d]
    BY <1>4, <2>1 DEF ForeignStores, TypeInv, TypeOK
  <2>5. \A d \in Conn \ {c} : Same(d)
    BY <2>3, <2>4 DEF Same
  <2>6. \A d \in Conn : NoNewTask(d)
    BY <1>1, <2>3
  <2>7. Announced(c)'
    <3>1. "established" \in Op /\ "remove" \in Op
      BY DEF Op
    <3> QED
      BY <2>2, <2>3, <2>4, <2>6, <3>1 DEF Announced, NoNewTask
  <2> DEFINE D == {c}
  <2>8. /\ D \in SUBSET Conn
        /\ \A d \in Conn \ D : Same(d) /\ NoNewTask(d)
        /\ \A d \in D : (Fresh(d) \/ Accepted(d) \/ Announced(d))' /\ up'[d] = up[d]
    BY <2>3, <2>5, <2>6, <2>7
  <2> HIDE DEF D
  <2> QED
    BY <2>3, <2>8, StageStep
<1>5. CASE ForeignPushes
  <2>1. PICK c \in Conn : c = fconn
    BY <1>5 DEF ForeignPushes, TypeInv, ForeignInv
  <2>2. PICK op \in {"close", "shutdown"} : Push(loopOf[c], op, c)
    BY <1>5, <2>1 DEF ForeignPushes
  <2> DEFINE run == {}
             new == {<<loopOf[c], TaskOf(op, c)>>}
  <2>3. Ran(run) /\ About(run, c) /\ About(new, c)
    BY <1>5, RanNone, AboutOne DEF ForeignPushes
  <2>4. \A k \in Loops, p \in {"established", "remove"} : <<k, TaskOf(p, c)>> \notin new
    BY TaskOfEq
  <2> HIDE DEF run
  <2>5. Moves(run, new)
    <3>1. loopOf[c] \in Loops /\ op \in Op
      BY DEF TypeInv, TypeOK, Op
    <3> QED
      BY <2>2, <2>3, <3>1, PushMoves
  <2> HIDE DEF new
  <2>6. Announced(c)
    BY <2>1, AnnouncedIf DEF OrderInv
  <2>7. HoldsAnnounced /\ UNCHANGED <<connVars, connections>>
    BY <1>5, TCPServerAssumption DEF ForeignPushes, HoldsAnnounced, serverVars
  <2>8. /\ \A d \in Conn \ {c} : Same(d)
        /\ up' = up /\ cstate'[c] # "none" /\ down' = down
    BY <2>6, <2>7 DEF Same, connVars, Announced
  <2> QED
    BY <2>3, <2>4, <2>5, <2>6, <2>7, <2>8, AnnouncedStep
<1>6. CASE ServerDestroyed
  <2>1. \A d \in Conn : NoNewTask(d)
    BY <1>1, <1>6 DEF ServerDestroyed, loopVars
  <2>2. HoldsAnnounced
    BY <1>6 DEF ServerDestroyed, HoldsAnnounced, loopVars
  <2> QED
    BY <1>6, <2>1, <2>2, QuietStep DEF ServerDestroyed
<1>7. CASE UNCHANGED vars
  <2>1. \A d \in Conn : NoNewTask(d)
    BY <1>1, <1>7 DEF vars, loopVars
  <2>2. HoldsAnnounced
    BY <1>7 DEF vars, HoldsAnnounced, loopVars
  <2> QED
    BY <1>7, <2>1, <2>2, QuietStep DEF vars, serverVars
<1> QED
  BY <1>2, <1>3, <1>4, <1>5, <1>6, <1>7

LEMMA OrderStep ==
    ASSUME TypeInv, OrderInv, [Next]_vars
    PROVE  OrderInv'
<1>1. ASSUME NEW l \in Loops, LoopStep(l) PROVE OrderInv'
  BY <1>1, OrderLoops, OrderNew, OrderBatch, OrderEstablished, OrderRun DEF LoopStep
<1> QED
  BY <1>1, OrderUser DEF Next

LEMMA OrderInvariant == Spec => [](TypeInv /\ OrderInv)
<1>1. Init => OrderInv
  <2> SUFFICES ASSUME Init PROVE OrderInv
    OBVIOUS
  <2>1. \A l \in Loops : functors[l] = <<>> /\ queue[l] = <<>>
    BY DEF Init
  <2>2. Len(<<>>) = 0 /\ 1 .. 0 = {}
    OBVIOUS
  <2>3. \A c \in Conn : NoTask(c)
    BY <2>1, <2>2 DEF NoTask, Has, InFunctors, InQueue
  <2>4. \A c \in Conn : Fresh(c)
    BY <2>3 DEF Fresh, Init
  <2>5. \A l \in Loops : batch[l] = {}
    BY DEF Init
  <2>6. fconn \notin Conn
    BY TCPServerAssumption DEF Init
  <2> QED
    BY <2>4, <2>5, <2>6 DEF OrderInv
<1>2. TypeInv /\ OrderInv /\ [Next]_vars => OrderInv'
  BY OrderStep
<1> QED
  BY <1>1, <1>2, TypeInvariant, PTL DEF Spec

\* Whatever the user calls, and from whichever thread: a connection is announced
\* once at most, no disconnection is reported before it was announced, and the
\* server drops no connection from its list before the report (TCPServer.cc,
\* newConnection() and removeConnection(); TCPConnection.cc, handleClose()).
THEOREM AnnouncedFirst == Spec => []ReportedInOrder
<1>1. TypeInv /\ OrderInv => ReportedInOrder
  <2> SUFFICES ASSUME TypeInv, OrderInv, NEW c \in Conn
               PROVE  /\ up[c] <= 1
                      /\ down[c] > 0 => up[c] = 1
                      /\ cstate[c] # "none" /\ c \notin connections => down[c] > 0
    BY DEF ReportedInOrder
  <2>1. Fresh(c) \/ Accepted(c) \/ Announced(c)
    BY DEF OrderInv
  <2> QED
    BY <2>1 DEF Fresh, Accepted, Announced
<1> QED
  BY <1>1, OrderInvariant, PTL

-------------------------------------------------------------------------------
(***************************************************************************)
(* The end of a connection, when the user calls forceClose() only from the *)
(* connection's own message callback and no foreign thread calls           *)
(* shutdown().  An announced connection goes through five stages, and in   *)
(* each of them it has the one functor that leads to the next, if any.     *)
(* Closing needs the remark that a loop never sleeps with a forceClose()   *)
(* still to run: otherwise the next batch could hold a connection that the *)
(* functor is about to close.                                              *)
(***************************************************************************)
Open(c) ==
    /\ cstate[c] \in {"CONNECTED", "DISCONNECTING"} /\ reg[c] = "ADD" /\ recving[c]
    /\ down[c] = 0
    /\ c \in connections
    /\ NoTask(c)

Closing(c) ==
    /\ cstate[c] = "DISCONNECTED" /\ reg[c] = "ADD" /\ recving[c]
    /\ down[c] = 0
    /\ c \in connections
    /\ OnlyTask(c, loopOf[c], "close")
    /\ Has(loopOf[c], TaskOf("close", c))
    /\ mode[loopOf[c]] # "poll"

Reported(c) == cstate[c] = "DISCONNECTED" /\ ~recving[c] /\ down[c] = 1

Down(c) ==
    /\ Reported(c) /\ reg[c] = "DELETE"
    /\ c \in connections
    /\ OnlyTask(c, Base, "remove")

Removed(c) ==
    /\ Reported(c) /\ reg[c] = "DELETE"
    /\ c \notin connections
    /\ OnlyTask(c, loopOf[c], "destroyed")
    /\ mode[loopOf[c]] # "over" => Has(loopOf[c], TaskOf("destroyed", c))

Gone(c) ==
    /\ Reported(c) /\ reg[c] = "NEW"
    /\ c \notin connections
    /\ NoTask(c)

InStage(c) == Open(c) \/ Closing(c) \/ Down(c) \/ Removed(c) \/ Gone(c)

OnceInv == \A l \in Loops, t \in Task : Once(l, t)

BatchInv == \A l \in Loops, c \in Conn : c \in batch[l] => loopOf[c] = l /\ Open(c)

CloseQueueInv ==
    \A l \in Loops, c \in Conn : InQueue(l, TaskOf("close", c)) => mode[l] = "batch"

NoForeign == fpc = "idle" /\ fconn = NoConn

CloseInv ==
    /\ \A c \in Conn : up[c] = 1 => InStage(c)
    /\ OnceInv
    /\ BatchInv
    /\ CloseQueueInv
    /\ NoForeign
    /\ fault \subseteq {"null"}

\* The functors of c stay what they are, and its loop does not fall asleep.
SameTasks(c) == \A l \in Loops, op \in Op : Has(l, TaskOf(op, c))' <=> Has(l, TaskOf(op, c))

Awake(c) == /\ mode[loopOf[c]] # "poll" => mode'[loopOf[c]] # "poll"
            /\ mode'[loopOf[c]] # "over" => mode[loopOf[c]] # "over"

LEMMA InStageKept ==
    ASSUME TypeInv, NEW c \in Conn, Same(c), SameTasks(c), Awake(c)
    PROVE  (Open(c) => Open(c)') /\ (InStage(c) => InStage(c)')
<1>1. loopOf[c] \in Loops /\ loopOf'[c] = loopOf[c] /\ Base \in Loops
  BY BaseLoop DEF TypeInv, TypeOK, Same
<1>2. /\ NoTask(c) => NoTask(c)'
      /\ \A l \in Loops, op \in Op : OnlyTask(c, l, op) => OnlyTask(c, l, op)'
  BY DEF NoTask, OnlyTask, SameTasks
<1>3. Open(c) => Open(c)'
  BY <1>2 DEF Open, Same
<1>4. Closing(c) => Closing(c)'
  <2>1. SUFFICES ASSUME Closing(c) PROVE Closing(c)'
    OBVIOUS
  <2>2. "close" \in Op
    BY DEF Op
  <2>3. OnlyTask(c, loopOf[c], "close")' /\ Has(loopOf[c], TaskOf("close", c))'
    <3>1. PICK l \in Loops : l = loopOf[c] /\ l = loopOf'[c]
      BY <1>1
    <3>2. OnlyTask(c, l, "close")' /\ Has(l, TaskOf("close", c))'
      BY <1>2, <2>1, <2>2, <3>1 DEF Closing, SameTasks
    <3> QED
      BY <3>1, <3>2 DEF OnlyTask, Has, InFunctors, InQueue
  <2> QED
    BY <1>1, <2>1, <2>3 DEF Closing, Same, Awake
<1>5. Reported(c) => Reported(c)'
  BY DEF Reported, Same
<1>6. Down(c) => Down(c)'
  <2>1. "remove" \in Op
    BY DEF Op
  <2>2. OnlyTask(c, Base, "remove") => OnlyTask(c, Base, "remove")'
    BY <1>1, <1>2, <2>1
  <2> QED
    BY <1>5, <2>2 DEF Down, Same
<1>7. Removed(c) => Removed(c)'
  <2>1. SUFFICES ASSUME Removed(c) PROVE Removed(c)'
    OBVIOUS
  <2>2. "destroyed" \in Op
    BY DEF Op
  <2>3. /\ OnlyTask(c, loopOf[c], "destroyed")'
        /\ mode'[loopOf'[c]] # "over" => Has(loopOf[c], TaskOf("destroyed", c))'
    <3>1. PICK l \in Loops : l = loopOf[c] /\ l = loopOf'[c]
      BY <1>1
    <3>2. OnlyTask(c, l, "destroyed")'
      BY <1>2, <2>1, <2>2, <3>1 DEF Removed
    <3>3. mode'[l] # "over" => Has(l, TaskOf("destroyed", c))'
      BY <2>1, <2>2, <3>1 DEF Removed, SameTasks, Awake
    <3> QED
      BY <3>1, <3>2, <3>3 DEF OnlyTask, Has, InFunctors, InQueue
  <2> QED
    BY <1>5, <2>1, <2>3 DEF Removed, Same
<1>8. Gone(c) => Gone(c)'
  BY <1>2, <1>5 DEF Gone, Same
<1> QED
  BY <1>3, <1>4, <1>6, <1>7, <1>8 DEF InStage

\* The stage of a connection, from what a step finds.
LEMMA StageIf ==
    ASSUME OrderInv, CloseInv, NEW c \in Conn
    PROVE  /\ up[c] > 0 => InStage(c)
           /\ reg[c] # "NEW" => InStage(c)
           /\ \A l \in Loops : Has(l, TaskOf("close", c)) => l = loopOf[c] /\ Closing(c)
           /\ \A l \in Loops : Has(l, TaskOf("remove", c)) => l = Base /\ Down(c)
           /\ \A l \in Loops : Has(l, TaskOf("destroyed", c)) => l = loopOf[c] /\ Removed(c)
           /\ \A l \in Loops : ~Has(l, TaskOf("shutdown", c))
<1>1. Announced(c) => InStage(c)
  BY DEF Announced, CloseInv
<1>2. ASSUME NEW l \in Loops, NEW op \in Op \ {"established"}, Has(l, TaskOf(op, c))
      PROVE  \/ op = "close" /\ l = loopOf[c] /\ Closing(c)
             \/ op = "remove" /\ l = Base /\ Down(c)
             \/ op = "destroyed" /\ l = loopOf[c] /\ Removed(c)
  <2>1. InStage(c)
    BY <1>1, <1>2, AnnouncedIf
  <2>2. ~NoTask(c)
    BY <1>2 DEF NoTask
  <2>3. CASE Closing(c)
    BY <1>2, <2>3 DEF Closing, OnlyTask
  <2>4. CASE Down(c)
    BY <1>2, <2>4 DEF Down, OnlyTask
  <2>5. CASE Removed(c)
    BY <1>2, <2>5 DEF Removed, OnlyTask
  <2> QED
    BY <2>1, <2>2, <2>3, <2>4, <2>5 DEF InStage, Open, Gone
<1>3. "close" \in Op /\ "remove" \in Op /\ "destroyed" \in Op /\ "shutdown" \in Op
  BY DEF Op
<1> QED
  BY <1>1, <1>2, <1>3, AnnouncedIf

\* A step that changes one connection at most.
LEMMA CloseInvFrame ==
    ASSUME TypeInv, OrderInv, CloseInv, NEW D \in SUBSET Conn,
           \A c \in Conn \ D : Same(c) /\ SameTasks(c) /\ Awake(c),
           \A d \in D : (up[d] = 1 => InStage(d))',
           OnceInv', CloseQueueInv', UNCHANGED <<fpc, fconn>>, fault' \subseteq {"null"},
           \A l \in Loops, c \in Conn :
              c \in batch'[l] => \/ c \in batch[l] /\ (c \in D => loopOf'[c] = l /\ Open(c)')
                                 \/ c \notin D /\ loopOf[c] = l /\ Open(c)
    PROVE  CloseInv'
<1>1. ASSUME NEW c \in Conn PROVE (up[c] = 1 => InStage(c))'
  <2>1. CASE c \in D
    BY <2>1
  <2>2. CASE c \notin D
    <3>1. Same(c) /\ (up[c] = 1 => InStage(c))
      BY <2>2 DEF CloseInv
    <3>2. InStage(c) => InStage(c)'
      BY <2>2, InStageKept
    <3> QED
      BY <3>1, <3>2 DEF Same
  <2> QED
    BY <2>1, <2>2
<1>2. BatchInv'
  <2> SUFFICES ASSUME NEW l \in Loops, NEW c \in Conn, c \in batch'[l]
               PROVE  loopOf'[c] = l /\ Open(c)'
    BY DEF BatchInv
  <2>1. CASE c \in D
    BY <2>1
  <2>2. CASE c \notin D
    <3>1. loopOf[c] = l /\ Open(c)
      BY DEF CloseInv, BatchInv
    <3> QED
      BY <2>2, <3>1, InStageKept DEF Same
  <2> QED
    BY <2>1, <2>2
<1>3. NoForeign'
  BY DEF CloseInv, NoForeign
<1> QED
  BY <1>1, <1>2, <1>3 DEF CloseInv

\* What follows from the tasks that a step on connection d moves.
LEMMA MovesFrame ==
    ASSUME TypeInv, CloseInv, NEW d \in Conn, NEW run, NEW new, Moves(run, new),
           About(run, d), About(new, d),
           \A l \in Loops, t \in Task : <<l, t>> \in new => ~Has(l, t)
    PROVE  OnceInv' /\ \A c \in Conn \ {d} : SameTasks(c)
<1>1. \A l \in Loops, t \in Task : Once(l, t)'
  BY DEF Moves, CloseInv, OnceInv
<1>2. \A c \in Conn \ {d} : SameTasks(c)
  BY OtherTasks DEF SameTasks
<1> QED
  BY <1>1, <1>2 DEF OnceInv

LEMMA SameModes ==
    ASSUME mode' = mode
    PROVE  \A c \in Conn : Awake(c)
BY DEF Awake

\* No functor for forceClose() comes into a queue but from a batch.
LEMMA CloseQueued ==
    ASSUME TypeInv, CloseInv, mode' = mode,
           \/ queue' = queue
           \/ \E l \in Loops, op \in Op, c \in Conn :
                 Push(l, op, c) /\ (op = "close" => mode[l] = "batch")
    PROVE  CloseQueueInv'
<1> SUFFICES ASSUME NEW k \in Loops, NEW d \in Conn, InQueue(k, TaskOf("close", d))'
             PROVE  mode[k] = "batch"
  BY DEF CloseQueueInv
<1>1. CASE queue' = queue
  BY <1>1 DEF CloseInv, CloseQueueInv, InQueue
<1>2. ASSUME NEW l \in Loops, NEW op \in Op, NEW c \in Conn,
             Push(l, op, c), op = "close" => mode[l] = "batch"
      PROVE  mode[k] = "batch"
  <2> DEFINE new == {<<l, TaskOf(op, c)>>}
  <2>1. Push(l, op, c) /\ new = {<<l, TaskOf(op, c)>>}
    BY <1>2
  <2>2. <<k, TaskOf("close", d)>> \in new => k = l /\ op = "close"
    BY TaskOfEq
  <2>3. TaskOf("close", d) \in Task
    BY TaskType DEF Op
  <2> HIDE DEF new
  <2>4. InQueue(k, TaskOf("close", d)) \/ <<k, TaskOf("close", d)>> \in new
    BY <2>1, <2>3, QueueMove
  <2> QED
    BY <1>2, <2>2, <2>4 DEF CloseInv, CloseQueueInv
<1> QED
  BY <1>1, <1>2

\* A step of the connection that neither begins nor ends with the vector of a loop.
LEMMA CloseInvMoves ==
    ASSUME TypeInv, OrderInv, CloseInv, NEW d \in Conn, NEW run, NEW new, Moves(run, new),
           About(run, d), About(new, d),
           \A l \in Loops, t \in Task : <<l, t>> \in new => ~Has(l, t),
           \A c \in Conn \ {d} : Same(c), (up[d] = 1 => InStage(d))',
           mode' = mode,
           \/ queue' = queue
           \/ \E l \in Loops, op \in Op, c \in Conn :
                 Push(l, op, c) /\ (op = "close" => mode[l] = "batch"),
           UNCHANGED <<fpc, fconn>>, fault' \subseteq {"null"},
           \A l \in Loops : batch'[l] \subseteq batch[l],
           \A l \in Loops : d \in batch'[l] => loopOf'[d] = l /\ Open(d)'
    PROVE  CloseInv'
<1>1. OnceInv' /\ \A c \in Conn \ {d} : SameTasks(c)
  BY MovesFrame
<1>2. \A c \in Conn : Awake(c)
  BY SameModes
<1>3. CloseQueueInv'
  BY CloseQueued
<1> DEFINE D == {d}
<1>4. /\ D \in SUBSET Conn
      /\ \A c \in Conn \ D : Same(c) /\ SameTasks(c) /\ Awake(c)
      /\ \A c \in D : (up[c] = 1 => InStage(c))'
      /\ \A l \in Loops, c \in Conn :
            c \in batch'[l] => c \in batch[l] /\ (c \in D => loopOf'[c] = l /\ Open(c)')
  BY <1>1, <1>2
<1> HIDE DEF D
<1> QED
  BY <1>1, <1>3, <1>4, CloseInvFrame

\* doTask() ends.  The functors it has run are none of those that a stage needs,
\* and a loop that quits drops only the destruction of its connections.
LEMMA CloseEnd ==
    ASSUME TypeInv, OrderInv, CloseInv, NEW l \in Loops, EndTasks(l)
    PROVE  CloseInv'
<1>1. /\ UNCHANGED <<connVars, connections, fpc, fconn, fault>> /\ batch' = batch
      /\ mode[l] = "tasks"
  BY DEF EndTasks, serverVars
<1>2. \A c \in Conn : Same(c)
  BY <1>1 DEF Same, connVars
<1>3. /\ \A k \in Loops, t \in Task :
            /\ Has(k, t)' => Has(k, t)
            /\ Once(k, t) => Once(k, t)'
            /\ k # l => (Has(k, t)' <=> Has(k, t)) /\ (InQueue(k, t)' <=> InQueue(k, t))
      /\ mode'[l] = "poll" \/ mode'[l] = "over"
      /\ mode'[l] = "poll" => \A t \in Task : Has(l, t)' <=> Has(l, t)
      /\ \A t \in Task : ~InFunctors(l, t)
      /\ \A t \in Task : InQueue(l, t)' => InQueue(l, t)
      /\ \A k \in Loops \ {l} : mode'[k] = mode[k]
  BY EndMoves
<1>4. OnceInv'
  BY <1>3 DEF CloseInv, OnceInv
<1>5. \A c \in Conn : ~InQueue(l, TaskOf("close", c))
  BY <1>1 DEF CloseInv, CloseQueueInv
<1>6. CloseQueueInv'
  <2> SUFFICES ASSUME NEW k \in Loops, NEW c \in Conn, InQueue(k, TaskOf("close", c))'
               PROVE  mode'[k] = "batch"
    BY DEF CloseQueueInv
  <2>1. TaskOf("close", c) \in Task
    BY TaskType DEF Op
  <2>2. k # l /\ InQueue(k, TaskOf("close", c))
    BY <1>3, <1>5, <2>1
  <2> QED
    BY <1>3, <2>2 DEF CloseInv, CloseQueueInv
<1>7. ASSUME NEW c \in Conn
      PROVE  /\ NoTask(c) => NoTask(c)'
             /\ \A k \in Loops, op \in Op : OnlyTask(c, k, op) => OnlyTask(c, k, op)'
  BY <1>3, TaskType DEF NoTask, OnlyTask
<1>8. ASSUME NEW c \in Conn PROVE Open(c) => Open(c)'
  BY <1>2, <1>7 DEF Open, Same
<1>9. ASSUME NEW c \in Conn, InStage(c) PROVE InStage(c)'
  <2>1. PICK k \in Loops : k = loopOf[c] /\ loopOf' = loopOf
    BY <1>1 DEF TypeInv, TypeOK, connVars
  <2>2. Reported(c) => Reported(c)'
    BY <1>2 DEF Reported, Same
  <2>3. CASE Closing(c)
    <3>1. TaskOf("close", c) \in Task /\ "close" \in Op
      BY TaskType DEF Op
    <3>2. k # l
      BY <1>3, <1>5, <2>1, <2>3, <3>1 DEF Closing, Has
    <3>3. Has(k, TaskOf("close", c))' /\ mode'[k] # "poll" /\ OnlyTask(c, k, "close")'
      BY <1>3, <1>7, <2>1, <2>3, <3>1, <3>2 DEF Closing
    <3>4. Closing(c)'
      BY <1>2, <2>1, <2>3, <3>3 DEF Closing, Same, OnlyTask, Has, InFunctors, InQueue
    <3> QED
      BY <3>4 DEF InStage
  <2>4. CASE Down(c)
    <3>1. "remove" \in Op
      BY DEF Op
    <3>2. Down(c)'
      BY <1>2, <1>7, <2>2, <2>4, <3>1, BaseLoop DEF Down, Same
    <3> QED
      BY <3>2 DEF InStage
  <2>5. CASE Removed(c)
    <3>1. TaskOf("destroyed", c) \in Task /\ "destroyed" \in Op
      BY TaskType DEF Op
    <3>2. OnlyTask(c, k, "destroyed")'
      BY <1>7, <2>1, <2>5, <3>1 DEF Removed
    <3>3. mode'[k] # "over" => Has(k, TaskOf("destroyed", c))'
      BY <1>1, <1>3, <2>1, <2>5, <3>1 DEF Removed
    <3>4. Removed(c)'
      BY <1>2, <2>1, <2>2, <2>5, <3>2, <3>3
         DEF Removed, Same, OnlyTask, Has, InFunctors, InQueue
    <3> QED
      BY <3>4 DEF InStage
  <2>6. CASE Gone(c)
    <3>1. Gone(c)'
      BY <1>2, <1>7, <2>2, <2>6 DEF Gone, Same
    <3> QED
      BY <3>1 DEF InStage
  <2> QED
    BY <1>8, <1>9, <2>3, <2>4, <2>5, <2>6 DEF InStage
<1>10. \A c \in Conn : (up[c] = 1 => InStage(c))'
  BY <1>2, <1>9 DEF CloseInv, Same
<1>11. BatchInv'
  BY <1>1, <1>2, <1>8 DEF CloseInv, BatchInv, Same
<1>12. NoForeign' /\ fault' \subseteq {"null"}
  BY <1>1 DEF CloseInv, NoForeign
<1> QED
  BY <1>4, <1>6, <1>10, <1>11, <1>12 DEF CloseInv

\* The steps of the loops that change no connection.
LEMMA CloseLoops ==
    ASSUME TypeInv, OrderInv, CloseInv, NEW l \in Loops,
           Poll(l) \/ BeginTasks(l) \/ EndTasks(l) \/ AcceptFails
    PROVE  CloseInv'
<1> DEFINE D == {}
<1>1. ASSUME UNCHANGED <<connVars, connections>> PROVE \A c \in Conn : Same(c)
  BY <1>1 DEF Same, connVars
<1>2. ASSUME functors' = functors, idx' = idx, queue' = queue
      PROVE  /\ \A c \in Conn : SameTasks(c)
             /\ OnceInv'
             /\ \A k \in Loops, c \in Conn :
                   InQueue(k, TaskOf("close", c))' => mode[k] = "batch"
  BY <1>2 DEF SameTasks, Has, Once, InFunctors, InQueue, OnceInFunctors, OnceInQueue,
              CloseInv, OnceInv, CloseQueueInv
<1>3. CASE Poll(l)
  <2>1. PICK s \in SUBSET Ready(l) : batch' = [batch EXCEPT ![l] = s]
    BY <1>3 DEF Poll
  <2>2. \A c \in Conn : c \in s => loopOf[c] = l /\ Open(c)
    <3> SUFFICES ASSUME NEW c \in Conn, c \in s PROVE loopOf[c] = l /\ Open(c)
      OBVIOUS
    <3>1. reg[c] = "ADD" /\ loopOf[c] = l
      BY TCPServerAssumption DEF Ready
    <3>2. InStage(c) /\ ~Closing(c)
      BY <1>3, <3>1, StageIf DEF Poll, Closing
    <3> QED
      BY <3>1, <3>2 DEF InStage, Down, Removed, Gone
  <2>3. \A k \in Loops, c \in Conn :
           c \in batch'[k] => c \in batch[k] \/ (loopOf[c] = k /\ Open(c))
    BY <2>1, <2>2 DEF TypeInv, TypeOK
  <2>4. /\ \A k \in Loops : mode'[k] = mode[k] \/ (mode[k] = "poll" /\ mode'[k] = "batch")
        /\ functors' = functors /\ idx' = idx /\ queue' = queue
        /\ UNCHANGED <<connVars, connections, fpc, fconn, fault>>
    BY <1>3 DEF Poll, serverVars, TypeInv, TypeOK
  <2>5. \A c \in Conn : Same(c) /\ SameTasks(c) /\ Awake(c)
    BY <1>1, <1>2, <2>4 DEF Awake, TypeInv, TypeOK
  <2>6. OnceInv' /\ CloseQueueInv'
    BY <1>2, <2>4 DEF CloseQueueInv
  <2>7. fault' \subseteq {"null"}
    BY <2>4 DEF CloseInv
  <2>8. /\ D \in SUBSET Conn
        /\ \A c \in Conn \ D : Same(c) /\ SameTasks(c) /\ Awake(c)
        /\ \A c \in D : (up[c] = 1 => InStage(c))'
        /\ \A k \in Loops, c \in Conn :
              c \in batch'[k] => \/ c \in batch[k] /\ (c \in D => loopOf'[c] = k /\ Open(c)')
                                 \/ c \notin D /\ loopOf[c] = k /\ Open(c)
    BY <2>3, <2>5
  <2> HIDE DEF D
  <2> QED
    BY <2>4, <2>6, <2>7, <2>8, CloseInvFrame
<1>4. CASE BeginTasks(l)
  <2>1. /\ Moves({}, {})
        /\ \A t \in Task : ~InQueue(l, t)'
        /\ \A k \in Loops \ {l}, t \in Task : InQueue(k, t)' <=> InQueue(k, t)
    BY <1>4, BeginMoves
  <2>2. OnceInv' /\ \A c \in Conn : SameTasks(c)
    BY <2>1, TaskType DEF Moves, CloseInv, OnceInv, SameTasks
  <2>3. /\ \A k \in Loops \ {l} : mode'[k] = mode[k]
        /\ mode[l] = "batch" /\ mode'[l] = "tasks" /\ batch' = batch
        /\ UNCHANGED <<connVars, connections, fpc, fconn, fault>>
    BY <1>4 DEF BeginTasks, serverVars, TypeInv, TypeOK
  <2>4. CloseQueueInv'
    <3> SUFFICES ASSUME NEW k \in Loops, NEW c \in Conn, InQueue(k, TaskOf("close", c))'
                 PROVE  mode'[k] = "batch"
      BY DEF CloseQueueInv
    <3>1. TaskOf("close", c) \in Task
      BY TaskType DEF Op
    <3>2. k # l /\ InQueue(k, TaskOf("close", c))
      BY <2>1, <3>1
    <3> QED
      BY <2>3, <3>2 DEF CloseInv, CloseQueueInv
  <2>5. \A c \in Conn : Same(c) /\ SameTasks(c) /\ Awake(c)
    BY <1>1, <2>2, <2>3 DEF Awake, TypeInv, TypeOK
  <2>6. /\ D \in SUBSET Conn
        /\ \A c \in Conn \ D : Same(c) /\ SameTasks(c) /\ Awake(c)
        /\ \A c \in D : (up[c] = 1 => InStage(c))'
        /\ \A k \in Loops, c \in Conn :
              c \in batch'[k] => c \in batch[k] /\ (c \in D => loopOf'[c] = k /\ Open(c)')
        /\ fault' \subseteq {"null"}
    BY <2>3, <2>5 DEF CloseInv
  <2> HIDE DEF D
  <2> QED
    BY <2>2, <2>3, <2>4, <2>6, CloseInvFrame
<1>5. CASE AcceptFails
  <2>1. /\ functors' = functors /\ idx' = idx /\ queue' = queue /\ mode' = mode
        /\ UNCHANGED <<connVars, connections, fpc, fconn, fault>>
        /\ \A k \in Loops : batch'[k] \subseteq batch[k]
    BY <1>5, BaseLoop DEF AcceptFails, Handled, serverVars, TypeInv, TypeOK
  <2>2. \A c \in Conn : Same(c) /\ SameTasks(c) /\ Awake(c)
    BY <1>1, <1>2, <2>1, SameModes
  <2>3. OnceInv' /\ CloseQueueInv'
    BY <1>2, <2>1 DEF CloseQueueInv
  <2>4. /\ D \in SUBSET Conn
        /\ \A c \in Conn \ D : Same(c) /\ SameTasks(c) /\ Awake(c)
        /\ \A c \in D : (up[c] = 1 => InStage(c))'
        /\ \A k \in Loops, c \in Conn :
              c \in batch'[k] => c \in batch[k] /\ (c \in D => loopOf'[c] = k /\ Open(c)')
        /\ fault' \subseteq {"null"}
    BY <2>1, <2>2 DEF CloseInv
  <2> HIDE DEF D
  <2> QED
    BY <2>1, <2>3, <2>4, CloseInvFrame
<1>6. CASE EndTasks(l)
  BY <1>6, CloseEnd
<1> QED
  BY <1>3, <1>4, <1>5, <1>6

\* forceClose() is called only from the message callback of the connection, and
\* shutdown() from the threads of the loops.
Calm == ForceFrom \subseteq {"message"} /\ "foreign" \notin ShutdownFrom

LEMMA HandledBatch ==
    ASSUME TypeInv, NEW l \in Loops, NEW c, Handled(l, c)
    PROVE  /\ mode' = mode /\ functors' = functors /\ idx' = idx
           /\ UNCHANGED <<fpc, fconn>>
           /\ \A k \in Loops : batch'[k] \subseteq batch[k]
           /\ c \in batch[l] /\ c \notin batch'[l] /\ mode[l] = "batch"
BY DEF Handled, TypeInv, TypeOK

\* Calls that queue nothing leave an open connection open and a closing one as it
\* is.
LEMMA QuietCall ==
    ASSUME TypeInv, OrderInv, CloseInv, NEW d \in Conn, up[d] > 0, down[d] = 0,
           NEW s, s = cstate[d] \/ (cstate[d] = "CONNECTED" /\ s = "DISCONNECTING"),
           cstate' = [cstate EXCEPT ![d] = s], queue' = queue,
           functors' = functors, idx' = idx, mode' = mode,
           UNCHANGED <<reg, recving, loopOf, up, down, connections, fpc, fconn, fault>>,
           \A l \in Loops : batch'[l] \subseteq batch[l]
    PROVE  CloseInv'
<1> DEFINE run == {}
           new == {}
<1>1. Ran(run) /\ About(run, d) /\ About(new, d)
  BY RanNone, AboutOne
<1>2. \A l \in Loops, t \in Task : <<l, t>> \notin new
  OBVIOUS
<1> HIDE DEF run
<1>3. Moves(run, new)
  BY <1>1, StillMoves
<1> HIDE DEF new
<1>4. /\ \A c \in Conn \ {d} : Same(c)
      /\ cstate'[d] = s
  BY DEF Same, TypeInv, TypeOK
<1>5. SameTasks(d) /\ Awake(d)
  BY DEF SameTasks, Awake, Has, InFunctors, InQueue
<1>6. InStage(d)
  BY StageIf
<1>7. NoTask(d) => NoTask(d)'
  BY <1>5 DEF NoTask, SameTasks
<1>8. Open(d) => Open(d)'
  BY <1>4, <1>7 DEF Open
<1>9. ~Open(d) => InStage(d)'
  <2>1. SUFFICES ASSUME ~Open(d) PROVE InStage(d)'
    OBVIOUS
  <2>2. Closing(d)
    BY <1>6, <2>1 DEF InStage, Down, Removed, Gone, Reported
  <2>3. Same(d)
    BY <1>4, <2>2 DEF Same, Closing
  <2> QED
    BY <1>5, <1>6, <2>3, InStageKept
<1>10. (up[d] = 1 => InStage(d))'
  BY <1>8, <1>9 DEF InStage
<1>11. \A l \in Loops : d \in batch'[l] => loopOf'[d] = l /\ Open(d)'
  BY <1>8 DEF CloseInv, BatchInv
<1>12. fault' \subseteq {"null"}
  BY DEF CloseInv
<1> QED
  BY <1>1, <1>2, <1>3, <1>4, <1>10, <1>11, <1>12, CloseInvMoves

\* connectEstablished() opens the connection: it has no functor left.
LEMMA EstablishStage ==
    ASSUME Calm, TypeInv, OrderInv, CloseInv, NEW l \in Loops, NEW c \in Conn,
           Establish(l, c), up[c] = 0, down[c] = 0, c \in connections',
           \A d \in Conn \ {c} : Same(d), mode' = mode,
           NEW run, Ran(run), About(run, c),
           \A k \in Loops, op \in Op : Has(k, TaskOf(op, c)) => <<k, TaskOf(op, c)>> \in run,
           UNCHANGED <<fpc, fconn, fault>>,
           \A k \in Loops : batch'[k] \subseteq batch[k]
    PROVE  CloseInv'
<1>1. PICK r \in Calls("connection", c, "CONNECTED") :
          /\ cstate' = [cstate EXCEPT ![c] = r.state]
          /\ queue' = [queue EXCEPT ![l] = @ \o r.tasks]
  BY DEF Establish
<1>2. queue' = queue /\ cstate'[c] \in {"CONNECTED", "DISCONNECTING"}
  <2>1. TypeOK /\ "connection" \notin ForceFrom
    BY DEF TypeInv, Calm
  <2>2. queue' = queue /\ r.state \in {"CONNECTED", "DISCONNECTING"}
    BY <1>1, <2>1, CallsQueue
  <2> QED
    BY <1>1, <2>2 DEF TypeInv, TypeOK
<1> DEFINE new == {}
<1>3. About(new, c) /\ \A k \in Loops, t \in Task : <<k, t>> \notin new
  BY AboutOne
<1>4. Moves(run, new)
  BY <1>2, StillMoves
<1> HIDE DEF new
<1>5. NoTask(c)'
  <2> SUFFICES ASSUME NEW k \in Loops, NEW op \in Op PROVE ~Has(k, TaskOf(op, c))'
    BY DEF NoTask
  <2>1. TaskOf(op, c) \in Task
    BY TaskType
  <2>2. Once(k, TaskOf(op, c))
    BY <2>1 DEF CloseInv, OnceInv
  <2> QED
    BY <1>3, <1>4, <2>1, <2>2 DEF Moves
<1>6. Open(c)'
  BY <1>2, <1>5, EstablishSame DEF Open
<1>7. \A k \in Loops : c \notin batch'[k]
  BY DEF OrderInv
<1>8. fault' \subseteq {"null"}
  BY DEF CloseInv
<1>9. (up[c] = 1 => InStage(c))'
  BY <1>6 DEF InStage
<1> QED
  BY <1>2, <1>3, <1>4, <1>7, <1>8, <1>9, CloseInvMoves

\* A connection is accepted.
LEMMA CloseNew ==
    ASSUME Calm, TypeInv, OrderInv, CloseInv, NEW c \in Conn, NewConnection(c)
    PROVE  CloseInv'
<1>1. /\ mode' = mode /\ functors' = functors /\ idx' = idx
      /\ UNCHANGED <<fpc, fconn, fault>>
      /\ \A k \in Loops : batch'[k] \subseteq batch[k]
  BY HandledBatch, BaseLoop DEF NewConnection
<1>2. Fresh(c)
  BY DEF NewConnection, OrderInv, Accepted, Announced
<1>3. PICK n \in Loops : n = NextLoop
  BY NextLoopType DEF TypeInv
<1>4. /\ c \in connections'
      /\ \A d \in Conn \ {c} : loopOf'[d] = loopOf[d] /\ (d \in connections' <=> d \in connections)
  BY DEF NewConnection, TypeInv, TypeOK
<1>5. CASE n = Base
  <2>1. Establish(Base, c)
    BY <1>3, <1>5 DEF NewConnection
  <2> DEFINE run == {}
  <2>2. Ran(run) /\ About(run, c)
    BY <1>1, RanNone, AboutOne
  <2> HIDE DEF run
  <2>3. \A d \in Conn \ {c} : Same(d)
    BY <1>4, <2>1, EstablishSame, BaseLoop DEF Same
  <2>4. /\ up[c] = 0 /\ down[c] = 0
        /\ \A k \in Loops, op \in Op : ~Has(k, TaskOf(op, c))
    BY <1>2 DEF Fresh, NoTask
  <2> QED
    BY <1>1, <1>4, <2>1, <2>2, <2>3, <2>4, EstablishStage, BaseLoop
<1>6. CASE n # Base
  <2>1. /\ cstate' = [cstate EXCEPT ![c] = "CONNECTING"]
        /\ Push(n, "established", c)
        /\ UNCHANGED <<reg, recving, up, down>>
    BY <1>3, <1>6 DEF NewConnection
  <2> DEFINE run == {}
             t == TaskOf("established", c)
             new == {<<n, t>>}
  <2>2. Ran(run) /\ About(run, c) /\ About(new, c)
    BY <1>1, RanNone, AboutOne
  <2>3. "established" \in Op /\ "established" # "close"
    BY DEF Op
  <2> HIDE DEF run
  <2>4. Moves(run, new)
    BY <2>1, <2>2, <2>3, PushMoves
  <2>5. \A l \in Loops, u \in Task : <<l, u>> \in new => ~Has(l, u)
    BY <1>2, <2>3 DEF Fresh, NoTask
  <2> HIDE DEF new, t
  <2>6. \A d \in Conn \ {c} : Same(d)
    BY <1>4, <2>1 DEF Same, TypeInv, TypeOK
  <2>7. (up[c] = 1 => InStage(c))'
    BY <1>2, <2>1 DEF Fresh
  <2>8. \A l \in Loops : c \notin batch'[l]
    BY <1>1, <1>2 DEF OrderInv, Fresh
  <2>9. fault' \subseteq {"null"}
    BY <1>1 DEF CloseInv
  <2>10. \E l \in Loops, op \in Op, d \in Conn :
            Push(l, op, d) /\ (op = "close" => mode[l] = "batch")
    BY <2>1, <2>3
  <2> QED
    BY <1>1, <2>2, <2>4, <2>5, <2>6, <2>7, <2>8, <2>9, <2>10, CloseInvMoves
<1> QED
  BY <1>5, <1>6

\* handleClose() on a connection that is open or about to be closed.
LEMMA CloseStage ==
    ASSUME TypeInv, OrderInv, CloseInv, NEW c \in Conn, CloseConnection(c),
           c \in connections, reg[c] = "ADD", down[c] = 0,
           NEW run, Ran(run), About(run, c), mode' = mode,
           \A k \in Loops, op \in Op : Has(k, TaskOf(op, c)) => <<k, TaskOf(op, c)>> \in run,
           \A k \in Loops, op \in {"remove", "destroyed"} : ~Has(k, TaskOf(op, c)),
           UNCHANGED <<fpc, fconn>>, fault' \subseteq {"null"},
           \A k \in Loops : batch'[k] \subseteq batch[k],
           \A k \in Loops : c \notin batch'[k]
    PROVE  CloseInv'
<1>1. /\ \A d \in Conn \ {c} : Same(d)
      /\ loopOf' = loopOf /\ Reported(c)' /\ reg'[c] = "DELETE"
  BY CloseSame DEF Reported, Disabled
<1>2. PICK b \in Loops, op \in {"remove", "destroyed"} :
         /\ Push(b, op, c)
         /\ op = "destroyed" => b = loopOf[c] /\ c \notin connections'
         /\ op = "remove" => b = Base /\ c \in connections'
  BY BaseLoop DEF CloseConnection, RemoveInLoop, TypeInv, TypeOK
<1> DEFINE new == {<<b, TaskOf(op, c)>>}
<1>3. About(new, c) /\ op \in Op /\ op # "close" /\ TaskOf(op, c) \in Task
  BY AboutOne, TaskType DEF Op
<1>4. Moves(run, new)
  BY <1>2, <1>3, PushMoves
<1>5. \A l \in Loops, t \in Task : <<l, t>> \in new => ~Has(l, t)
  OBVIOUS
<1>6. \A l \in Loops, p \in Op : <<l, TaskOf(p, c)>> \in new <=> l = b /\ p = op
  BY TaskOfEq
<1> HIDE DEF new
<1>7. OnlyTask(c, b, op)'
  <2> SUFFICES ASSUME NEW k \in Loops, NEW p \in Op, Has(k, TaskOf(p, c))'
               PROVE  k = b /\ p = op
    BY DEF OnlyTask
  <2>1. TaskOf(p, c) \in Task /\ Once(k, TaskOf(p, c))
    BY TaskType DEF CloseInv, OnceInv
  <2>2. <<k, TaskOf(p, c)>> \in new
    BY <1>4, <2>1 DEF Moves
  <2> QED
    BY <1>6, <2>2
<1>8. Has(b, TaskOf(op, c))'
  BY <1>3, <1>4, <1>6 DEF Moves
<1>9. InStage(c)'
  <2>1. CASE op = "remove"
    BY <1>1, <1>2, <1>7, <2>1 DEF InStage, Down, OnlyTask, Has, InFunctors, InQueue
  <2>2. CASE op = "destroyed"
    BY <1>1, <1>2, <1>7, <1>8, <2>2 DEF InStage, Removed, OnlyTask, Has, InFunctors, InQueue
  <2> QED
    BY <2>1, <2>2
<1>10. \E l \in Loops, p \in Op, d \in Conn :
          Push(l, p, d) /\ (p = "close" => mode[l] = "batch")
  BY <1>2, <1>3
<1>11. (up[c] = 1 => InStage(c))'
  BY <1>9
<1> QED
  BY <1>1, <1>3, <1>4, <1>5, <1>10, <1>11, CloseInvMoves

\* The steps of a batch: forceClose() is queued, or nothing is; the end of the
\* stream closes an open connection.
LEMMA CloseBatch ==
    ASSUME Calm, TypeInv, OrderInv, CloseInv, NEW l \in Loops, NEW c \in Conn,
           HandleMessage(l, c) \/ HandleEof(l, c)
    PROVE  CloseInv'
<1>1. /\ mode' = mode /\ functors' = functors /\ idx' = idx
      /\ UNCHANGED <<fpc, fconn, fault>>
      /\ \A k \in Loops : batch'[k] \subseteq batch[k]
      /\ c \in batch[l] /\ c \notin batch'[l] /\ mode[l] = "batch"
  BY HandledBatch DEF HandleMessage, HandleEof
<1>2. loopOf[c] = l /\ Open(c) /\ \A k \in Loops : c \notin batch'[k]
  BY <1>1 DEF CloseInv, BatchInv
<1>3. CASE HandleMessage(l, c)
  <2>1. PICK d \in Conn :
           /\ loopOf[d] = l /\ up[d] > 0 /\ down[d] = 0
           /\ \E r \in Calls(IF d = c THEN "message" ELSE "peer", d, cstate[d]) :
                 /\ cstate' = [cstate EXCEPT ![d] = r.state]
                 /\ queue' = [queue EXCEPT ![l] = @ \o r.tasks]
    BY <1>3 DEF HandleMessage
  <2>2. PICK r \in Calls(IF d = c THEN "message" ELSE "peer", d, cstate[d]) :
            /\ cstate' = [cstate EXCEPT ![d] = r.state]
            /\ queue' = [queue EXCEPT ![l] = @ \o r.tasks]
    BY <2>1
  <2>3. UNCHANGED <<reg, recving, loopOf, up, down, connections>>
    BY <1>3 DEF HandleMessage, serverVars
  <2>4. PICK s, v, ctx : /\ s = r.state /\ v = cstate[d]
                         /\ ctx = IF d = c THEN "message" ELSE "peer"
    OBVIOUS
  <2>5. \/ queue' = queue /\ (s = cstate[d] \/ (cstate[d] = "CONNECTED" /\ s = "DISCONNECTING"))
        \/ /\ Push(l, "close", d) /\ d = c
           /\ s = "DISCONNECTED"
    <3>1. TypeOK /\ "peer" \notin ForceFrom
      BY DEF TypeInv, Calm
    <3>2. r \in Calls(ctx, d, v) /\ queue' = [queue EXCEPT ![l] = @ \o r.tasks]
      BY <2>2, <2>4
    <3>3. \/ /\ queue' = queue
             /\ r.state = v \/ (v = "CONNECTED" /\ r.state = "DISCONNECTING")
          \/ /\ Push(l, "close", d)
             /\ ctx \in ForceFrom
             /\ r.state = "DISCONNECTED"
      BY <3>1, <3>2, CallsQueue
    <3> QED
      BY <2>4, <3>1, <3>3
  <2>6. CASE queue' = queue /\ (s = cstate[d] \/ (cstate[d] = "CONNECTED" /\ s = "DISCONNECTING"))
    BY <1>1, <2>1, <2>2, <2>3, <2>4, <2>6, QuietCall
  <2>7. CASE Push(l, "close", c) /\ d = c /\ s = "DISCONNECTED"
    <3> DEFINE run == {}
               t == TaskOf("close", c)
               new == {<<l, t>>}
    <3>1. Ran(run) /\ About(run, c) /\ About(new, c)
      BY <1>1, RanNone, AboutOne
    <3>2. "close" \in Op
      BY DEF Op
    <3>3. \A k \in Loops, p \in Op : <<k, TaskOf(p, c)>> \in new <=> k = l /\ p = "close"
      BY TaskOfEq
    <3>4. \A k \in Loops, u \in Task : <<k, u>> \in new => ~Has(k, u)
      BY <1>2, <3>2 DEF Open, NoTask
    <3> HIDE DEF run
    <3>5. Moves(run, new)
      BY <2>7, <3>1, <3>2, PushMoves
    <3> HIDE DEF new, t
    <3>6. \A e \in Conn \ {c} : Same(e)
      BY <2>2, <2>3, <2>7 DEF Same, TypeInv, TypeOK
    <3>7. cstate'[c] = "DISCONNECTED"
      BY <2>2, <2>4, <2>7 DEF TypeInv, TypeOK
    <3>8. Has(l, TaskOf("close", c))'
      BY <3>2, <3>3, <3>5, TaskType DEF Moves
    <3>9. OnlyTask(c, l, "close")'
      <4> SUFFICES ASSUME NEW k \in Loops, NEW p \in Op, Has(k, TaskOf(p, c))'
                   PROVE  k = l /\ p = "close"
        BY DEF OnlyTask
      <4>1. TaskOf(p, c) \in Task /\ ~Has(k, TaskOf(p, c))
        BY <1>2, TaskType DEF Open, NoTask
      <4> QED
        BY <3>3, <3>5, <4>1 DEF Moves
    <3>10. Closing(c)'
      <4>1. loopOf'[c] = l /\ mode'[l] # "poll"
        BY <1>1, <1>2, <2>3
      <4> QED
        BY <1>2, <2>3, <3>7, <3>8, <3>9, <4>1
           DEF Closing, Open, OnlyTask, Has, InFunctors, InQueue
    <3>11. (up[c] = 1 => InStage(c))'
      BY <3>10 DEF InStage
    <3>12. /\ fault' \subseteq {"null"}
           /\ \E k \in Loops, op \in Op, e \in Conn :
                 Push(k, op, e) /\ (op = "close" => mode[k] = "batch")
      BY <1>1, <2>7, <3>2 DEF CloseInv
    <3> QED
      BY <1>1, <1>2, <3>1, <3>4, <3>5, <3>6, <3>11, <3>12, CloseInvMoves
  <2> QED
    BY <2>5, <2>6, <2>7
<1>4. CASE HandleEof(l, c)
  <2> DEFINE run == {}
  <2>1. Ran(run) /\ About(run, c)
    BY <1>1, RanNone, AboutOne
  <2> HIDE DEF run
  <2>2. /\ c \in connections /\ reg[c] = "ADD" /\ down[c] = 0
        /\ \A k \in Loops, op \in Op : ~Has(k, TaskOf(op, c))
        /\ "remove" \in Op /\ "destroyed" \in Op
    BY <1>2 DEF Open, NoTask, Op
  <2>3. CloseConnection(c) /\ fault' \subseteq {"null"}
    BY <1>1, <1>4 DEF HandleEof, CloseInv
  <2> QED
    BY <1>1, <1>2, <2>1, <2>2, <2>3, CloseStage
<1> QED
  BY <1>3, <1>4

\* A functor that runs: what it moves, and that the others of a connection wait.
LEMMA RunningStep ==
    ASSUME TypeInv, NEW l \in Loops, NEW op \in Op, NEW c \in Conn, Running(l, op, c)
    PROVE  /\ mode' = mode /\ functors' = functors /\ batch' = batch
           /\ UNCHANGED <<fpc, fconn>>
           /\ Ran({<<l, TaskOf(op, c)>>}) /\ About({<<l, TaskOf(op, c)>>}, c)
           /\ InFunctors(l, TaskOf(op, c)) /\ Has(l, TaskOf(op, c))
           /\ op \in Owning => HeldBy(functors[l], c)
           /\ \A k \in Loops, p \in Op :
                 <<k, TaskOf(p, c)>> \in {<<l, TaskOf(op, c)>>} <=> k = l /\ p = op
<1>1. idx[l] \in 1 .. Len(functors[l]) /\ functors[l] \in Seq(Task)
  <2>1. /\ idx[l] \in Nat /\ idx[l] # 0 /\ Len(functors[l]) \in Nat
        /\ idx[l] <= Len(functors[l]) /\ functors[l] \in Seq(Task)
    BY LenProperties DEF Running, TypeInv, TypeOK, LoopInv
  <2> QED
    BY <2>1
<1>2. functors[l][idx[l]] = TaskOf(op, c) /\ idx[l] <= idx[l]
  BY <1>1 DEF Running, TaskOf
<1>3. InFunctors(l, TaskOf(op, c))
  BY <1>1, <1>2 DEF InFunctors
<1>4. op \in Owning => HeldBy(functors[l], c)
  <2>1. idx[l] \in DOMAIN functors[l]
    BY <1>1
  <2>2. functors[l][idx[l]].conn = c /\ functors[l][idx[l]].op = op
    BY <1>2 DEF TaskOf
  <2> QED
    BY <2>1, <2>2 DEF HeldBy
<1>5. \A k \in Loops, p \in Op :
         <<k, TaskOf(p, c)>> \in {<<l, TaskOf(op, c)>>} <=> k = l /\ p = op
  BY TaskOfEq
<1> QED
  BY <1>3, <1>4, <1>5, RanOne, AboutOne DEF Running, Has

\* connectEstablished() as a functor.
LEMMA CloseEstablished ==
    ASSUME Calm, TypeInv, OrderInv, CloseInv, NEW l \in Loops, NEW c \in Conn,
           RunEstablished(l, c)
    PROVE  CloseInv'
<1> DEFINE run == {<<l, TaskOf("established", c)>>}
<1>1. /\ mode' = mode /\ batch' = batch /\ UNCHANGED <<fpc, fconn, fault, loopOf, connections>>
      /\ Ran(run) /\ About(run, c) /\ Has(l, TaskOf("established", c))
      /\ \A k \in Loops, p \in Op : <<k, TaskOf(p, c)>> \in run <=> k = l /\ p = "established"
  BY RunningStep DEF RunEstablished, Op, serverVars
<1> HIDE DEF run
<1>2. Accepted(c)
  BY <1>1 DEF OrderInv, Fresh, Announced, NoTask, Op
<1>3. \A k \in Loops, p \in Op : Has(k, TaskOf(p, c)) => <<k, TaskOf(p, c)>> \in run
  <2>1. loopOf[c] = l
    BY <1>1, <1>2 DEF Accepted, OnlyTask, Op
  <2> QED
    BY <1>1, <1>2, <2>1 DEF Accepted, OnlyTask
<1>4. Establish(l, c)
  BY DEF RunEstablished
<1>5. \A d \in Conn \ {c} : Same(d)
  BY <1>1, <1>4, EstablishSame DEF Same
<1>6. up[c] = 0 /\ down[c] = 0 /\ c \in connections'
  BY <1>1, <1>2 DEF Accepted
<1> QED
  BY <1>1, <1>3, <1>4, <1>5, <1>6, EstablishStage

\* removeConnectionInLoop() as a functor.
LEMMA CloseRemove ==
    ASSUME TypeInv, OrderInv, CloseInv, NEW l \in Loops, NEW c \in Conn, RunRemove(l, c)
    PROVE  CloseInv'
<1> DEFINE run == {<<l, TaskOf("remove", c)>>}
<1>1. /\ mode' = mode /\ batch' = batch /\ UNCHANGED <<fpc, fconn, fault, connVars>>
      /\ Ran(run) /\ About(run, c) /\ Has(l, TaskOf("remove", c))
      /\ \A k \in Loops, p \in Op : <<k, TaskOf(p, c)>> \in run <=> k = l /\ p = "remove"
  BY RunningStep DEF RunRemove, Op
<1> HIDE DEF run
<1>2. l = Base /\ Down(c)
  BY <1>1, StageIf
<1>3. PICK b \in Loops : b = loopOf[c] /\ Push(b, "destroyed", c)
  BY DEF RunRemove, RemoveInLoop, TypeInv, TypeOK
<1> DEFINE new == {<<b, TaskOf("destroyed", c)>>}
<1>4. About(new, c) /\ "destroyed" \in Op /\ TaskOf("destroyed", c) \in Task
  BY AboutOne, TaskType DEF Op
<1>5. Moves(run, new)
  BY <1>1, <1>3, <1>4, PushMoves
<1>6. \A k \in Loops, t \in Task : <<k, t>> \in new => ~Has(k, t)
  BY <1>2, <1>4 DEF Down, OnlyTask
<1>7. \A k \in Loops, p \in Op : <<k, TaskOf(p, c)>> \in new <=> k = b /\ p = "destroyed"
  BY TaskOfEq
<1> HIDE DEF new
<1>8. OnlyTask(c, b, "destroyed")'
  <2> SUFFICES ASSUME NEW k \in Loops, NEW p \in Op, Has(k, TaskOf(p, c))'
               PROVE  k = b /\ p = "destroyed"
    BY DEF OnlyTask
  <2>1. TaskOf(p, c) \in Task /\ Once(k, TaskOf(p, c))
    BY TaskType DEF CloseInv, OnceInv
  <2>2. Has(k, TaskOf(p, c)) => <<k, TaskOf(p, c)>> \in run
    BY <1>1, <1>2 DEF Down, OnlyTask
  <2>3. <<k, TaskOf(p, c)>> \in new
    BY <1>5, <2>1, <2>2 DEF Moves
  <2> QED
    BY <1>7, <2>3
<1>9. Has(b, TaskOf("destroyed", c))'
  BY <1>4, <1>5, <1>7 DEF Moves
<1>10. connections' = connections \ {c}
  BY DEF RunRemove, RemoveInLoop
<1>11. Removed(c)'
  BY <1>1, <1>2, <1>3, <1>8, <1>9, <1>10
     DEF Removed, Down, Reported, connVars, OnlyTask, Has, InFunctors, InQueue
<1>12. /\ \A d \in Conn \ {c} : Same(d)
       /\ (up[c] = 1 => InStage(c))'
       /\ fault' \subseteq {"null"}
       /\ \A k \in Loops : c \notin batch'[k]
  BY <1>1, <1>2, <1>10, <1>11 DEF Same, connVars, InStage, CloseInv, BatchInv, Open, Down, Reported
<1>13. \E k \in Loops, op \in Op, d \in Conn :
          Push(k, op, d) /\ (op = "close" => mode[k] = "batch")
  BY <1>3, <1>4
<1>14. \A k \in Loops : batch'[k] \subseteq batch[k]
  BY <1>1
<1> QED
  BY <1>1, <1>4, <1>5, <1>6, <1>12, <1>13, <1>14, CloseInvMoves

\* connectDestroyed(): the connection is disabled and known to the loop, and the
\* functor holds it.
LEMMA CloseDestroyed ==
    ASSUME TypeInv, OrderInv, CloseInv, NEW l \in Loops, NEW c \in Conn, RunDestroyed(l, c)
    PROVE  CloseInv'
<1> DEFINE run == {<<l, TaskOf("destroyed", c)>>}
           new == {}
<1>1. /\ mode' = mode /\ batch' = batch
      /\ UNCHANGED <<fpc, fconn, up, loopOf, connections, queue>>
      /\ Ran(run) /\ About(run, c) /\ Has(l, TaskOf("destroyed", c))
      /\ HeldBy(functors[l], c)
      /\ \A k \in Loops, p \in Op : <<k, TaskOf(p, c)>> \in run <=> k = l /\ p = "destroyed"
  BY RunningStep DEF RunDestroyed, Op, Owning, serverVars
<1>2. About(new, c) /\ \A k \in Loops, t \in Task : <<k, t>> \notin new
  BY AboutOne
<1> HIDE DEF run
<1>3. Moves(run, new)
  BY <1>1, StillMoves
<1> HIDE DEF new
<1>4. l = loopOf[c] /\ Removed(c)
  BY <1>1, StageIf
<1>5. fault' \subseteq {"null"}
  <2>1. Alive(c)
    BY <1>1 DEF Alive
  <2>2. Dangling(c) = {}
    BY <2>1 DEF Dangling
  <2>3. ~recving[c] /\ reg[c] # "NEW"
    BY <1>4 DEF Removed, Reported
  <2> QED
    BY <2>2, <2>3 DEF RunDestroyed, CloseInv
<1>6. cstate[c] = "DISCONNECTED" /\ cstate' = cstate /\ down' = down
  <2>1. cstate[c] = "DISCONNECTED"
    BY <1>4 DEF Removed, Reported
  <2> QED
    BY <2>1 DEF RunDestroyed, TypeInv, TypeOK
<1>7. /\ reg'[c] = "NEW" /\ ~recving'[c]
      /\ \A d \in Conn \ {c} : reg'[d] = reg[d] /\ recving'[d] = recving[d]
  BY DEF RunDestroyed, TypeInv, TypeOK
<1>8. NoTask(c)'
  <2> SUFFICES ASSUME NEW k \in Loops, NEW p \in Op PROVE ~Has(k, TaskOf(p, c))'
    BY DEF NoTask
  <2>1. TaskOf(p, c) \in Task /\ Once(k, TaskOf(p, c))
    BY TaskType DEF CloseInv, OnceInv
  <2>2. Has(k, TaskOf(p, c)) => <<k, TaskOf(p, c)>> \in run
    BY <1>1, <1>4 DEF Removed, OnlyTask
  <2> QED
    BY <1>2, <1>3, <2>1, <2>2 DEF Moves
<1>9. Gone(c)'
  BY <1>1, <1>4, <1>6, <1>7, <1>8 DEF Gone, Removed, Reported
<1>10. /\ \A d \in Conn \ {c} : Same(d)
       /\ (up[c] = 1 => InStage(c))'
       /\ \A k \in Loops : c \notin batch'[k]
  BY <1>1, <1>4, <1>6, <1>7, <1>9 DEF Same, InStage, CloseInv, BatchInv, Open, Removed, Reported
<1>11. \A k \in Loops : batch'[k] \subseteq batch[k]
  BY <1>1
<1> QED
  BY <1>1, <1>2, <1>3, <1>5, <1>10, <1>11, CloseInvMoves

\* handleClose() as the functor of forceClose(): the server still holds the
\* connection.
LEMMA CloseForced ==
    ASSUME TypeInv, OrderInv, CloseInv, NEW l \in Loops, NEW c \in Conn, RunClose(l, c)
    PROVE  CloseInv'
<1> DEFINE run == {<<l, TaskOf("close", c)>>}
<1>1. /\ mode' = mode /\ batch' = batch /\ UNCHANGED <<fpc, fconn>>
      /\ Ran(run) /\ About(run, c) /\ Has(l, TaskOf("close", c))
      /\ \A k \in Loops, p \in Op : <<k, TaskOf(p, c)>> \in run <=> k = l /\ p = "close"
  BY RunningStep DEF RunClose, Op
<1> HIDE DEF run
<1>2. l = loopOf[c] /\ Closing(c)
  BY <1>1, StageIf
<1>3. /\ c \in connections /\ reg[c] = "ADD" /\ down[c] = 0
      /\ \A k \in Loops, p \in Op : Has(k, TaskOf(p, c)) => k = l /\ p = "close"
  BY <1>2 DEF Closing, OnlyTask
<1>4. \A k \in Loops, p \in Op : Has(k, TaskOf(p, c)) => <<k, TaskOf(p, c)>> \in run
  BY <1>1, <1>3
<1>5. \A k \in Loops, p \in {"remove", "destroyed"} : ~Has(k, TaskOf(p, c))
  BY <1>3 DEF Op
<1>6. CloseConnection(c) /\ fault' \subseteq {"null"}
  BY <1>3 DEF RunClose, CloseInv, Dangling, Alive
<1>7. \A k \in Loops : batch'[k] \subseteq batch[k] /\ c \notin batch'[k]
  BY <1>1, <1>2 DEF CloseInv, BatchInv, Open, Closing
<1> QED
  BY <1>1, <1>3, <1>4, <1>5, <1>6, <1>7, CloseStage

\* The user's functors, the foreign thread, and the server's end.
LEMMA CloseUser ==
    ASSUME Calm, TypeInv, OrderInv, CloseInv,
           \/ \E l \in Loops, c \in Conn : UserFunctor(l, c)
           \/ \E c \in Conn : ForeignReads(c)
           \/ ForeignStores \/ ForeignPushes \/ ServerDestroyed \/ UNCHANGED vars
    PROVE  CloseInv'
<1>1. ASSUME NEW l \in Loops, NEW c \in Conn, UserFunctor(l, c) PROVE CloseInv'
  <2>1. PICK r \in Calls("functor", c, cstate[c]) :
            /\ cstate' = [cstate EXCEPT ![c] = r.state]
            /\ queue' = [queue EXCEPT ![l] = @ \o r.tasks]
    BY <1>1 DEF UserFunctor
  <2>2. PICK s : s = r.state
    OBVIOUS
  <2>3. queue' = queue /\ (s = cstate[c] \/ (cstate[c] = "CONNECTED" /\ s = "DISCONNECTING"))
    <3>1. TypeOK /\ "functor" \notin ForceFrom
      BY DEF TypeInv, Calm
    <3> QED
      BY <2>1, <2>2, <3>1, CallsQueue
  <2>4. /\ up[c] > 0 /\ down[c] = 0
        /\ functors' = functors /\ idx' = idx /\ mode' = mode /\ batch' = batch
        /\ UNCHANGED <<reg, recving, loopOf, up, down, connections, fpc, fconn, fault>>
    BY <1>1 DEF UserFunctor, serverVars
  <2> QED
    BY <2>1, <2>2, <2>3, <2>4, QuietCall
<1>2. ASSUME NEW c \in Conn PROVE ~ForeignReads(c)
  BY DEF ForeignReads, Calm
<1>3. ~ForeignStores /\ ~ForeignPushes
  BY DEF ForeignStores, ForeignPushes, CloseInv, NoForeign
<1>4. ASSUME ServerDestroyed \/ UNCHANGED vars PROVE CloseInv'
  <2>1. /\ UNCHANGED <<connVars, connections, loopVars, fpc, fconn>>
        /\ fault' \subseteq {"null"}
    BY <1>4 DEF ServerDestroyed, vars, serverVars, CloseInv
  <2>2. \A c \in Conn : Same(c) /\ SameTasks(c) /\ Awake(c)
    BY <2>1 DEF Same, SameTasks, Awake, connVars, loopVars, Has, InFunctors, InQueue
  <2>3. OnceInv' /\ CloseQueueInv'
    BY <2>1 DEF CloseInv, OnceInv, CloseQueueInv, loopVars, Once, Has, InFunctors, InQueue,
                OnceInFunctors, OnceInQueue
  <2> DEFINE D == {}
  <2>4. /\ D \in SUBSET Conn
        /\ \A c \in Conn \ D : Same(c) /\ SameTasks(c) /\ Awake(c)
        /\ \A c \in D : (up[c] = 1 => InStage(c))'
        /\ \A k \in Loops, c \in Conn :
              c \in batch'[k] => c \in batch[k] /\ (c \in D => loopOf'[c] = k /\ Open(c)')
    BY <2>1, <2>2 DEF loopVars
  <2> HIDE DEF D
  <2> QED
    BY <2>1, <2>3, <2>4, CloseInvFrame
<1> QED
  BY <1>1, <1>2, <1>3, <1>4

LEMMA CloseInvStep ==
    ASSUME Calm, TypeInv, OrderInv, CloseInv, [Next]_vars
    PROVE  CloseInv'
<1>1. ASSUME NEW l \in Loops, NEW c \in Conn PROVE ~RunShutdown(l, c)
  <2> SUFFICES ASSUME RunShutdown(l, c) PROVE FALSE
    OBVIOUS
  <2>1. Has(l, TaskOf("shutdown", c))
    BY RunningStep DEF RunShutdown, Op
  <2> QED
    BY <2>1, StageIf
<1>2. ASSUME NEW l \in Loops, LoopStep(l) PROVE CloseInv'
  BY <1>1, <1>2, CloseLoops, CloseNew, CloseBatch, CloseEstablished, CloseRemove,
     CloseDestroyed, CloseForced DEF LoopStep
<1> QED
  BY <1>2, CloseUser DEF Next

LEMMA CloseInvariant ==
    ASSUME Calm
    PROVE  Spec => [](TypeInv /\ OrderInv /\ CloseInv)
<1>1. Init => CloseInv
  <2> SUFFICES ASSUME Init PROVE CloseInv
    OBVIOUS
  <2>1. \A l \in Loops : functors[l] = <<>> /\ queue[l] = <<>> /\ batch[l] = {}
    BY DEF Init
  <2>2. Len(<<>>) = 0 /\ 1 .. 0 = {}
    OBVIOUS
  <2>3. OnceInv /\ CloseQueueInv
    BY <2>1, <2>2 DEF OnceInv, CloseQueueInv, Once, InFunctors, InQueue, OnceInFunctors, OnceInQueue
  <2>4. BatchInv /\ NoForeign /\ fault \subseteq {"null"}
    BY <2>1 DEF BatchInv, NoForeign, Init
  <2>5. \A c \in Conn : up[c] # 1
    BY DEF Init
  <2> QED
    BY <2>3, <2>4, <2>5 DEF CloseInv
<1>2. TypeInv /\ OrderInv /\ CloseInv /\ [Next]_vars => CloseInv'
  BY CloseInvStep
<1> QED
  BY <1>1, <1>2, OrderInvariant, PTL DEF Spec

\* No part of the program holds a pointer to a connection that it outlives, and
\* a channel that a running loop knows is the channel of a live connection
\* (TCPServer.cc, removeConnectionInLoop()), as long as forceClose() is called
\* only from the connection's own message callback and no foreign thread calls
\* shutdown().
THEOREM NothingDangles ==
    ASSUME ForceFrom \subseteq {"message"}, "foreign" \notin ShutdownFrom
    PROVE  Spec => []ServerSafety
<1>1. TypeInv /\ OrderInv /\ CloseInv => ServerSafety
  <2> SUFFICES ASSUME TypeInv, OrderInv, CloseInv PROVE ServerSafety
    OBVIOUS
  <2>1. NoDangling
    BY DEF NoDangling, CloseInv
  <2>2. ASSUME NEW c \in Conn, reg[c] # "NEW", mode[loopOf[c]] # "over" PROVE Alive(c)
    <3>1. InStage(c) /\ ~Gone(c)
      BY <2>2, StageIf DEF Gone
    <3>2. CASE Removed(c)
      <4>1. PICK l \in Loops : l = loopOf[c] /\ Has(l, TaskOf("destroyed", c))
        BY <2>2, <3>2 DEF Removed, TypeInv, TypeOK
      <4>2. queue[l] \in Seq(Task) /\ functors[l] \in Seq(Task)
        BY DEF TypeInv, TypeOK
      <4>3. TaskOf("destroyed", c).conn = c /\ TaskOf("destroyed", c).op \in Owning
        BY DEF TaskOf, Owning
      <4>4. HeldBy(queue[l], c) \/ HeldBy(functors[l], c)
        BY <4>1, <4>2, <4>3 DEF Has, InFunctors, InQueue, HeldBy
      <4> QED
        BY <4>4 DEF Alive
    <3>3. CASE c \in connections
      BY <3>3 DEF Alive
    <3> QED
      BY <3>1, <3>2, <3>3 DEF InStage, Open, Closing, Down
  <2> QED
    BY <2>1, <2>2 DEF ServerSafety, RegisteredIsAlive, TypeInv
<1>2. Calm
  BY DEF Calm
<1> QED
  BY <1>1, <1>2, CloseInvariant, PTL

\* Under the same conditions connectDestroyed() never finds a channel that is
\* still enabled or that its loop does not know (the assertions of
\* Channel::remove() and EventLoop::removeChannel()).
THEOREM RemoveIsLegal ==
    ASSUME ForceFrom \subseteq {"message"}, "foreign" \notin ShutdownFrom
    PROVE  Spec => []AssertionsHold
<1>1. CloseInv => AssertionsHold
  BY DEF CloseInv, AssertionsHold
<1>2. Calm
  BY DEF Calm
<1> QED
  BY <1>1, <1>2, CloseInvariant, PTL

-------------------------------------------------------------------------------
(***************************************************************************)
(* The server implements ConnectionLifecycle, under the same conditions.   *)
(* Only the end of doTask() lets a reference to a connection go, and so    *)
(* only it destroys connections, several at a time.                        *)
(***************************************************************************)
Progress == [c \in Conn |-> Stage(c)]

ServerInv == TypeInv /\ OrderInv /\ CloseInv

LEMMA StageIs ==
    ASSUME ServerInv, ServerInv', NEW c \in Conn
    PROVE  /\ Stage(c) = IF cstate[c] = "none" THEN "none"
                         ELSE IF up[c] = 0 THEN "accepted"
                         ELSE IF down[c] = 0 THEN "up"
                         ELSE IF Alive(c) THEN "down" ELSE "gone"
           /\ Stage(c)' = IF cstate'[c] = "none" THEN "none"
                          ELSE IF up'[c] = 0 THEN "accepted"
                          ELSE IF down'[c] = 0 THEN "up"
                          ELSE IF Alive(c)' THEN "down" ELSE "gone"
<1>1. TypeInv /\ OrderInv /\ CloseInv /\ TypeInv' /\ OrderInv' /\ CloseInv'
  BY DEF ServerInv
<1>2. /\ up[c] = 0 \/ (up[c] = 1 /\ cstate[c] # "none")
      /\ up[c] = 0 => down[c] = 0
      /\ up[c] = 1 => down[c] \in {0, 1}
  BY <1>1 DEF OrderInv, Fresh, Accepted, Announced, CloseInv, InStage, Open, Closing, Down,
              Removed, Gone, Reported
<1>3. /\ up'[c] = 0 \/ (up'[c] = 1 /\ cstate'[c] # "none")
      /\ up'[c] = 0 => down'[c] = 0
      /\ up'[c] = 1 => down'[c] \in {0, 1}
  BY <1>1 DEF OrderInv, Fresh, Accepted, Announced, CloseInv, InStage, Open, Closing, Down,
              Removed, Gone, Reported
<1>4. Alive(c) \in BOOLEAN /\ Alive(c)' \in BOOLEAN
  BY DEF Alive
<1>5. Stage(c) = IF cstate[c] = "none" THEN "none"
                 ELSE IF up[c] = 0 THEN "accepted"
                 ELSE IF down[c] = 0 THEN "up"
                 ELSE IF Alive(c) THEN "down" ELSE "gone"
  BY <1>2, <1>4 DEF Stage
<1>6. Stage(c)' = IF cstate'[c] = "none" THEN "none"
                  ELSE IF up'[c] = 0 THEN "accepted"
                  ELSE IF down'[c] = 0 THEN "up"
                  ELSE IF Alive(c)' THEN "down" ELSE "gone"
  BY <1>3, <1>4 DEF Stage
<1> QED
  BY <1>5, <1>6

LEMMA StageSame ==
    ASSUME ServerInv, ServerInv', NEW c \in Conn,
           cstate'[c] = "none" <=> cstate[c] = "none", up'[c] = up[c], down'[c] = down[c],
           down[c] # 0 => (Alive(c)' <=> Alive(c))
    PROVE  Stage(c)' = Stage(c)
BY StageIs

LEMMA NoneMoves ==
    ASSUME \A c \in Conn : Stage(c)' = Stage(c)
    PROVE  [Lifecycle!Next]_Progress
BY DEF Progress

LEMMA OneMoves ==
    ASSUME NEW d \in Conn, \A c \in Conn \ {d} : Stage(c)' = Stage(c),
           \/ Stage(d) = "none" /\ Stage(d)' \in {"accepted", "up"}
           \/ Stage(d) = "accepted" /\ Stage(d)' = "up"
           \/ Stage(d) = "up" /\ Stage(d)' = "down"
    PROVE  [Lifecycle!Next]_Progress
<1>1. ASSUME NEW from, NEW to, Stage(d) = from, Stage(d)' = to
      PROVE  Lifecycle!Move(d, from, to)
  BY <1>1 DEF Lifecycle!Move
<1>2. \/ Lifecycle!Move(d, "none", "accepted") \/ Lifecycle!Move(d, "none", "up")
      \/ Lifecycle!Move(d, "accepted", "up") \/ Lifecycle!Move(d, "up", "down")
  BY <1>1
<1> QED
  BY <1>2 DEF Lifecycle!Next, Lifecycle!Accept, Lifecycle!Announce,
              Lifecycle!AcceptAndAnnounce, Lifecycle!Disconnect

\* What queueing a functor adds to the references.
LEMMA HeldAppend ==
    ASSUME NEW q \in Seq(Task), NEW t \in Task, NEW c \in Conn
    PROVE  HeldBy(Append(q, t), c) <=> HeldBy(q, c) \/ (t.conn = c /\ t.op \in Owning)
<1> DEFINE r == Append(q, t)
<1>1. /\ Len(q) \in Nat /\ Len(r) = Len(q) + 1 /\ DOMAIN q = 1 .. Len(q)
      /\ DOMAIN r = 1 .. Len(r) /\ r[Len(q) + 1] = t
      /\ \A i \in 1 .. Len(q) : r[i] = q[i]
  BY AppendProperties, LenProperties
<1> HIDE DEF r
<1>2. DOMAIN r = DOMAIN q \cup {Len(q) + 1}
  BY <1>1
<1>3. HeldBy(r, c) <=> HeldBy(q, c) \/ (t.conn = c /\ t.op \in Owning)
  BY <1>1, <1>2 DEF HeldBy
<1> QED
  BY <1>3 DEF r

\* A step that keeps the vectors and queues a functor of connection d at most.
LEMMA AliveKept ==
    ASSUME TypeInv, NEW d \in Conn, functors' = functors, fconn' = fconn,
           queue' = queue \/ \E l \in Loops, op \in Op : Push(l, op, d),
           \A c \in Conn \ {d} : c \in connections' <=> c \in connections
    PROVE  /\ \A c \in Conn \ {d} : Alive(c)' <=> Alive(c)
           /\ (\E l \in Loops : HeldBy(functors[l], d)) => Alive(d)'
           /\ (\E l \in Loops, op \in Owning : Push(l, op, d)) => Alive(d)'
<1>1. queue \in [Loops -> Seq(Task)]
  BY DEF TypeInv, TypeOK
<1>2. ASSUME NEW l \in Loops, NEW op \in Op, Push(l, op, d)
      PROVE  /\ \A k \in Loops, c \in Conn \ {d} : HeldBy(queue'[k], c) <=> HeldBy(queue[k], c)
             /\ op \in Owning => HeldBy(queue'[l], d)
  <2> DEFINE t == TaskOf(op, d)
  <2>1. t \in Task /\ t.conn = d /\ t.op = op
    BY TaskType DEF TaskOf
  <2>2. queue' = [queue EXCEPT ![l] = Append(queue[l], t)]
    BY <1>2 DEF Push, TaskOf
  <2> HIDE DEF t
  <2>3. queue'[l] = Append(queue[l], t) /\ \A k \in Loops \ {l} : queue'[k] = queue[k]
    BY <1>1, <2>2
  <2>4. \A c \in Conn : HeldBy(queue'[l], c) <=> HeldBy(queue[l], c) \/ (c = d /\ op \in Owning)
    <3> SUFFICES ASSUME NEW c \in Conn
                 PROVE  HeldBy(queue'[l], c) <=> HeldBy(queue[l], c) \/ (c = d /\ op \in Owning)
      OBVIOUS
    <3>1. PICK q \in Seq(Task) : q = queue[l] /\ queue'[l] = Append(q, t)
      BY <1>1, <2>3
    <3>2. HeldBy(Append(q, t), c) <=> HeldBy(q, c) \/ (t.conn = c /\ t.op \in Owning)
      BY <2>1, HeldAppend
    <3> QED
      BY <2>1, <3>1, <3>2
  <2> QED
    BY <2>3, <2>4
<1>3. \A k \in Loops, c \in Conn \ {d} : HeldBy(queue'[k], c) <=> HeldBy(queue[k], c)
  BY <1>2
<1>4. \A c \in Conn \ {d} : Alive(c)' <=> Alive(c)
  BY <1>3 DEF Alive, HeldBy
<1>5. (\E l \in Loops : HeldBy(functors[l], d)) => Alive(d)'
  BY DEF Alive, HeldBy
<1>6. ASSUME NEW l \in Loops, NEW op \in Owning, Push(l, op, d) PROVE Alive(d)'
  <2>1. HeldBy(queue'[l], d)
    BY <1>2, <1>6 DEF Op, Owning
  <2> QED
    BY <2>1 DEF Alive, HeldBy
<1> QED
  BY <1>4, <1>5, <1>6

LEMMA HeldByNone == \A c \in Conn : ~HeldBy(<<>>, c)
BY DEF HeldBy

\* Steps that report nothing and let no reference go.
LEMMA LifecycleQuiet ==
    ASSUME ServerInv, ServerInv', NEW l \in Loops,
           Poll(l) \/ BeginTasks(l) \/ AcceptFails \/ ServerDestroyed \/ UNCHANGED vars
    PROVE  [Lifecycle!Next]_Progress
<1>1. UNCHANGED <<connVars, connections, fconn>>
  BY DEF Poll, BeginTasks, AcceptFails, Handled, ServerDestroyed, vars, serverVars
<1>2. ASSUME NEW c \in Conn PROVE Alive(c)' <=> Alive(c)
  <2>1. CASE BeginTasks(l)
    <3>1. /\ functors[l] = <<>> /\ functors'[l] = queue[l] /\ queue'[l] = <<>>
          /\ \A k \in Loops \ {l} : functors'[k] = functors[k] /\ queue'[k] = queue[k]
      BY <2>1 DEF BeginTasks, ServerInv, TypeInv, TypeOK, LoopInv
    <3>2. \A k \in Loops : HeldBy(queue'[k], c) \/ HeldBy(functors'[k], c)
                              <=> HeldBy(queue[k], c) \/ HeldBy(functors[k], c)
      BY <3>1, HeldByNone
    <3> QED
      BY <1>1, <3>2 DEF Alive, HeldBy
  <2>2. CASE UNCHANGED <<queue, functors>>
    BY <1>1, <2>2 DEF Alive, HeldBy
  <2>3. BeginTasks(l) \/ UNCHANGED <<queue, functors>>
    BY DEF Poll, AcceptFails, Handled, ServerDestroyed, vars, loopVars
  <2> QED
    BY <2>1, <2>2, <2>3
<1>3. \A c \in Conn : Stage(c)' = Stage(c)
  BY <1>1, <1>2, StageSame DEF ServerInv, connVars
<1> QED
  BY <1>3, NoneMoves

\* The end of doTask() destroys the connections it held last.
LEMMA LifecycleEnd ==
    ASSUME ServerInv, ServerInv', NEW l \in Loops, EndTasks(l)
    PROVE  [Lifecycle!Next]_Progress
<1>1. UNCHANGED <<connVars, connections, fconn>>
  BY DEF EndTasks, serverVars
<1>2. \A k \in Loops : /\ functors'[k] = functors[k] \/ functors'[k] = <<>>
                       /\ queue'[k] = queue[k] \/ queue'[k] = <<>>
  <2>1. functors' = [functors EXCEPT ![l] = <<>>]
    BY DEF EndTasks
  <2>2. queue' = queue \/ queue' = [queue EXCEPT ![l] = <<>>]
    BY DEF EndTasks
  <2>3. functors \in [Loops -> Seq(Task)] /\ queue \in [Loops -> Seq(Task)]
    BY DEF ServerInv, TypeInv, TypeOK
  <2> QED
    BY <2>1, <2>2, <2>3
<1>3. ASSUME NEW c \in Conn PROVE Alive(c)' => Alive(c)
  <2>1. \A k \in Loops : HeldBy(queue'[k], c) \/ HeldBy(functors'[k], c)
                            => HeldBy(queue[k], c) \/ HeldBy(functors[k], c)
    BY <1>2, HeldByNone
  <2> QED
    BY <1>1, <2>1 DEF Alive, HeldBy
<1>4. \A c \in Conn : \/ Stage(c)' = Stage(c)
                      \/ Stage(c) = "down" /\ Stage(c)' = "gone"
  BY <1>1, <1>3, StageIs DEF ServerInv, connVars
<1> DEFINE s == {c \in Conn : Stage(c) = "down" /\ Stage(c)' = "gone"}
<1>5. CASE s = {}
  BY <1>4, <1>5, NoneMoves
<1>6. CASE s # {}
  <2>1. Progress' = [c \in Conn |-> IF c \in s THEN "gone" ELSE Progress[c]]
    BY <1>4 DEF Progress
  <2>2. s \in SUBSET Conn /\ \A c \in s : Progress[c] = "down"
    BY DEF Progress
  <2> HIDE DEF s
  <2>3. Lifecycle!Destroy(s)
    BY <1>6, <2>1, <2>2 DEF Lifecycle!Destroy, Progress
  <2> QED
    BY <2>2, <2>3 DEF Lifecycle!Next
<1> QED
  BY <1>5, <1>6

\* The user's calls say nothing to the user.
LEMMA LifecycleCalls ==
    ASSUME ServerInv, ServerInv', NEW d \in Conn, up[d] > 0, down[d] = 0,
           functors' = functors, fconn' = fconn, UNCHANGED <<up, down, connections>>,
           NEW ctx, NEW l \in Loops, NEW r \in Calls(ctx, d, cstate[d]),
           cstate' = [cstate EXCEPT ![d] = r.state],
           queue' = [queue EXCEPT ![l] = @ \o r.tasks]
    PROVE  [Lifecycle!Next]_Progress
<1>1. TypeOK /\ TypeInv /\ TypeInv' /\ OrderInv /\ OrderInv'
  BY DEF ServerInv, TypeInv
<1>2. queue' = queue \/ \E k \in Loops, op \in Op : Push(k, op, d)
  <2>1. queue' = queue \/ Push(l, "close", d)
    BY <1>1, CallsQueue
  <2> QED
    BY <2>1 DEF Op
<1>3. \A c \in Conn \ {d} : Alive(c)' <=> Alive(c)
  BY <1>1, <1>2, AliveKept
<1>4. \A c \in Conn \ {d} : cstate'[c] = cstate[c]
  BY <1>1 DEF TypeOK
<1>5. \A c \in Conn \ {d} : Stage(c)' = Stage(c)
  BY <1>1, <1>3, <1>4, StageSame
<1>6. cstate[d] # "none" /\ cstate'[d] # "none"
  BY <1>1 DEF OrderInv, Fresh, Accepted, Announced
<1>7. Stage(d)' = Stage(d)
  BY <1>1, <1>6, StageSame
<1> QED
  BY <1>5, <1>7, NoneMoves

\* A connection is accepted, and announced at once on the base loop.
LEMMA LifecycleNew ==
    ASSUME ServerInv, ServerInv', NEW c \in Conn, NewConnection(c)
    PROVE  [Lifecycle!Next]_Progress
<1>1. TypeOK /\ TypeInv /\ TypeInv' /\ OrderInv /\ OrderInv'
  BY DEF ServerInv, TypeInv
<1>2. functors' = functors /\ fconn' = fconn
  BY DEF NewConnection, Handled
<1>3. PICK n \in Loops : n = NextLoop
  BY <1>1, NextLoopType
<1>4. Fresh(c)
  BY <1>1 DEF NewConnection, OrderInv, Accepted, Announced
<1>5. \A d \in Conn \ {c} : d \in connections' <=> d \in connections
  BY DEF NewConnection
<1>6. /\ queue' = queue \/ \E l \in Loops, op \in Op : Push(l, op, c)
      /\ \A d \in Conn \ {c} : cstate'[d] = cstate[d] /\ up'[d] = up[d] /\ down'[d] = down[d]
      /\ cstate'[c] # "none" /\ down'[c] = 0
  <2>1. CASE n = Base
    <3>1. Establish(Base, c)
      BY <1>3, <2>1 DEF NewConnection
    <3>2. PICK r \in Calls("connection", c, "CONNECTED") :
              queue' = [queue EXCEPT ![Base] = @ \o r.tasks]
      BY <3>1 DEF Establish
    <3>3. queue' = queue \/ Push(Base, "close", c)
      BY <1>1, <3>2, CallsQueue, BaseLoop
    <3>4. /\ \A d \in Conn \ {c} : cstate'[d] = cstate[d] /\ up'[d] = up[d] /\ down'[d] = down[d]
          /\ cstate'[c] # "none" /\ down'[c] = down[c]
      BY <1>1, <3>1, EstablishSame, BaseLoop
    <3> QED
      BY <1>4, <3>3, <3>4, BaseLoop DEF Fresh, Op
  <2>2. CASE n # Base
    <3>1. /\ cstate' = [cstate EXCEPT ![c] = "CONNECTING"]
          /\ Push(n, "established", c)
          /\ UNCHANGED <<up, down>>
      BY <1>3, <2>2 DEF NewConnection
    <3> QED
      BY <1>1, <1>4, <3>1 DEF Fresh, TypeOK, Op
  <2> QED
    BY <2>1, <2>2
<1>7. \A d \in Conn \ {c} : Alive(d)' <=> Alive(d)
  BY <1>1, <1>2, <1>5, <1>6, AliveKept
<1>8. \A d \in Conn \ {c} : Stage(d)' = Stage(d)
  BY <1>1, <1>6, <1>7, StageSame
<1>9. Stage(c) = "none" /\ Stage(c)' \in {"accepted", "up"}
  BY <1>1, <1>4, <1>6, StageIs DEF Fresh
<1> QED
  BY <1>8, <1>9, OneMoves

\* A connection is announced by its functor.
LEMMA LifecycleAnnounce ==
    ASSUME ServerInv, ServerInv', NEW l \in Loops, NEW c \in Conn, RunEstablished(l, c)
    PROVE  [Lifecycle!Next]_Progress
<1>1. TypeOK /\ TypeInv /\ TypeInv' /\ OrderInv /\ OrderInv'
  BY DEF ServerInv, TypeInv
<1>2. /\ functors' = functors /\ fconn' = fconn
      /\ Has(l, TaskOf("established", c))
  BY <1>1, RunningStep DEF RunEstablished, Op
<1>3. Accepted(c)
  BY <1>1, <1>2 DEF OrderInv, Fresh, Announced, NoTask, Op
<1>4. Establish(l, c) /\ connections' = connections
  BY DEF RunEstablished, serverVars
<1>5. queue' = queue \/ \E k \in Loops, op \in Op : Push(k, op, c)
  <2>1. PICK r \in Calls("connection", c, "CONNECTED") :
            queue' = [queue EXCEPT ![l] = @ \o r.tasks]
    BY <1>4 DEF Establish
  <2>2. queue' = queue \/ Push(l, "close", c)
    BY <1>1, <2>1, CallsQueue
  <2> QED
    BY <2>2 DEF Op
<1>6. /\ \A d \in Conn \ {c} : cstate'[d] = cstate[d] /\ up'[d] = up[d] /\ down'[d] = down[d]
      /\ cstate'[c] # "none" /\ up'[c] = up[c] + 1 /\ down'[c] = down[c]
  BY <1>1, <1>4, EstablishSame
<1>7. \A d \in Conn \ {c} : Alive(d)' <=> Alive(d)
  BY <1>1, <1>2, <1>4, <1>5, AliveKept
<1>8. \A d \in Conn \ {c} : Stage(d)' = Stage(d)
  BY <1>1, <1>6, <1>7, StageSame
<1>9. Stage(c) = "accepted" /\ Stage(c)' = "up"
  BY <1>1, <1>3, <1>6, StageIs DEF Accepted
<1> QED
  BY <1>8, <1>9, OneMoves

\* handleClose() reports the disconnection, and its functor keeps the connection.
LEMMA LifecycleClose ==
    ASSUME ServerInv, ServerInv', NEW c \in Conn, CloseConnection(c), up[c] = 1, down[c] = 0,
           functors' = functors, fconn' = fconn
    PROVE  [Lifecycle!Next]_Progress
<1>1. TypeInv /\ TypeInv' /\ OrderInv /\ OrderInv'
  BY DEF ServerInv
<1>2. \E l \in Loops, op \in Owning : Push(l, op, c)
  BY BaseLoop DEF CloseConnection, RemoveInLoop, Owning, ServerInv, TypeInv, TypeOK
<1>3. \E l \in Loops, op \in Op : Push(l, op, c)
  BY <1>2 DEF Owning, Op
<1>4. \A d \in Conn \ {c} : d \in connections' <=> d \in connections
  BY DEF CloseConnection, RemoveInLoop
<1>5. Alive(c)' /\ \A d \in Conn \ {c} : Alive(d)' <=> Alive(d)
  BY <1>1, <1>2, <1>3, <1>4, AliveKept
<1>6. /\ \A d \in Conn \ {c} : Same(d)
      /\ up' = up /\ cstate'[c] # "none" /\ down'[c] = 1
  BY <1>1, CloseSame
<1>7. \A d \in Conn \ {c} : Stage(d)' = Stage(d)
  BY <1>1, <1>5, <1>6, StageSame DEF Same
<1>8. Stage(c) = "up" /\ Stage(c)' = "down"
  <2>1. cstate[c] # "none"
    BY <1>1 DEF OrderInv, Fresh, Accepted, Announced
  <2> QED
    BY <1>1, <1>5, <1>6, <2>1, StageIs
<1> QED
  BY <1>7, <1>8, OneMoves

\* The other functors find a connection that was reported, and hold it.
LEMMA LifecycleRun ==
    ASSUME ServerInv, ServerInv', NEW l \in Loops, NEW c \in Conn,
           RunRemove(l, c) \/ RunDestroyed(l, c)
    PROVE  [Lifecycle!Next]_Progress
<1>1. TypeInv /\ TypeInv' /\ OrderInv /\ OrderInv'
  BY DEF ServerInv
<1>2. /\ functors' = functors /\ fconn' = fconn
      /\ HeldBy(functors[l], c)
      /\ Has(l, TaskOf("remove", c)) \/ Has(l, TaskOf("destroyed", c))
  BY <1>1, RunningStep DEF RunRemove, RunDestroyed, Op, Owning
<1>3. Reported(c)
  BY <1>2, StageIf DEF ServerInv, Down, Removed
<1>4. queue' = queue \/ \E k \in Loops, op \in Op : Push(k, op, c)
  BY DEF RunRemove, RemoveInLoop, RunDestroyed, ServerInv, TypeInv, TypeOK, Op
<1>5. /\ up' = up /\ \A d \in Conn \ {c} : d \in connections' <=> d \in connections
      /\ cstate' = cstate /\ down' = down
  <2>1. cstate[c] # "CONNECTED"
    BY <1>3 DEF Reported
  <2>2. CASE RunRemove(l, c)
    BY <2>2 DEF RunRemove, RemoveInLoop, connVars
  <2>3. CASE RunDestroyed(l, c)
    BY <2>1, <2>3 DEF RunDestroyed, serverVars, ServerInv, TypeInv, TypeOK
  <2> QED
    BY <2>2, <2>3
<1>6. Alive(c) /\ Alive(c)' /\ \A d \in Conn \ {c} : Alive(d)' <=> Alive(d)
  <2>1. Alive(c)
    BY <1>2 DEF Alive
  <2> QED
    BY <1>1, <1>2, <1>4, <1>5, <2>1, AliveKept
<1>7. \A d \in Conn : Stage(d)' = Stage(d)
  BY <1>1, <1>5, <1>6, StageSame
<1> QED
  BY <1>7, NoneMoves

LEMMA LifecycleStep ==
    ASSUME Calm, ServerInv, ServerInv', [Next]_vars
    PROVE  [Lifecycle!Next]_Progress
<1>1. ASSUME NEW l \in Loops, NEW c \in Conn, HandleMessage(l, c)
      PROVE  [Lifecycle!Next]_Progress
  <2>1. PICK d \in Conn :
           /\ up[d] > 0 /\ down[d] = 0
           /\ \E r \in Calls(IF d = c THEN "message" ELSE "peer", d, cstate[d]) :
                 /\ cstate' = [cstate EXCEPT ![d] = r.state]
                 /\ queue' = [queue EXCEPT ![l] = @ \o r.tasks]
    BY <1>1 DEF HandleMessage
  <2>2. PICK r \in Calls(IF d = c THEN "message" ELSE "peer", d, cstate[d]) :
            /\ cstate' = [cstate EXCEPT ![d] = r.state]
            /\ queue' = [queue EXCEPT ![l] = @ \o r.tasks]
    BY <2>1
  <2>3. functors' = functors /\ fconn' = fconn /\ UNCHANGED <<up, down, connections>>
    BY <1>1 DEF HandleMessage, Handled, serverVars
  <2> QED
    BY <2>1, <2>2, <2>3, LifecycleCalls
<1>2. ASSUME NEW l \in Loops, NEW c \in Conn, HandleEof(l, c) \/ RunClose(l, c)
      PROVE  [Lifecycle!Next]_Progress
  <2>1. /\ functors' = functors /\ fconn' = fconn
        /\ CloseConnection(c)
    BY <1>2 DEF HandleEof, Handled, RunClose, Running
  <2>2. up[c] = 1 /\ down[c] = 0
    <3>1. CASE HandleEof(l, c)
      BY <3>1 DEF HandleEof, Handled, ServerInv, OrderInv, CloseInv, BatchInv, Open
    <3>2. CASE RunClose(l, c)
      <4>1. Has(l, TaskOf("close", c))
        BY <3>2, RunningStep DEF RunClose, Op, ServerInv
      <4>2. Closing(c)
        BY <4>1, StageIf DEF ServerInv
      <4> QED
        BY <4>2, AnnouncedIf DEF Closing, Announced, ServerInv
    <3> QED
      BY <1>2, <3>1, <3>2
  <2> QED
    BY <2>1, <2>2, LifecycleClose
<1>3. ASSUME NEW l \in Loops, NEW c \in Conn, UserFunctor(l, c)
      PROVE  [Lifecycle!Next]_Progress
  <2>1. PICK r \in Calls("functor", c, cstate[c]) :
            /\ cstate' = [cstate EXCEPT ![c] = r.state]
            /\ queue' = [queue EXCEPT ![l] = @ \o r.tasks]
    BY <1>3 DEF UserFunctor
  <2>2. /\ up[c] > 0 /\ down[c] = 0
        /\ functors' = functors /\ fconn' = fconn /\ UNCHANGED <<up, down, connections>>
    BY <1>3 DEF UserFunctor, serverVars
  <2> QED
    BY <2>1, <2>2, LifecycleCalls
<1>4. ASSUME NEW l \in Loops, NEW c \in Conn PROVE ~RunShutdown(l, c)
  <2> SUFFICES ASSUME RunShutdown(l, c) PROVE FALSE
    OBVIOUS
  <2>1. Has(l, TaskOf("shutdown", c))
    BY RunningStep DEF RunShutdown, Op, ServerInv
  <2> QED
    BY <2>1, StageIf DEF ServerInv
<1>5. ~(\E c \in Conn : ForeignReads(c)) /\ ~ForeignStores /\ ~ForeignPushes
  BY DEF ForeignReads, ForeignStores, ForeignPushes, Calm, ServerInv, CloseInv, NoForeign
<1>6. ASSUME NEW l \in Loops, LoopStep(l) PROVE [Lifecycle!Next]_Progress
  BY <1>1, <1>2, <1>4, <1>6, LifecycleQuiet, LifecycleEnd, LifecycleNew, LifecycleAnnounce,
     LifecycleRun DEF LoopStep
<1>7. CASE ServerDestroyed \/ UNCHANGED vars
  BY <1>7, LifecycleQuiet, BaseLoop
<1> QED
  BY <1>3, <1>5, <1>6, <1>7 DEF Next

\* Each accepted connection is announced once, is reported as disconnected at most
\* once and after that, and is destroyed after both: the safety part of
\* ImplementsLifecycle, under the conditions of NothingDangles.
THEOREM FollowsLifecycle ==
    ASSUME ForceFrom \subseteq {"message"}, "foreign" \notin ShutdownFrom
    PROVE  Spec => Lifecycle!Init /\ [][Lifecycle!Next]_Progress
<1>1. Calm
  BY DEF Calm
<1>2. Spec => []ServerInv
  BY <1>1, CloseInvariant DEF ServerInv
<1>3. Init => Lifecycle!Init
  <2> SUFFICES ASSUME Init PROVE Lifecycle!Init
    OBVIOUS
  <2>1. \A c \in Conn : cstate[c] = "none" /\ up[c] = 0 /\ down[c] = 0
    BY DEF Init
  <2>2. \A c \in Conn : Stage(c) = "none"
    BY <2>1 DEF Stage
  <2> QED
    BY <2>2 DEF Lifecycle!Init
<1>4. ServerInv /\ ServerInv' /\ [Next]_vars => [Lifecycle!Next]_Progress
  BY <1>1, LifecycleStep
<1> QED
  BY <1>2, <1>3, <1>4, PTL DEF Spec
===============================================================================
