--------------------------- MODULE TCPClientProofs ---------------------------
(***************************************************************************)
(* Proofs about TCPClient and its Connector, for a client that is told to  *)
(* connect at most once and to stop at most once, on its loop or from      *)
(* another thread, and that is destroyed where none of its functors can    *)
(* misfire.  A second connect() or stop() may come at a moment that the    *)
(* Connector does not expect (README.md).                                  *)
(*                                                                         *)
(* First what a push, a pop and the swap of the queue do to the functors   *)
(* in it, then the invariant and its steps.                                *)
(***************************************************************************)
EXTENDS TCPClient, FiniteSetTheorems, SequenceTheorems, TLAPS

-------------------------------------------------------------------------------
(* Functors in a queue.                                                     *)

In(f, s) == \E i \in DOMAIN s : s[i] = f
InQueue(f) == In(f, tasks) \/ In(f, batch)
OnceIn(f, s) == \A i, j \in DOMAIN s : s[i] = f /\ s[j] = f => i = j

LEMMA EmptyIn ==
  ASSUME NEW f
  PROVE  ~In(f, <<>>) /\ OnceIn(f, <<>>)
BY DEF In, OnceIn

LEMMA AppendIn ==
  ASSUME NEW s \in Seq(Functor), NEW g \in Functor, NEW f
  PROVE  /\ In(f, Append(s, g)) <=> In(f, s) \/ f = g
         /\ OnceIn(f, s) /\ (f # g \/ ~In(f, s)) => OnceIn(f, Append(s, g))
<1> DEFINE n == Len(s)
           t == Append(s, g)
<1>1. /\ n \in Nat /\ DOMAIN s = 1 .. n /\ DOMAIN t = 1 .. n + 1
      /\ t[n + 1] = g /\ \A i \in 1 .. n : t[i] = s[i]
  OBVIOUS
<1>2. \A i \in 1 .. n + 1 : i \in 1 .. n \/ i = n + 1
  BY <1>1
<1>3. n + 1 \in 1 .. n + 1 /\ \A i \in 1 .. n : i \in 1 .. n + 1
  BY <1>1
<1> HIDE DEF t, n
<1>4. In(f, t) <=> In(f, s) \/ f = g
  BY <1>1, <1>2, <1>3 DEF In
<1>5. ASSUME OnceIn(f, s), f # g \/ ~In(f, s)
      PROVE  OnceIn(f, t)
  <2>1. ASSUME NEW i \in 1 .. n + 1, NEW j \in 1 .. n + 1, t[i] = f, t[j] = f
        PROVE  i = j
    <3>1. CASE i \in 1 .. n /\ j \in 1 .. n
      BY <1>1, <1>5, <2>1, <3>1 DEF OnceIn
    <3>2. CASE ~(i \in 1 .. n /\ j \in 1 .. n)
      BY <1>1, <1>2, <1>5, <2>1, <3>2 DEF In
    <3> QED  BY <3>1, <3>2
  <2> QED  BY <1>1, <2>1 DEF OnceIn
<1> QED
  BY <1>4, <1>5 DEF t

LEMMA TailIn ==
  ASSUME NEW s \in Seq(Functor), s # <<>>, NEW f
  PROVE  /\ Head(s) \in Functor /\ Tail(s) \in Seq(Functor)
         /\ In(f, s) <=> Head(s) = f \/ In(f, Tail(s))
         /\ OnceIn(f, s) => OnceIn(f, Tail(s)) /\ (Head(s) = f => ~In(f, Tail(s)))
<1> DEFINE n == Len(s)
           t == Tail(s)
<1>1. /\ n \in Nat \ {0} /\ DOMAIN s = 1 .. n /\ Head(s) = s[1] /\ s[1] \in Functor
      /\ t \in Seq(Functor) /\ DOMAIN t = 1 .. n - 1
      /\ \A i \in 1 .. n - 1 : t[i] = s[i + 1]
  OBVIOUS
<1>2. /\ \A i \in 1 .. n - 1 : i + 1 \in 1 .. n /\ i + 1 # 1
      /\ \A i \in 1 .. n : i = 1 \/ (i - 1 \in 1 .. n - 1 /\ (i - 1) + 1 = i)
      /\ 1 \in 1 .. n
  BY <1>1
<1> HIDE DEF n, t
<1>3. In(f, s) <=> Head(s) = f \/ In(f, t)
  <2>1. ASSUME NEW i \in 1 .. n, s[i] = f
        PROVE  s[1] = f \/ In(f, t)
    <3>1. CASE i = 1
      BY <2>1, <3>1
    <3>2. CASE i # 1
      <4>1. i - 1 \in 1 .. n - 1 /\ t[i - 1] = f
        BY <1>1, <1>2, <2>1, <3>2
      <4> QED  BY <1>1, <4>1 DEF In
    <3> QED  BY <3>1, <3>2
  <2>2. ASSUME NEW i \in 1 .. n - 1, t[i] = f
        PROVE  In(f, s)
    BY <1>1, <1>2, <2>2 DEF In
  <2>3. s[1] = f => In(f, s)
    BY <1>1, <1>2 DEF In
  <2> QED  BY <1>1, <2>1, <2>2, <2>3 DEF In
<1>4. ASSUME OnceIn(f, s)
      PROVE  OnceIn(f, t) /\ (Head(s) = f => ~In(f, t))
  <2>1. ASSUME NEW i \in 1 .. n - 1, NEW j \in 1 .. n - 1, t[i] = f, t[j] = f
        PROVE  i = j
    <3>1. i + 1 = j + 1
      BY <1>1, <1>2, <1>4, <2>1 DEF OnceIn
    <3> QED  BY <3>1
  <2>2. ASSUME NEW i \in 1 .. n - 1, t[i] = f, s[1] = f
        PROVE  FALSE
    BY <1>1, <1>2, <1>4, <2>2 DEF OnceIn
  <2> QED  BY <1>1, <2>1, <2>2 DEF OnceIn, In
<1> QED
  BY <1>1, <1>3, <1>4 DEF t

-------------------------------------------------------------------------------
(* The invariant.                                                           *)

\* No attempt was made and nothing of one is left.
Idle ==
    /\ state = "DISCONNECTED" /\ channel = "null" /\ timers = 0 /\ connection = "null"
    /\ ~InQueue("reset")

\* A start() that has not reached the loop.
StartComes == caller = "start" \/ InQueue("start")

\* A stop() that has not.
StopComes == caller = "stop" \/ InQueue("stop")

\* There is one start(), in one place, and before it nothing happens.
StartInv ==
    /\ starts = 0 => ~StartComes
    /\ starts = 0 \/ StartComes => Idle
    /\ caller = "start" => ~InQueue("start")
    /\ In("start", batch) => ~In("start", tasks)
    /\ OnceIn("start", tasks) /\ OnceIn("start", batch)

\* stopInLoop() comes from the one stop() or from the destructor.
StopInv ==
    /\ StopComes => stops = 1 \/ ~alive
    /\ InQueue("stop") => caller # "stop"
    /\ In("stop", batch) => ~In("stop", tasks)

\* A timer, an attempt and a connection exclude one another.
OneInv ==
    /\ timers <= 1
    /\ channel = "watched" => state = "CONNECTING" /\ ~InQueue("reset")
    /\ timers > 0 => state = "DISCONNECTED" /\ connection = "null"
    /\ state = "CONNECTING" => timers = 0 /\ connection = "null"
    /\ connection # "null" => state = "CONNECTED"
    /\ channel = "removed" => InQueue("reset")
    /\ fault = "none"

\* One event is ready at a time, and its source is still what it was.
LoopInv ==
    /\ phase # "tasks" => batch = <<>>
    /\ phase # "events" => ready = {}
    /\ "connector" \in ready => channel = "watched" /\ alive /\ ready = {"connector"}
    /\ "timer" \in ready => timers = 1 /\ ~InQueue("reset") /\ ready = {"timer"}
    /\ "connection" \in ready => /\ connection # "null" /\ ~InQueue("reset")
                                 /\ ready = {"connection"}
    /\ connection # "null" /\ phase \in {"tasks", "poll"} => ~In("reset", tasks)

\* Refused but not told to go on.
WriteInv == state = "CONNECTING" /\ phase = "write" =>
    channel = "removed" /\ ~connect /\ alive

\* Stopped in the middle of an attempt; it meets no other stopInLoop() without a channel.
HalfInv == state = "CONNECTING" /\ channel # "watched" /\ phase # "write" =>
    /\ ~connect /\ (stops = 1 \/ ~alive) /\ caller # "stop" /\ ~In("stop", tasks)
    /\ In("stop", batch) => channel = "removed" /\ ~In("reset", batch)

\* What the death of the client leaves: a stopInLoop() for an attempt, and no way to begin one.
DeadInv == ~alive =>
    /\ caller = "idle"
    /\ connect => timers = 0 /\ ~InQueue("start") /\ channel # "watched"
    /\ channel = "watched" => /\ phase \in {"events", "tasks"}
                              /\ phase = "events" => In("stop", tasks)
                              /\ phase = "tasks" => In("stop", batch)

Parts == StartInv /\ StopInv /\ OneInv /\ LoopInv /\ WriteInv /\ HalfInv /\ DeadInv
ClientInv == TypeOK /\ Parts

CalledOnce == MaxStarts <= 1 /\ MaxStops <= 1 /\ ~DestroyAnywhere

-------------------------------------------------------------------------------
(* The steps.                                                               *)

LEMMA TypesStep ==
  ASSUME ClientInv, [Next]_vars
  PROVE  TypeOK'
<1> USE DEF ClientInv, TypeOK, ConnectorTypeOK
<1>1. ASSUME NEW g \in Functor, NEW s \in Seq(Functor)
      PROVE  Append(s, g) \in Seq(Functor)
  OBVIOUS
<1>2. batch # <<>> => Tail(batch) \in Seq(Functor) /\ Head(batch) \in Functor
  OBVIOUS
<1>3. /\ Append(tasks, "reset") \in Seq(Functor) /\ Append(tasks, "stop") \in Seq(Functor)
      /\ Append(tasks, "start") \in Seq(Functor) /\ Append(tasks, "destroy") \in Seq(Functor)
      /\ <<>> \in Seq(Functor)
  BY <1>1 DEF Functor
<1>4. timers > 0 => timers - 1 \in Nat
  OBVIOUS
<1>5. timers + 1 \in Nat /\ starts \in Nat /\ stops \in Nat /\ MaxStarts \in Nat /\ MaxStops \in Nat
  BY TCPClientAssumption DEF TCPClientAssumption
<1>6. CASE LoopStart
  BY <1>5, <1>6 DEF LoopStart, Attempt, Retry, loopVars
<1>7. CASE LoopStop \/ LoopDisconnect
  <2>1. CASE LoopStop
    <3>1. stops' \in 0 .. MaxStops /\ tasks' \in Seq(Functor)
      BY <1>3, <1>5, <2>1 DEF LoopStop
    <3>2. connect' = FALSE /\ UNCHANGED <<state, channel, timers, fault, connection>>
      BY <2>1 DEF LoopStop
    <3>3. UNCHANGED <<phase, ready, batch, alive, caller, starts>>
      BY <2>1 DEF LoopStop, loopVars
    <3> QED  BY <3>1, <3>2, <3>3
  <2>2. CASE LoopDisconnect
    BY <2>2 DEF LoopDisconnect, connectorVars, loopVars, userVars
  <2> QED  BY <1>7, <2>1, <2>2
<1>8. CASE ForeignStart \/ ForeignStop \/ ForeignPushes
  <2>1. CASE ForeignStart
    <3>1. starts' \in 0 .. MaxStarts
      BY <1>5, <2>1 DEF ForeignStart
    <3>2. /\ connect' = TRUE /\ caller' = "start"
          /\ UNCHANGED <<state, channel, timers, tasks, fault, connection>>
      BY <2>1 DEF ForeignStart
    <3>3. UNCHANGED <<phase, ready, batch, alive, stops>>
      BY <2>1 DEF ForeignStart, loopVars
    <3> QED  BY <3>1, <3>2, <3>3
  <2>2. CASE ForeignStop
    <3>1. stops' \in 0 .. MaxStops
      BY <1>5, <2>2 DEF ForeignStop
    <3>2. /\ connect' = FALSE /\ caller' = "stop"
          /\ UNCHANGED <<state, channel, timers, tasks, fault, connection>>
      BY <2>2 DEF ForeignStop
    <3>3. UNCHANGED <<phase, ready, batch, alive, starts>>
      BY <2>2 DEF ForeignStop, loopVars
    <3> QED  BY <3>1, <3>2, <3>3
  <2>3. CASE ForeignPushes
    <3>1. tasks' \in Seq(Functor)
      BY <1>3, <2>3 DEF ForeignPushes
    <3>2. caller' = "idle" /\ UNCHANGED <<connect, state, channel, timers, fault, connection>>
      BY <2>3 DEF ForeignPushes
    <3>3. UNCHANGED <<phase, ready, batch, alive, starts, stops>>
      BY <2>3 DEF ForeignPushes, loopVars
    <3> QED  BY <3>1, <3>2, <3>3
  <2> QED  BY <1>8, <2>1, <2>2, <2>3
<1>9. ASSUME NEW shared \in BOOLEAN, Destroy(shared)
      PROVE  TypeOK'
  <2>1. /\ tasks' \in Seq(Functor) /\ alive' \in BOOLEAN /\ connect' \in BOOLEAN
        /\ fault' \in {"none", "assertion", "nullptr", "dangling"}
    BY <1>3, <1>9 DEF Destroy
  <2>2. UNCHANGED <<state, channel, timers, connection, phase, ready, batch, caller, starts, stops>>
    BY <1>9 DEF Destroy, loopVars
  <2> QED  BY <2>1, <2>2
<1>10. ASSUME NEW events \in SUBSET Registered, Poll(events)
      PROVE  TypeOK'
  <2>1. ready' \in SUBSET {"connector", "timer", "connection"} /\ phase' = "events"
    BY <1>10 DEF Poll, Registered
  <2>2. UNCHANGED <<connectorVars, connection, batch, userVars>>
    BY <1>10 DEF Poll
  <2> QED  BY <2>1, <2>2 DEF connectorVars, userVars
<1>11. CASE TakeTasks \/ DoneTasks
  <2>1. CASE TakeTasks
    <3>1. batch' = tasks /\ tasks' = <<>> /\ phase' = "tasks"
      BY <2>1 DEF TakeTasks
    <3>2. UNCHANGED <<connect, state, channel, timers, fault, connection, ready, userVars>>
      BY <2>1 DEF TakeTasks
    <3> QED  BY <1>3, <3>1, <3>2 DEF userVars
  <2>2. CASE DoneTasks
    BY <2>2 DEF DoneTasks, connectorVars, userVars
  <2> QED  BY <1>11, <2>1, <2>2
<1>12. CASE RunTask
  <2>1. batch' \in Seq(Functor) /\ UNCHANGED <<connect, connection, phase, ready, userVars>>
    BY <1>2, <1>12 DEF RunTask
  <2>2. CASE ResetChannel /\ UNCHANGED tasks
    BY <2>1, <2>2 DEF ResetChannel, userVars
  <2>3. CASE StopInLoop
    <3>1. tasks' \in Seq(Functor) /\ timers' \in Nat
      BY <1>3, <1>5, <2>3 DEF StopInLoop, RemoveChannel, Retry
    <3> QED  BY <2>1, <2>3, <3>1 DEF StopInLoop, RemoveChannel, Retry, userVars
  <2>4. CASE StartInLoop(timers) /\ UNCHANGED tasks
    BY <1>5, <2>1, <2>4 DEF StartInLoop, Attempt, Retry, userVars
  <2>5. CASE UNCHANGED <<state, channel, timers, tasks, fault>>
    BY <2>1, <2>5 DEF userVars
  <2>6. batch # <<>> => Head(batch) \in {"reset", "stop", "start", "destroy"}
    BY <1>2 DEF Functor
  <2> QED  BY <1>12, <2>2, <2>3, <2>4, <2>5, <2>6 DEF RunTask
<1>13. CASE Connected
  BY <1>3, <1>13 DEF Connected, HandleWrite, NewConnection, RemoveChannel, connectorVars, userVars
<1>14. CASE Refused
  BY <1>3, <1>5, <1>14 DEF Refused, HandleError, RemoveChannel, Retry, userVars
<1>15. CASE RefusedWrite
  BY <1>3, <1>15
     DEF RefusedWrite, HandleWrite, NewConnection, RemoveChannel, connectorVars, userVars
<1>16. CASE TimerFires
  <2>1. timers > 0
    BY <1>16 DEF TimerFires, Parts, LoopInv
  <2> QED  BY <1>4, <1>5, <1>16, <2>1 DEF TimerFires, StartInLoop, Attempt, Retry, userVars
<1>17. CASE Disconnected
  BY <1>3, <1>5, <1>17 DEF Disconnected, RemoveConnection, Restart, Attempt, Retry, userVars
<1>18. CASE UNCHANGED vars
  BY <1>18 DEF vars, connectorVars, loopVars, userVars
<1> QED
  BY <1>6, <1>7, <1>8, <1>9, <1>10, <1>11, <1>12, <1>13, <1>14, <1>15, <1>16, <1>17, <1>18
     DEF Next, LoopStep

\* What a push and the start of a functor do to the queue.
Pushes(g) ==
    /\ batch' = batch
    /\ \A f \in Functor :
          /\ In(f, tasks') <=> In(f, tasks) \/ f = g
          /\ OnceIn(f, tasks) /\ (f # g \/ ~In(f, tasks)) => OnceIn(f, tasks')

LEMMA Pushed ==
  ASSUME TypeOK, NEW g \in Functor, tasks' = Append(tasks, g), batch' = batch
  PROVE  Pushes(g)
BY AppendIn DEF Pushes, TypeOK, ConnectorTypeOK

Drops ==
    /\ Head(batch) \in Functor
    /\ \A f \in Functor :
          /\ In(f, batch) <=> Head(batch) = f \/ In(f, batch')
          /\ OnceIn(f, batch) => OnceIn(f, batch') /\ (Head(batch) = f => ~In(f, batch'))

LEMMA Dropped ==
  ASSUME TypeOK, batch # <<>>, batch' = Tail(batch)
  PROVE  Drops
BY TailIn DEF Drops, TypeOK

LEMMA PartsStep ==
  ASSUME ClientInv, CalledOnce, [Next]_vars
  PROVE  Parts'
<1> USE DEF ClientInv, Parts, StartInv, StopInv, OneInv, LoopInv, WriteInv, HalfInv, DeadInv,
            Idle, StartComes, StopComes, InQueue
<1>1. /\ starts \in Nat /\ stops \in Nat /\ timers \in Nat
      /\ starts <= MaxStarts /\ stops <= MaxStops /\ MaxStarts \in Nat /\ MaxStops \in Nat
      /\ MaxStarts <= 1 /\ MaxStops <= 1 /\ ~DestroyAnywhere
      /\ "reset" \in Functor /\ "stop" \in Functor /\ "start" \in Functor /\ "destroy" \in Functor
  BY TCPClientAssumption DEF TCPClientAssumption, CalledOnce, TypeOK, ConnectorTypeOK, Functor
<1>2. CASE LoopStart
  BY <1>1, <1>2 DEF LoopStart, Attempt, Retry, InCallback, loopVars
<1>3. CASE LoopStop
  <2>1. Pushes("stop")
    BY <1>1, <1>3, Pushed DEF LoopStop, loopVars
  <2> QED  BY <1>1, <1>3, <2>1 DEF LoopStop, InCallback, loopVars, Pushes
<1>4. CASE LoopDisconnect
  BY <1>1, <1>4 DEF LoopDisconnect, connectorVars, loopVars, userVars
<1>5. CASE ForeignStart \/ ForeignStop
  BY <1>1, <1>5 DEF ForeignStart, ForeignStop, loopVars
<1>6. CASE ForeignPushes
  <2>1. caller \in {"start", "stop"}
    BY <1>6 DEF ForeignPushes, TypeOK
  <2>2. Pushes(caller)
    BY <1>1, <1>6, <2>1, Pushed DEF ForeignPushes, loopVars
  <2> QED  BY <1>1, <1>6, <2>1, <2>2 DEF ForeignPushes, loopVars, Pushes
<1>7. ASSUME NEW shared \in BOOLEAN, Destroy(shared)
      PROVE  Parts'
  <2>1. phase = "events" /\ "connector" \notin ready /\ shared
    BY <1>1, <1>7 DEF Destroy, MayDestroy
  <2>2. CASE connection = "null"
    <3>1. Pushes("stop")
      BY <1>1, <1>7, <2>2, Pushed DEF Destroy, loopVars
    <3>2. /\ state = "CONNECTING" => channel = "watched"
          /\ alive /\ ~alive' /\ ~connect' /\ fault' = fault /\ caller = "idle"
          /\ UNCHANGED <<state, channel, timers, connection, phase, ready, batch, caller,
                         starts, stops>>
      BY <1>1, <1>7, <2>1, <2>2 DEF Destroy, MayDestroy, InCallback, loopVars
    <3>3. /\ In("reset", tasks') <=> In("reset", tasks)
          /\ In("start", tasks') <=> In("start", tasks)
          /\ OnceIn("start", tasks) => OnceIn("start", tasks')
          /\ batch' = batch
      BY <1>1, <3>1 DEF Pushes
    <3>4. StartInv'
      <4>1. Idle' <=> Idle
        BY <3>2, <3>3
      <4>2. (StartComes' <=> StartComes) /\ caller' # "start"
        BY <3>2, <3>3
      <4>3. OnceIn("start", tasks)' /\ OnceIn("start", batch)'
        BY <3>3
      <4>4. (In("start", batch) => ~In("start", tasks))'
        BY <3>3
      <4> QED  BY <3>2, <4>1, <4>2, <4>3, <4>4
    <3>5. StopInv'
      BY <2>1, <3>2, <3>3, EmptyIn
    <3>6. OneInv' /\ WriteInv'
      BY <1>1, <2>1, <2>2, <3>1, <3>2 DEF Pushes
    <3>7. LoopInv'
      BY <1>1, <2>1, <2>2, <3>1, <3>2 DEF Pushes
    <3>8. HalfInv'
      BY <2>1, <3>2
    <3>9. DeadInv'
      BY <1>1, <2>1, <2>2, <3>1, <3>2 DEF Pushes
    <3> QED  BY <3>4, <3>5, <3>6, <3>7, <3>8, <3>9
  <2>3. CASE connection # "null"
    <3>1. ~InQueue("reset") /\ ~InQueue("stop") /\ ~InQueue("start")
      BY <1>1, <1>7, <2>3 DEF Destroy, MayDestroy, Queued, InQueue, In, ToSet
    <3>2. channel = "null"
      BY <2>3, <3>1 DEF TypeOK, ConnectorTypeOK
    <3>3. /\ alive /\ ~alive' /\ fault' = fault /\ caller = "idle"
          /\ UNCHANGED <<connect, tasks, state, channel, timers, connection, phase, ready, batch,
                         caller, starts, stops>>
      BY <1>1, <1>7, <2>1, <2>3, <3>2 DEF Destroy, InCallback, loopVars
    <3> QED  BY <1>1, <2>1, <2>3, <3>1, <3>2, <3>3
  <2> QED  BY <2>2, <2>3
<1>8. ASSUME NEW events \in SUBSET Registered, Poll(events)
      PROVE  Parts'
  <2>1. ~In("reset", tasks) \/ "timer" \notin events
    BY <1>8 DEF Poll, Contains, In
  <2>2. /\ phase = "poll" /\ phase' = "events" /\ ready' = events /\ batch = <<>>
        /\ UNCHANGED <<connect, state, channel, timers, tasks, fault, connection, batch, alive,
                       caller, starts, stops>>
    BY <1>8 DEF Poll, connectorVars, userVars
  <2>3. \A f : ~In(f, batch)
    BY <2>2, EmptyIn
  <2>4. /\ "connector" \in events => channel = "watched"
        /\ "timer" \in events => timers > 0
        /\ "connection" \in events => connection # "null"
        /\ events \subseteq {"connector", "timer", "connection"}
    BY DEF Registered
  <2>5. /\ "connector" \in events => events = {"connector"}
        /\ "timer" \in events => events = {"timer"}
        /\ "connection" \in events => events = {"connection"}
    BY <1>1, <2>4
  <2>6. LoopInv'
    BY <1>1, <2>1, <2>2, <2>3, <2>4, <2>5
  <2>7. StartInv' /\ StopInv' /\ OneInv' /\ WriteInv' /\ HalfInv' /\ DeadInv'
    BY <1>1, <2>2, <2>3
  <2> QED  BY <2>6, <2>7
<1>9. CASE TakeTasks
  <2>1. batch = <<>> /\ batch' = tasks /\ tasks' = <<>>
    BY <1>9 DEF TakeTasks
  <2>2. \A f : ~In(f, batch) /\ ~In(f, tasks') /\ OnceIn(f, tasks')
    BY <2>1, EmptyIn
  <2> QED  BY <1>1, <1>9, <2>1, <2>2 DEF TakeTasks, userVars
<1>10. CASE DoneTasks
  <2>1. \A f : ~In(f, batch)
    BY <1>10, EmptyIn DEF DoneTasks
  <2> QED  BY <1>1, <1>10, <2>1 DEF DoneTasks, connectorVars, userVars
<1>11. CASE RunTask
  <2>1. Drops
    BY <1>11, Dropped DEF RunTask
  <2>2. CASE Head(batch) = "reset"
    BY <1>1, <1>11, <2>1, <2>2 DEF RunTask, ResetChannel, userVars, Drops
  <2>3. CASE Head(batch) = "stop"
    <3>1. StopInLoop /\ UNCHANGED <<connect, connection, phase, ready, userVars>> /\ phase = "tasks"
      BY <1>11, <2>3 DEF RunTask
    <3>2. CASE state # "CONNECTING"
      BY <1>1, <2>1, <2>3, <3>1, <3>2 DEF StopInLoop, userVars, Drops
    <3>3. CASE state = "CONNECTING"
      <4>1. channel # "null"
        BY <1>1, <2>1, <2>3, <3>1, <3>3 DEF Drops
      <4>2. /\ \A f \in Functor : In(f, tasks') <=> In(f, tasks) \/ f = "reset"
            /\ OnceIn("start", tasks) => OnceIn("start", tasks')
        <5>1. tasks' = Append(tasks, "reset") /\ tasks \in Seq(Functor)
          BY <3>1, <3>3, <4>1 DEF StopInLoop, RemoveChannel, TypeOK, ConnectorTypeOK
        <5>2. "start" # "reset"
          OBVIOUS
        <5> HIDE DEF ClientInv
        <5> QED  BY <1>1, <5>1, <5>2, AppendIn
      <4> QED  BY <1>1, <2>1, <2>3, <3>1, <3>3, <4>1, <4>2
                  DEF StopInLoop, RemoveChannel, Retry, userVars, Drops
    <3> QED  BY <3>2, <3>3
  <2>4. CASE Head(batch) = "start"
    <3>1. /\ StartInLoop(timers) /\ UNCHANGED <<tasks, connect, connection, phase, ready, userVars>>
          /\ phase = "tasks"
      BY <1>11, <2>4 DEF RunTask
    <3>2. /\ Idle /\ starts # 0 /\ connect => alive
          /\ \A f \in Functor : In(f, batch) <=> f = "start" \/ In(f, batch')
          /\ ~In("start", batch') /\ ~In("start", tasks) /\ OnceIn("start", batch')
      BY <1>1, <2>1, <2>4 DEF Drops
    <3>3. CASE connect /\ state' = "CONNECTING"
      BY <1>1, <3>1, <3>2, <3>3 DEF StartInLoop, Attempt, Retry, userVars
    <3>4. CASE ~(connect /\ state' = "CONNECTING")
      BY <1>1, <3>1, <3>2, <3>4 DEF StartInLoop, Attempt, Retry, userVars
    <3> QED  BY <3>3, <3>4
  <2>5. CASE Head(batch) = "destroy"
    BY <1>1, <1>11, <2>1, <2>5 DEF RunTask, userVars, Drops
  <2> QED  BY <2>1, <2>2, <2>3, <2>4, <2>5 DEF Drops, Functor
<1>12. CASE Connected
  <2>1. state = "CONNECTING" /\ NewConnection
    BY <1>12 DEF Connected, HandleWrite
  <2>2. Pushes("reset")
    BY <1>1, <1>12, <2>1, Pushed DEF Connected, NewConnection, RemoveChannel
  <2> QED  BY <1>1, <1>12, <2>1, <2>2
              DEF Connected, NewConnection, RemoveChannel, userVars, Pushes
<1>13. CASE Refused
  <2>1. state = "CONNECTING"
    BY <1>13 DEF Refused
  <2>2. Pushes("reset")
    BY <1>1, <1>13, <2>1, Pushed DEF Refused, HandleError, RemoveChannel
  <2> QED  BY <1>1, <1>13, <2>1, <2>2
              DEF Refused, HandleError, RemoveChannel, Retry, userVars, Pushes
<1>14. CASE RefusedWrite
  <2>1. CASE state = "CONNECTING"
    <3>1. NewConnection
      BY <1>14, <2>1 DEF RefusedWrite, HandleWrite
    <3>2. Pushes("reset")
      BY <1>1, <1>14, <3>1, Pushed DEF RefusedWrite, NewConnection, RemoveChannel
    <3> QED  BY <1>1, <1>14, <2>1, <3>1, <3>2
                DEF RefusedWrite, NewConnection, RemoveChannel, userVars, Pushes
  <2>2. CASE state # "CONNECTING"
    BY <1>1, <1>14, <2>2 DEF RefusedWrite, HandleWrite, connectorVars, userVars
  <2> QED  BY <2>1, <2>2
<1>15. CASE TimerFires
  <2>1. /\ timers = 1 /\ ready = {"timer"} /\ ready' = {} /\ state = "DISCONNECTED"
        /\ connection = "null" /\ ~InQueue("reset") /\ phase = "events"
    BY <1>15 DEF TimerFires
  <2>2. channel = "null" /\ starts # 0 /\ ~StartComes /\ (connect => alive)
    BY <1>1, <2>1 DEF TypeOK, ConnectorTypeOK
  <2>3. /\ UNCHANGED <<connect, tasks, connection, phase, batch, alive, caller, starts, stops>>
        /\ StartInLoop(0)
    BY <2>1, <1>15 DEF TimerFires, userVars
  <2>4. CASE connect /\ state' = "CONNECTING"
    BY <1>1, <2>1, <2>2, <2>3, <2>4 DEF StartInLoop, Attempt, Retry
  <2>5. CASE ~(connect /\ state' = "CONNECTING")
    BY <1>1, <2>1, <2>2, <2>3, <2>5 DEF StartInLoop, Attempt, Retry
  <2> QED  BY <2>4, <2>5
<1>16. CASE Disconnected
  <2>1. Pushes("destroy")
    BY <1>1, <1>16, Pushed DEF Disconnected, RemoveConnection
  <2>2. /\ connection # "null" /\ ready = {"connection"} /\ ready' = {} /\ state = "CONNECTED"
        /\ timers = 0 /\ ~InQueue("reset") /\ phase = "events" /\ connection' = "null"
        /\ UNCHANGED <<phase, batch, alive, caller, starts, stops>>
    BY <1>1, <1>16 DEF Disconnected, RemoveConnection, userVars
  <2>3. channel = "null" /\ starts # 0 /\ ~StartComes
    BY <1>1, <2>2 DEF TypeOK, ConnectorTypeOK
  <2>4. CASE ~alive
    <3>1. UNCHANGED <<connect, state, channel, timers, fault>>
      BY <1>16, <2>4 DEF Disconnected, RemoveConnection
    <3> QED  BY <1>1, <2>1, <2>2, <2>3, <2>4, <3>1 DEF Pushes
  <2>5. CASE alive
    <3>1. connect' /\ Attempt(timers)
      BY <1>16, <2>5 DEF Disconnected, RemoveConnection, Restart
    <3> QED  BY <1>1, <2>1, <2>2, <2>3, <2>5, <3>1 DEF Pushes, Attempt, Retry
  <2> QED  BY <2>4, <2>5
<1>17. CASE UNCHANGED vars
  BY <1>17 DEF vars, connectorVars, loopVars, userVars
<1> QED
  BY <1>2, <1>3, <1>4, <1>5, <1>6, <1>7, <1>8, <1>9, <1>10, <1>11, <1>12, <1>13, <1>14, <1>15,
     <1>16, <1>17
     DEF Next, LoopStep

-------------------------------------------------------------------------------
(* The theorems.                                                            *)

LEMMA ClientInit ==
  ASSUME Init
  PROVE  ClientInv
<1>1. \A f : ~In(f, <<>>) /\ OnceIn(f, <<>>)
  BY EmptyIn
<1>2. MaxStarts \in Nat /\ MaxStops \in Nat /\ 0 \in 0 .. MaxStarts /\ 0 \in 0 .. MaxStops
  BY TCPClientAssumption DEF TCPClientAssumption
<1>3. <<>> \in Seq(Functor)
  OBVIOUS
<1>4. TypeOK
  BY <1>2, <1>3 DEF Init, ConnectorInit, TypeOK, ConnectorTypeOK
<1>5. Parts
  BY <1>1 DEF Init, ConnectorInit, Parts, StartInv, StopInv, OneInv, LoopInv, WriteInv, HalfInv,
              DeadInv, Idle, StartComes, StopComes, InQueue
<1> QED
  BY <1>4, <1>5 DEF ClientInv

LEMMA ClientInvHolds ==
  ASSUME CalledOnce
  PROVE  Spec => []ClientInv
<1>1. ClientInv /\ [Next]_vars => ClientInv'
  BY TypesStep, PartsStep DEF ClientInv
<1> QED
  BY ClientInit, <1>1, PTL DEF Spec

LEMMA QueuedIn ==
  ASSUME NEW f
  PROVE  Queued(f) <=> InQueue(f)
BY DEF Queued, InQueue, In, ToSet

\* A timer excludes both channels, and the connector's channel the connection.
LEMMA OneAttemptHolds ==
  ASSUME ClientInv
  PROVE  OneAttempt
<1> DEFINE Others == Registered \ {"timer"}
<1>1. /\ timers \in Nat /\ timers <= 1
      /\ timers > 0 => channel # "watched" /\ connection = "null"
      /\ connection # "null" => channel # "watched"
  BY DEF ClientInv, Parts, OneInv, TypeOK, ConnectorTypeOK
<1>2. Others = {e \in {"connector", "connection"} :
                  IF e = "connector" THEN channel = "watched" ELSE connection # "null"}
  BY DEF Registered
<1>3. \/ Others = {}
      \/ timers = 0 /\ Others = {"connector"}
      \/ timers = 0 /\ Others = {"connection"}
  BY <1>1, <1>2
<1>4. /\ Cardinality({}) = 0
      /\ Cardinality({"connector"}) = 1 /\ Cardinality({"connection"}) = 1
  BY FS_EmptySet, FS_Singleton
<1>5. timers + Cardinality(Others) <= 1
  BY <1>1, <1>3, <1>4
<1> QED
  BY <1>5 DEF OneAttempt

\* However the calls of one start() and one stop() fall between the events, timers and
\* functors of the loop, no assertion of Connector.cc fails, no null channel is removed
\* (Connector.cc:32-121), the client waits for one thing at a time, and a queued
\* resetChannel() finds the channel it was queued for.
THEOREM ClientAlwaysSafe ==
  ASSUME CalledOnce
  PROVE  Spec => []ClientSafety
<1>1. ClientInv => ClientSafety
  <2>1. ClientInv => ResetIsSafe
    BY QueuedIn DEF ResetIsSafe, ClientInv, Parts, OneInv
  <2> QED
    BY <2>1, OneAttemptHolds DEF ClientSafety, ClientInv, Parts, OneInv, NoFault
<1> QED
  BY ClientInvHolds, <1>1, PTL

\* Only Attempt() takes the channel from null to watched; a functor or a timer that calls it
\* finds the client alive, for a dead one with connect_ set has neither.
LEMMA AttemptIsWanted ==
  ASSUME ClientInv, [Next]_vars, channel = "null", channel' = "watched"
  PROVE  alive /\ connect'
<1> USE DEF ClientInv, Parts, DeadInv
<1>1. CASE LoopStart
  BY <1>1 DEF LoopStart, InCallback
<1>2. CASE RunTask
  <2>1. batch # <<>> /\ batch \in Seq(Functor)
    BY <1>2 DEF RunTask, TypeOK
  <2>2. Head(batch) \in {"reset", "stop", "start", "destroy"} /\ In(Head(batch), batch)
    BY <2>1, TailIn DEF Functor
  <2>3. Head(batch) = "start" /\ StartInLoop(timers) /\ UNCHANGED connect
    BY <1>2, <2>2 DEF RunTask, ResetChannel, StopInLoop, RemoveChannel
  <2>4. connect /\ connect'
    BY <2>3 DEF StartInLoop
  <2> QED  BY <2>2, <2>3, <2>4 DEF InQueue
<1>3. CASE TimerFires
  <2>1. StartInLoop(timers - 1) /\ UNCHANGED connect /\ timers # 0
    BY <1>3 DEF TimerFires, LoopInv
  <2> QED  BY <2>1 DEF StartInLoop
<1>4. CASE Disconnected
  BY <1>4 DEF Disconnected, RemoveConnection, Restart
<1>5. CASE Connected \/ Refused \/ RefusedWrite
  BY <1>5
     DEF Connected, Refused, RefusedWrite, HandleWrite, HandleError, NewConnection, RemoveChannel,
              connectorVars
<1>6. CASE UNCHANGED channel
  BY <1>6
<1>7. ASSUME NEW events \in SUBSET Registered, Poll(events)
      PROVE  UNCHANGED channel
  BY <1>7 DEF Poll, connectorVars
<1>8. ASSUME NEW shared \in BOOLEAN, Destroy(shared)
      PROVE  UNCHANGED channel
  BY <1>8 DEF Destroy
<1>9. TakeTasks \/ DoneTasks \/ LoopStop \/ LoopDisconnect \/ ForeignStart \/ ForeignStop
         \/ ForeignPushes \/ UNCHANGED vars => UNCHANGED channel
  BY DEF TakeTasks, DoneTasks, LoopStop, LoopDisconnect, ForeignStart, ForeignStop, ForeignPushes,
         vars, connectorVars
<1> QED
  BY <1>1, <1>2, <1>3, <1>4, <1>5, <1>6, <1>7, <1>8, <1>9 DEF Next, LoopStep

\* After stop() no attempt begins unless a lost connection has called restart()
\* (Connector.cc:51-56), and after ~TCPClient() none at all, whatever timers of retry() and
\* functors of a start() are left in the loop.
THEOREM StopAlwaysHeeded ==
  ASSUME CalledOnce
  PROVE  Spec => StopIsHeeded
<1>1. ClientInv /\ [Next]_vars =>
        [(~connect \/ ~alive) /\ channel = "null"
            => channel' # "watched" \/ (alive /\ connect')]_vars
  BY AttemptIsWanted
<1> QED
  BY ClientInvHolds, <1>1, PTL DEF Spec, StopIsHeeded
===============================================================================
