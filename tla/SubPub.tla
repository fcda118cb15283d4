-------------------------------- MODULE SubPub --------------------------------
(***************************************************************************)
(* The publish-subscribe server of the examples (subpub.cc): a TCPServer   *)
(* with several loops.  onServerMessage() handles the lines of a client in *)
(* the loop of its connection; the table conns of all subscribers is       *)
(* shared under mutex_, the topics of a connection are also in its         *)
(* context.  A publisher calls send() on connections of other loops, which *)
(* queues sendInLoop() there with a plain pointer.                         *)
(*                                                                         *)
(* A line of a client is [do, topic]; "short" stands for one that is too   *)
(* short or too long, "junk" for one that is no command.  A client is tidy *)
(* if it subscribes to a topic once and unsubscribes only from its topics. *)
(* A line that is just "unsub" ends the server: substr(6) throws, and      *)
(* nobody catches.  SubSpec may stop at any state, so that an end there is *)
(* one of its behaviours; there is no action for it.                       *)
(***************************************************************************)
EXTENDS Naturals, Sequences, SequencesExt, FiniteSets

CONSTANTS Conn,      \* the connections
          LoopOf,    \* the loop of each
          Topic,
          Line,      \* what clients send
          MaxLines   \* bound: lines that a client sends

VARIABLES subscribers,  \* conns: its keys are the topics that were ever used
          topics,       \* the context of each connection
          inbox,        \* the lines in recvBuffer_ of each connection
          sentCount,    \* how many lines each client has sent
          handler,      \* what runs for the connection
          dropping,     \* the topics that a DOWN callback still has to erase
          connState,    \* state_, "left" between handleClose() and connectDestroyed()
          tasks,        \* taskQueue_ of each loop
          undefined,    \* conns[topic].erase(end()) was executed
          tidy          \* so far every client is, and no unlocked read of conns
                        \* met another loop that was adding the topic

ASSUME SubAssumption == /\ MaxLines \in Nat
                        /\ \A line \in Line : line.do \in {"sub", "unsub", "pub"} => line.topic \in Topic

subVars == <<subscribers, topics, inbox, sentCount, handler, dropping, connState, tasks,
             undefined, tidy>>

SubLoop == {LoopOf[c] : c \in Conn}
Has(t) == t \in DOMAIN subscribers
Subscribers(t) == IF Has(t) THEN subscribers[t] ELSE <<>>
\* conns[t] = s, which makes the entry.
Put(t, s) == subscribers' = [u \in DOMAIN subscribers \cup {t} |->
                               IF u = t THEN s ELSE subscribers[u]]

SubTypeOK ==
  /\ DOMAIN subscribers \subseteq Topic
  /\ \A t \in DOMAIN subscribers : subscribers[t] \in Seq(Conn)
  /\ topics \in [Conn -> SUBSET Topic] /\ dropping \in [Conn -> SUBSET Topic]
  /\ inbox \in [Conn -> Seq(Line)]
  /\ sentCount \in [Conn -> 0..MaxLines]
  /\ handler \in [Conn -> {"none", "message", "unsub", "down"}]
  /\ connState \in [Conn -> {"connected", "disconnected", "left", "destroyed"}]
  /\ tasks \in [SubLoop -> Seq({"send", "close", "destroy"} \X Conn)]
  /\ undefined \in BOOLEAN /\ tidy \in BOOLEAN

SubInit ==
  /\ subscribers = [t \in {} |-> <<>>] /\ topics = [c \in Conn |-> {}]
  /\ inbox = [c \in Conn |-> <<>>] /\ sentCount = [c \in Conn |-> 0]
  /\ handler = [c \in Conn |-> "none"] /\ dropping = [c \in Conn |-> {}]
  /\ connState = [c \in Conn |-> "connected"] /\ tasks = [l \in SubLoop |-> <<>>]
  /\ undefined = FALSE /\ tidy = TRUE

Idle(l) == \A c \in Conn : LoopOf[c] = l => handler[c] = "none"
Run(c, h) == handler' = [handler EXCEPT ![c] = h]
------------------------------------------------------------------------------
\* handleRecv(): lines arrive and onServerMessage() begins.  The tasks that an event
\* has queued run before the next event (doTask()).
ServerMessage(c) ==
  /\ Idle(LoopOf[c]) /\ connState[c] = "connected" /\ sentCount[c] < MaxLines
  /\ \E lines \in UNION {[1..n -> Line] : n \in 1..MaxLines - sentCount[c]} :
       /\ inbox' = [inbox EXCEPT ![c] = @ \o lines]
       /\ sentCount' = [sentCount EXCEPT ![c] = @ + Len(lines)]
  /\ Run(c, "message")
  /\ UNCHANGED <<subscribers, topics, dropping, connState, tasks, undefined, tidy>>

\* getMessage() takes the next line off the buffer.
Take(c, do) ==
  /\ handler[c] = "message" /\ inbox[c] # <<>> /\ Head(inbox[c]).do = do
  /\ inbox' = [inbox EXCEPT ![c] = Tail(@)]
Given(c) == Head(inbox[c]).topic

Skip(c) ==
  /\ Take(c, "short")
  /\ UNCHANGED <<subscribers, topics, sentCount, handler, dropping, connState, tasks,
                 undefined, tidy>>

Sub(c) ==
  /\ Take(c, "sub")
  /\ topics' = [topics EXCEPT ![c] = @ \cup {Given(c)}]
  /\ Put(Given(c), Append(Subscribers(Given(c)), c))
  /\ tidy' = (tidy /\ Given(c) \notin topics[c])
  /\ UNCHANGED <<sentCount, handler, dropping, connState, tasks, undefined>>

\* The queue of loop l after send() to each subscriber in s, of which it gets its own.
AfterSends(l, s) ==
  LET queue[i \in 0..Len(s)] ==
        IF i = 0 THEN tasks[l]
        ELSE IF LoopOf[s[i]] = l THEN Append(queue[i - 1], <<"send", s[i]>>)
        ELSE queue[i - 1]
  IN  queue[Len(s)]

\* send() to each subscriber, in its loop.  Without the topic onServerMessage()
\* returns, and the lines behind wait for the next ones.
Pub(c) ==
  /\ Take(c, "pub")
  /\ Run(c, IF Has(Given(c)) THEN "message" ELSE "none")
  /\ tasks' = [l \in SubLoop |-> IF l = LoopOf[c] THEN tasks[l]
                                 ELSE AfterSends(l, Subscribers(Given(c)))]
  /\ UNCHANGED <<subscribers, topics, sentCount, dropping, connState, undefined, tidy>>

\* Another loop is about to add a topic.
Racing(c) == \E d \in Conn : /\ LoopOf[d] # LoopOf[c] /\ handler[d] = "message"
                             /\ inbox[d] # <<>> /\ Head(inbox[d]).do = "sub" /\ ~Has(Given(d))

\* Mutant: only the context is changed.
UnsubContextOnly(c) ==
  /\ Take(c, "unsub")
  /\ topics' = [topics EXCEPT ![c] = @ \ {Given(c)}]
  /\ tidy' = (tidy /\ Given(c) \in topics[c] /\ ~Racing(c))
  /\ UNCHANGED <<subscribers, sentCount, handler, dropping, connState, tasks, undefined>>

\* The context first; then conns.count(topic) is read without the lock.
Unsub(c) ==
  /\ Take(c, "unsub")
  /\ topics' = [topics EXCEPT ![c] = @ \ {Given(c)}]
  /\ \E seen \in {Has(Given(c))} \cup (IF Racing(c) THEN BOOLEAN ELSE {}) :
       /\ Run(c, IF seen THEN "unsub" ELSE "none")
       /\ dropping' = [dropping EXCEPT ![c] = IF seen THEN {Given(c)} ELSE {}]
  /\ tidy' = (tidy /\ Given(c) \in topics[c] /\ ~Racing(c))
  /\ UNCHANGED <<subscribers, sentCount, connState, tasks, undefined>>

\* Under the lock: find() and erase(), which is undefined if there is nothing to erase.
Erase(c, t) ==
  LET s == Subscribers(t)
      i == CHOOSE j \in DOMAIN s : s[j] = c /\ \A k \in 1..j - 1 : s[k] # c
  IN  IF c \in ToSet(s) THEN Put(t, RemoveAt(s, i)) /\ UNCHANGED undefined
      ELSE undefined' = TRUE /\ UNCHANGED subscribers

UnsubLocked(c) ==
  /\ handler[c] = "unsub"
  /\ \E t \in dropping[c] : Erase(c, t)
  /\ Run(c, "message") /\ dropping' = [dropping EXCEPT ![c] = {}]
  /\ UNCHANGED <<topics, inbox, sentCount, connState, tasks, tidy>>

\* forceClose().
Junk(c) ==
  /\ Take(c, "junk")
  /\ connState' = [connState EXCEPT ![c] = "disconnected"]
  /\ tasks' = IF connState[c] = "connected"
              THEN [tasks EXCEPT ![LoopOf[c]] = Append(@, <<"close", c>>)] ELSE tasks
  /\ UNCHANGED <<subscribers, topics, sentCount, handler, dropping, undefined, tidy>>

NoMoreLines(c) ==
  /\ handler[c] = "message" /\ inbox[c] = <<>> /\ Run(c, "none")
  /\ UNCHANGED <<subscribers, topics, inbox, sentCount, dropping, connState, tasks,
                 undefined, tidy>>

------------------------------------------------------------------------------
\* handleClose(), which runs onServerConnection() with its topics.
HandleClose(c) ==
  /\ connState' = [connState EXCEPT ![c] = "disconnected"]
  /\ dropping' = [dropping EXCEPT ![c] = topics[c]] /\ Run(c, "down")

PeerCloses(c) ==
  /\ Idle(LoopOf[c]) /\ connState[c] = "connected" /\ HandleClose(c)
  /\ UNCHANGED <<subscribers, topics, inbox, sentCount, tasks, undefined, tidy>>

DropTopic(c) ==
  /\ handler[c] = "down"
  /\ \E t \in dropping[c] : Erase(c, t) /\ dropping' = [dropping EXCEPT ![c] = @ \ {t}]
  /\ UNCHANGED <<topics, inbox, sentCount, handler, connState, tasks, tidy>>

\* The end of handleClose(): the server forgets the connection.
Left(c) ==
  /\ handler[c] = "down" /\ dropping[c] = {} /\ Run(c, "none")
  /\ connState' = [connState EXCEPT ![c] = "left"]
  /\ UNCHANGED <<subscribers, topics, inbox, sentCount, dropping, tasks, undefined, tidy>>

\* Mutant: the connection is removed before it has left its topics.
RemoveInLoopEarly(c) ==
  /\ connState[c] = "left" \/ handler[c] = "down"
  /\ <<"destroy", c>> \notin ToSet(tasks[LoopOf[c]])
  /\ tasks' = [tasks EXCEPT ![LoopOf[c]] = Append(@, <<"destroy", c>>)]
  /\ UNCHANGED <<subscribers, topics, inbox, sentCount, handler, dropping, connState,
                 undefined, tidy>>

\* removeConnectionInLoop() in the loop of the server queues connectDestroyed().
RemoveInLoop(c) ==
  /\ connState[c] = "left" /\ <<"destroy", c>> \notin ToSet(tasks[LoopOf[c]])
  /\ tasks' = [tasks EXCEPT ![LoopOf[c]] = Append(@, <<"destroy", c>>)]
  /\ UNCHANGED <<subscribers, topics, inbox, sentCount, handler, dropping, connState,
                 undefined, tidy>>

\* The next task of a loop; sendInLoop() changes nothing here.
RunNext(l) ==
  /\ Idle(l) /\ tasks[l] # <<>> /\ tasks' = [tasks EXCEPT ![l] = Tail(@)]
  /\ LET c == Head(tasks[l])[2] IN
       \/ Head(tasks[l])[1] = "send" /\ UNCHANGED <<connState, dropping, handler>>
       \/ Head(tasks[l])[1] = "close" /\ HandleClose(c)
       \/ /\ Head(tasks[l])[1] = "destroy"
          /\ connState' = [connState EXCEPT ![c] = "destroyed"]
          /\ UNCHANGED <<dropping, handler>>
  /\ UNCHANGED <<subscribers, topics, inbox, sentCount, undefined, tidy>>

OnServerMessage(c) == \/ Skip(c) \/ Sub(c) \/ Pub(c) \/ Unsub(c) \/ UnsubLocked(c)
                      \/ Junk(c) \/ NoMoreLines(c)
SubNext ==
  ~undefined /\ (\/ \E c \in Conn : \/ ServerMessage(c) \/ OnServerMessage(c) \/ PeerCloses(c)
                                    \/ DropTopic(c) \/ Left(c) \/ RemoveInLoop(c)
                 \/ \E l \in SubLoop : RunNext(l))
SubSpec == SubInit /\ [][SubNext]_subVars
------------------------------------------------------------------------------
Subscribed(c, t) == c \in ToSet(Subscribers(t))

\* While clients are tidy and no conns.count(), read without the lock, has met another
\* loop that was adding the same topic (after that nothing is said), the table and the
\* contexts agree across loops: each subscriber is in a topic once, nobody is there who
\* has left, and erase() finds what it erases (subpub.cc:92, 121, 139).
SubscriptionsAgree ==
  tidy => /\ ~undefined
          /\ \A c \in Conn, t \in Topic :
               Subscribed(c, t) <=> \/ handler[c] = "unsub" /\ t \in dropping[c] \cup topics[c]
                                    \/ handler[c] = "down" /\ t \in dropping[c]
                                    \/ /\ handler[c] \in {"none", "message"}
                                       /\ connState[c] \in {"connected", "disconnected"}
                                       /\ t \in topics[c]
          /\ \A t \in Topic : IsInjective(Subscribers(t))

\* A sendInLoop() that waits in a queue runs before its connection is gone: it was
\* queued while the connection was in conns, which the DOWN callback leaves before
\* connectDestroyed() is queued; a connection that stays in conns is kept alive by it
\* (subpub.cc:108, TCPConnection.cc:94).
SendsReachTheLiving ==
  \A l \in SubLoop : \A i \in DOMAIN tasks[l] :
    LET c == tasks[l][i][2]
    IN  tasks[l][i][1] = "send" =>
          \/ \E t \in DOMAIN subscribers : c \in ToSet(subscribers[t])
          \/ /\ connState[c] # "destroyed"
             /\ \A j \in 1..i - 1 : tasks[l][j] # <<"destroy", c>>
==============================================================================
