------------------------------ MODULE RpcChannel ------------------------------
(***************************************************************************)
(* RpcChannel on the client, RpcServer and its channels on the server      *)
(* (protorpc/).  CallMethod() binds the request to the connection callback *)
(* of the TCPClient, connects and runs the loop until the response has     *)
(* come.  A connection that ends is replaced, and the bound request is     *)
(* sent again on the new one.                                              *)
(*                                                                         *)
(* A channel makes one call after the other.  What TCPClient and Connector *)
(* do is reduced to what a channel sees: the connections, whether          *)
(* connectChannel_ is set, and the timers of retry().  connection_ and     *)
(* conn_ are the last connection while it is open.  The connection of the  *)
(* previous call may still be there, half closed.                          *)
(*                                                                         *)
(* A connection or attempt that is destroyed before its end leaves its     *)
(* descriptor in channels_ (`stale`): the next Channel may get that number *)
(* and fail an assertion (EventLoop.cc:150).  A failed assertion, or the   *)
(* use of a destroyed Channel, ends the program (`aborted`).               *)
(***************************************************************************)
EXTENDS Naturals, Sequences, FiniteSets

CONSTANTS Service,      \* services_: the methods of the server
          CalledMethod,   \* the method of each call
          Parses(_),    \* the server can parse this call's request
          MaxLosses, MaxRefusals  \* bounds: lost connections, failed connects

ASSUME RpcAssumption ==
  /\ CalledMethod \in Seq({CalledMethod[id] : id \in DOMAIN CalledMethod})
  /\ MaxLosses \in Nat /\ MaxRefusals \in Nat

VARIABLES calls,           \* how many calls have begun; the last one has this id
          loopPc,          \* the client: "idle", "looping" or "quitting"
          conns,           \* all connections of the client
          connectChannel,  \* Connector::connectChannel_
          retries,         \* pending timers of Connector::retry()
          outstandings,    \* the ids in outstandings_
          runs,            \* how often each call's done has run
          executed,        \* how often the server has executed each call
          losses, refusals,
          stale,           \* channels_ holds a descriptor that has been closed
          aborted

rpcVars == <<calls, loopPc, conns, connectChannel, retries, outstandings, runs, executed,
             losses, refusals, stale, aborted>>

Call == DOMAIN CalledMethod
ErrorOf(id) == IF CalledMethod[id] \notin Service THEN "NO_METHOD"
               ELSE IF ~Parses(id) THEN "INVALID_REQUEST" ELSE "NO_ERROR"

\* connectChannel_ is "new" in the iteration that made it, when it has no event yet,
\* "done" or "failed" until resetChannel() runs at the end of the iteration, and "dead"
\* when its descriptor was closed under it: it has no event and stays.
RpcTypeOK ==
  /\ calls \in 0..Cardinality(Call) /\ loopPc \in {"idle", "looping", "quitting"}
  /\ conns \in Seq([id : Call, request : {"sent", "handled", "lost"}, response : BOOLEAN,
                    half : BOOLEAN, eof : BOOLEAN, open : BOOLEAN])
  /\ connectChannel \in {"none", "new", "pending", "done", "failed", "dead"}
  /\ retries \in 0..MaxRefusals
  /\ outstandings \subseteq Call /\ runs \in [Call -> Nat] /\ executed \in [Call -> Nat]
  /\ losses \in 0..MaxLosses /\ refusals \in 0..MaxRefusals
  /\ stale \in BOOLEAN /\ aborted \in BOOLEAN

RpcInit ==
  /\ calls = 0 /\ loopPc = "idle" /\ conns = <<>>
  /\ connectChannel = "none" /\ retries = 0 /\ outstandings = {}
  /\ runs = [id \in Call |-> 0] /\ executed = [id \in Call |-> 0]
  /\ losses = 0 /\ refusals = 0 /\ stale = FALSE /\ aborted = FALSE

Keep == UNCHANGED <<losses, executed>>
------------------------------------------------------------------------------
\* Connector::connect(): connecting() asserts that no attempt is under way.  It leaves
\* `timers` timers pending, and one more if connect() fails at once; retry() then has
\* closed the descriptor of an attempt that was under way, but left its channel.
Connect(channel, timers) ==
  \/ /\ connectChannel = "none" /\ connectChannel' = channel
     /\ retries' = timers /\ aborted' \in {FALSE, stale} /\ UNCHANGED <<refusals, stale>>
  \/ /\ connectChannel # "none" /\ aborted' = TRUE
     /\ retries' = timers /\ UNCHANGED <<connectChannel, refusals, stale>>
  \/ /\ refusals < MaxRefusals /\ refusals' = refusals + 1 /\ retries' = timers + 1
     /\ LET underWay == connectChannel \in {"new", "pending"}
        IN  /\ connectChannel' = IF underWay THEN "dead" ELSE connectChannel
            /\ stale' = (stale \/ underWay)
     /\ aborted' \in {FALSE, stale'}

CallMethod ==
  /\ ~aborted /\ loopPc = "idle" /\ calls + 1 \in Call
  /\ calls' = calls + 1 /\ outstandings' = outstandings \cup {calls + 1}
  /\ Connect("pending", retries)
  /\ loopPc' = "looping"
  /\ UNCHANGED <<conns, runs>> /\ Keep

\* The connections when newConnection() has let go of the one before.
LetGo == [c \in DOMAIN conns |-> [conns[c] EXCEPT !.open = FALSE]]

\* Mutant: the request is sent on the first connection only.
ConnectedCallbackOnce ==
  conns' = Append(LetGo, [id |-> calls, response |-> FALSE, half |-> FALSE, eof |-> FALSE,
               request |-> IF calls \in {conns[c].id : c \in DOMAIN conns} THEN "lost"
                           ELSE "sent", open |-> TRUE])

\* connectedCallback() in the newConnection() of the client: what it sends is the
\* request of the last call.
ConnectedCallback ==
  conns' = Append(LetGo, [id |-> calls, request |-> "sent", response |-> FALSE,
                          half |-> FALSE, eof |-> FALSE, open |-> TRUE])

\* newConnection() assigns connection_ and conn_.  If they still held an open connection,
\* that one is destroyed with its channel registered; an event of it that comes later in
\* this iteration meets the destroyed Channel (EventLoop.cc:104), which may end the
\* program or do nothing.
HandleConnect ==
  /\ ~aborted /\ loopPc # "idle" /\ connectChannel = "pending"
  /\ LET before == {c \in DOMAIN conns : conns[c].open} IN
     \/ /\ ConnectedCallback /\ connectChannel' = "done" /\ stale' = (stale \/ before # {})
        /\ aborted' \in {FALSE, \E c \in before : conns[c].response \/ conns[c].eof}
        /\ UNCHANGED refusals
     \/ /\ refusals < MaxRefusals /\ refusals' = refusals + 1 /\ connectChannel' = "failed"
        /\ aborted' \in {FALSE, stale} /\ UNCHANGED <<conns, stale>>
  /\ UNCHANGED <<calls, loopPc, retries, outstandings, runs>> /\ Keep

RetryTimer ==
  /\ ~aborted /\ loopPc # "idle" /\ retries > 0
  /\ Connect("new", retries - 1)
  /\ UNCHANGED <<calls, loopPc, conns, outstandings, runs>> /\ Keep

\* doTask(), and the end of loop() after quit().
DoTask ==
  /\ ~aborted /\ loopPc # "idle"
  /\ connectChannel \in {"new", "done", "failed"} \/ loopPc = "quitting"
  /\ connectChannel' = CASE connectChannel \in {"new", "pending"} -> "pending"
                         [] connectChannel = "dead" -> "dead" [] OTHER -> "none"
  /\ retries' = IF connectChannel = "failed" THEN retries + 1 ELSE retries
  /\ loopPc' = IF loopPc = "quitting" THEN "idle" ELSE loopPc
  /\ UNCHANGED <<calls, conns, outstandings, runs, refusals, stale, aborted>> /\ Keep

\* The connection that may have an event in this iteration; one that newConnection() has
\* just made has none yet.  It is conn_ (RpcChannel.cc:87).
Polled(c) == ~aborted /\ loopPc # "idle" /\ conns[c].open /\ connectChannel # "done"

\* Mutant: outstandings_ is not erased.
OnResponseKeeps(c) ==
  /\ Polled(c) /\ conns[c].response
  /\ conns' = [conns EXCEPT ![c].response = FALSE, ![c].half = TRUE]
  /\ runs' = [runs EXCEPT ![conns[c].id] = @ + 1] /\ loopPc' = "quitting"
  /\ UNCHANGED <<calls, connectChannel, retries, outstandings, refusals, stale, aborted>>
  /\ Keep

\* The RESPONSE branch of onRpcMessage(): the call that waits for it is taken out of
\* outstandings_, done runs, disconnect() shuts the connection down, quit().
OnResponse(c) ==
  /\ Polled(c) /\ conns[c].response
  /\ outstandings' = outstandings \ {conns[c].id}
  /\ IF conns[c].id \in outstandings
     THEN /\ runs' = [runs EXCEPT ![conns[c].id] = @ + 1]
          /\ loopPc' = "quitting"
          /\ conns' = [conns EXCEPT ![c].response = FALSE, ![c].half = TRUE]
     ELSE /\ conns' = [conns EXCEPT ![c].response = FALSE]
          /\ UNCHANGED <<runs, loopPc>>
  /\ UNCHANGED <<calls, connectChannel, retries, refusals, stale, aborted>> /\ Keep

\* handleClose() at the end of the stream: removeConnection() forgets the connection,
\* and the connector starts again.
Closed(c) ==
  /\ Polled(c) /\ conns[c].eof /\ ~conns[c].response
  /\ conns' = [conns EXCEPT ![c].open = FALSE]
  /\ Connect("new", retries)
  /\ UNCHANGED <<calls, loopPc, outstandings, runs>> /\ Keep

------------------------------------------------------------------------------
\* The REQUEST branch of onRpcMessage() on the server: the service is called and its
\* done sends the response (doneCallback()), or an error is sent.
OnRequest(c) ==
  /\ conns[c].request = "sent" /\ ~conns[c].eof
  /\ conns' = [conns EXCEPT ![c].request = "handled", ![c].response = TRUE]
  /\ executed' = IF ErrorOf(conns[c].id) = "NO_ERROR"
                 THEN [executed EXCEPT ![conns[c].id] = @ + 1] ELSE executed
  /\ UNCHANGED <<calls, loopPc, connectChannel, retries, outstandings, runs, losses,
                 refusals, stale, aborted>>

\* The server closes a connection that the client has shut down, after what came on it.
ServerCloses(c) ==
  /\ conns[c].half /\ conns[c].request = "handled" /\ ~conns[c].eof
  /\ conns' = [conns EXCEPT ![c].eof = TRUE]
  /\ UNCHANGED <<calls, loopPc, connectChannel, retries, outstandings, runs, executed,
                 losses, refusals, stale, aborted>>

\* The server dies and comes back: what it has not handled or not sent is lost.
Lose(c) ==
  /\ losses < MaxLosses /\ ~conns[c].eof /\ losses' = losses + 1
  /\ \E sent \in {conns[c].response, FALSE} :
       conns' = [conns EXCEPT ![c].eof = TRUE, ![c].response = sent,
                   ![c].request = IF @ = "sent" THEN "lost" ELSE @]
  /\ UNCHANGED <<calls, loopPc, connectChannel, retries, outstandings, runs, executed,
                 refusals, stale, aborted>>

ClientStep == \/ HandleConnect \/ RetryTimer \/ DoTask
              \/ \E c \in DOMAIN conns : OnResponse(c) \/ Closed(c)
ServerStep == \E c \in DOMAIN conns : OnRequest(c) \/ ServerCloses(c)
RpcNext == CallMethod \/ ClientStep \/ ServerStep \/ \E c \in DOMAIN conns : Lose(c)

\* The loops of both sides run; nobody has to call, and no connection has to be lost.
RpcFairness == WF_rpcVars(ClientStep) /\ WF_rpcVars(ServerStep)
RpcSpec == RpcInit /\ [][RpcNext]_rpcVars /\ RpcFairness
------------------------------------------------------------------------------
\* done runs exactly once for a call that has returned, and not before the server has
\* executed the call or refused it, however often the request was sent again; the
\* server executes a call at most once for each connection that carried it.  During
\* the first call no assertion fails (Connector.cc:86, EventLoop.cc:150) and no destroyed
\* Channel is used.
CallsRight ==
  /\ \A id \in Call :
       /\ runs[id] <= 1
       /\ runs[id] = 1 => \E c \in DOMAIN conns :
                            conns[c].id = id /\ conns[c].request = "handled"
       /\ runs[id] = 1 /\ ErrorOf(id) = "NO_ERROR" => executed[id] >= 1
       /\ executed[id] <= Cardinality({c \in DOMAIN conns : conns[c].id = id})
       /\ id < calls \/ (id = calls /\ loopPc = "idle") => runs[id] = 1
  /\ aborted => calls > 1

\* The first CallMethod() returns: a request that a lost connection has swallowed is sent
\* again (RpcChannel.cc:70).  A later one returns too, unless what the call before it left
\* behind ends the program: the end of its connection while a new attempt is under way
\* (Connector.cc:86), or that connection destroyed by the new one (TCPClient.cc:93).
CallReturns ==
  /\ (loopPc # "idle" /\ calls = 1) ~> (loopPc = "idle")
  /\ (loopPc # "idle") ~> (loopPc = "idle" \/ aborted)
==============================================================================
