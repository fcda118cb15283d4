------------------------------ MODULE HTTPServer ------------------------------
(***************************************************************************)
(* HTTPServer with its HTTPCodec (http/): onMessage() takes lines off the  *)
(* receive buffer of a connection, fills in a request and answers it when  *)
(* the empty line has come.                                                *)
(*                                                                         *)
(* state_, how far the parser is, belongs to the codec, and all            *)
(* connections share it; the request is a local variable, copied from the  *)
(* context of the connection on each call.  One action is one iteration of *)
(* `while (isComplete)`; connections of one loop take turns by whole calls,*)
(* those of two loops by iterations.                                       *)
(*                                                                         *)
(* A buffer is a sequence of lines.  A line that has not arrived           *)
(* completely is not found by std::search and is left out.  Headers have   *)
(* the form "field: value".  Bodies of requests are not modelled: the      *)
(* codec has no code for them.                                             *)
(***************************************************************************)
EXTENDS Naturals, Sequences, SequencesExt

CONSTANTS Peer,         \* the connections
          PeerLoop,     \* the loop of each
          Script,       \* the requests each peer sends, in order
          Rules,        \* <<path, method>> with a callback (rules_)
          FileMode,     \* file_mode_
          HasNotFound   \* notFoundCb_ is set

ASSUME HTTPAssumption ==
  /\ \A c \in Peer : /\ Script[c] \in Seq({Script[c][i] : i \in DOMAIN Script[c]})
                     /\ \A i \in DOMAIN Script[c] : /\ Script[c][i].method # "unset"
                                                    /\ Script[c][i].close \in BOOLEAN
  /\ FileMode \in BOOLEAN /\ HasNotFound \in BOOLEAN

VARIABLES codecState,   \* state_
          recvBuffer,   \* recvBuffer_ of each connection
          arrived,      \* how many lines each peer has sent
          request,      \* the local request of a running onMessage()
          answers,      \* the responses sent on each connection
          closing,      \* "asked" when shutdown() was called, "shut" when it took effect
          whole,        \* so far, calls saw complete requests and did not overlap
          single        \* so far, each call saw one request

httpVars == <<codecState, recvBuffer, arrived, request, answers, closing, whole, single>>

NotRunning == [running |-> FALSE]
NoPath == "?"
\* What onConnection() stores as context: method_ is not initialized.
Blank == [running |-> TRUE, method |-> "unset", path |-> NoPath, close |-> FALSE]

\* The lines of one request.
Lines(r) == << [kind |-> "request", method |-> r.method, path |-> r.path],
               [kind |-> "header", close |-> r.close],
               [kind |-> "empty"] >>
LinesPerRequest == 3
\* ... and of all requests of a peer.
Stream(c) ==
  [j \in 1..Len(Script[c]) * LinesPerRequest |->
     Lines(Script[c][((j - 1) \div LinesPerRequest) + 1])[((j - 1) % LinesPerRequest) + 1]]

HTTPTypeOK ==
  /\ codecState \in {"kRequestLine", "kRequestHeaders", "kGotAll"}
  /\ \A c \in Peer : /\ arrived[c] \in 0..Len(Stream(c))
                     /\ IsSuffix(recvBuffer[c], SubSeq(Stream(c), 1, arrived[c]))
                     /\ request[c].running \in BOOLEAN
  /\ closing \in [Peer -> {"open", "asked", "shut"}] /\ whole \in BOOLEAN /\ single \in BOOLEAN

HTTPInit ==
  /\ codecState = "kRequestLine"
  /\ recvBuffer = [c \in Peer |-> <<>>] /\ arrived = [c \in Peer |-> 0]
  /\ request = [c \in Peer |-> NotRunning]
  /\ answers = [c \in Peer |-> <<>>] /\ closing = [c \in Peer |-> "open"]
  /\ whole = TRUE /\ single = TRUE

------------------------------------------------------------------------------
LoopFree(c) == \A d \in Peer : PeerLoop[d] = PeerLoop[c] => ~request[d].running

\* Mutant: what came goes before what was left.
ReceivedFirst(c, n) == SubSeq(Stream(c), arrived[c] + 1, arrived[c] + n) \o recvBuffer[c]

\* handleRecv() appends what came and calls onMessage(), which copies the context.
Received(c, n) == recvBuffer[c] \o SubSeq(Stream(c), arrived[c] + 1, arrived[c] + n)

Receive(c) ==
  /\ LoopFree(c)
  /\ \E n \in 1..Len(Stream(c)) - arrived[c] :
       /\ arrived' = [arrived EXCEPT ![c] = @ + n]
       /\ recvBuffer' = [recvBuffer EXCEPT ![c] = Received(c, n)]
       /\ whole' = (/\ whole /\ (arrived[c] + n) % LinesPerRequest = 0
                    /\ \A d \in Peer : ~request[d].running)
       /\ single' = (single /\ n <= LinesPerRequest)
  /\ request' = [request EXCEPT ![c] = Blank]
  /\ UNCHANGED <<codecState, answers, closing>>

\* parseRequestLine(): any other line than a request line parses as a POST of
\* something that is not a path.
ParseRequestLine(q, line) ==
  IF line.kind = "request"
  THEN [q EXCEPT !.method = line.method, !.path = line.path]
  ELSE [q EXCEPT !.method = "POST", !.path = NoPath]

RequestLine(c) ==
  /\ request[c].running /\ codecState = "kRequestLine" /\ recvBuffer[c] # <<>>
  /\ request' = [request EXCEPT ![c] = ParseRequestLine(@, Head(recvBuffer[c]))]
  /\ recvBuffer' = [recvBuffer EXCEPT ![c] = Tail(@)]
  /\ codecState' = "kRequestHeaders"
  /\ UNCHANGED <<arrived, answers, closing, whole, single>>

\* parseRequestHeader(): the empty line is the last one; a request line without a
\* colon is stored as a header nobody asks for.
ParseRequestHeader(q, line) ==
  IF line.kind = "header" THEN [q EXCEPT !.close = line.close] ELSE q

\* Mutant: the empty line ends the call.
RequestHeaderReturns(c) ==
  /\ request[c].running /\ codecState = "kRequestHeaders" /\ recvBuffer[c] # <<>>
  /\ request' = [request EXCEPT
       ![c] = IF Head(recvBuffer[c]).kind = "empty" THEN NotRunning
              ELSE ParseRequestHeader(@, Head(recvBuffer[c]))]
  /\ recvBuffer' = [recvBuffer EXCEPT ![c] = Tail(@)]
  /\ codecState' = IF Head(recvBuffer[c]).kind = "empty" THEN "kGotAll" ELSE codecState
  /\ UNCHANGED <<arrived, answers, closing, whole, single>>

RequestHeader(c) ==
  /\ request[c].running /\ codecState = "kRequestHeaders" /\ recvBuffer[c] # <<>>
  /\ request' = [request EXCEPT ![c] = ParseRequestHeader(@, Head(recvBuffer[c]))]
  /\ recvBuffer' = [recvBuffer EXCEPT ![c] = Tail(@)]
  /\ codecState' = IF Head(recvBuffer[c]).kind = "empty" THEN "kGotAll" ELSE codecState
  /\ UNCHANGED <<arrived, answers, closing, whole, single>>

\* The end of the buffer ends the call.
Incomplete(c) ==
  /\ request[c].running /\ codecState # "kGotAll" /\ recvBuffer[c] = <<>>
  /\ request' = [request EXCEPT ![c] = NotRunning]
  /\ UNCHANGED <<codecState, recvBuffer, arrived, answers, closing, whole, single>>

\* get_file_list(): the directory or file, or an error while it is read.
FileList(path) == { [status |-> "OK", body |-> <<"file", path>>],
                    [status |-> "SERVER_ERROR", body |-> <<"file", path>>] }

\* onRequest().  A page that a rule produces goes out as NOT_FOUND, and with a
\* callback for missing pages status_ is never initialized.
Responses(method, path, exists) ==
  IF <<path, method>> \in Rules THEN {[status |-> "NOT_FOUND", body |-> <<"page", path>>]}
  ELSE IF FileMode /\ exists /\ path # NoPath THEN FileList(path)
  ELSE IF HasNotFound
       THEN {[status |-> "unset", body |-> <<"missing">>]}
       ELSE {[status |-> "NOT_FOUND", body |-> <<"missing">>]}

\* method_ of a request whose first line was lost is what the memory held.
Methods(q) == IF q.method = "unset" THEN {"GET", "POST"} ELSE {q.method}

Asked(c) == [closing EXCEPT ![c] = IF request[c].close THEN "asked" ELSE @]

\* Mutant: the parser is not reset.
RespondKeepsState(c) ==
  /\ request[c].running /\ codecState = "kGotAll" /\ closing[c] # "shut"
  /\ \E method \in Methods(request[c]), exists \in BOOLEAN :
       \E response \in Responses(method, request[c].path, exists) :
         answers' = [answers EXCEPT ![c] = Append(@, response)]
  /\ closing' = Asked(c)
  /\ request' = [request EXCEPT ![c] = NotRunning]
  /\ codecState' = "kRequestHeaders"
  /\ UNCHANGED <<recvBuffer, arrived, whole, single>>

\* kGotAll: respond, shut down if asked to, and return: what follows in the buffer
\* waits for the next bytes.  A shutdown waits for buffered bytes (TCPConnection.cc:231),
\* and until then send() adds to them; afterwards it reaches nobody.
Respond(c) ==
  /\ request[c].running /\ codecState = "kGotAll"
  /\ \/ /\ closing[c] # "shut" /\ closing' = Asked(c)
        /\ \E method \in Methods(request[c]), exists \in BOOLEAN :
             \E response \in Responses(method, request[c].path, exists) :
               answers' = [answers EXCEPT ![c] = Append(@, response)]
     \/ /\ closing[c] # "open" /\ closing' = [closing EXCEPT ![c] = "shut"]
        /\ UNCHANGED answers
  /\ request' = [request EXCEPT ![c] = NotRunning]
  /\ codecState' = "kRequestLine"
  /\ UNCHANGED <<recvBuffer, arrived, whole, single>>

OnMessage(c) == RequestLine(c) \/ RequestHeader(c) \/ Incomplete(c) \/ Respond(c)

HTTPNext == \E c \in Peer : Receive(c) \/ OnMessage(c)
HTTPSpec == HTTPInit /\ [][HTTPNext]_httpVars
------------------------------------------------------------------------------
\* The pages that answer a request, whatever the parser does.
Pages(r) ==
  IF <<r.path, r.method>> \in Rules THEN {<<"page", r.path>>}
  ELSE {<<"missing">>} \cup (IF FileMode THEN {<<"file", r.path>>} ELSE {})

\* As long as every call of onMessage() has found complete requests and no two calls
\* have overlapped, each connection gets the answers to its own requests, in their
\* order and none twice, although all of them share state_ (HTTPCodec.cc:53-83).
RightAnswers ==
  whole => \A c \in Peer : \A i \in DOMAIN answers[c] :
             answers[c][i].body \in Pages(Script[c][i])

\* If besides each call found one request, then it has been answered when the call
\* is over: nothing waits for bytes that never come (HTTPCodec.cc:82).
AllAnswered ==
  whole /\ single =>
    \A c \in Peer : ~request[c].running =>
      \/ closing[c] = "shut"
      \/ Len(answers[c]) * LinesPerRequest = arrived[c]
==============================================================================
