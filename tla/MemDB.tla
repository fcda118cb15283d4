-------------------------------- MODULE MemDB --------------------------------
(***************************************************************************)
(* The in-memory database of the examples (memdb.cc): a TCPServer with one *)
(* loop whose onMessage() parses commands and executes them on db_.        *)
(*                                                                         *)
(* A command is a sequence of words and travels as lines: how many words,  *)
(* and for each word its length and the word.  The parser keeps a Context  *)
(* for each connection across the pieces in which lines come.  A client is *)
(* orderly while it waits for each answer and sends no empty command, no   *)
(* empty word and no GET without a key; the code serves other clients in   *)
(* its own way.                                                            *)
(***************************************************************************)
EXTENDS Integers, Sequences, SequencesExt, FiniteSets

CONSTANTS Client,
          Commands,  \* the commands each client sends, in order
          NoWord,    \* the empty word
          MaxReplies \* bound: replies to a client that sends parts of lines

VARIABLES memBuffer,  \* the complete lines in recvBuffer_ of each connection
          sentLines,  \* how many lines each client has sent
          context,    \* the Context of each connection
          db,         \* db_
          replies,    \* the replies to each client
          order,      \* the clients in the order of their replies
          serving,    \* the loop runs
          orderly     \* the clients that are orderly so far

memVars == <<memBuffer, sentLines, context, db, replies, order, serving, orderly>>

CmdLines(cmd) ==
  [j \in 1..2 * Len(cmd) + 1 |->
     IF j = 1 THEN [kind |-> "*", n |-> Len(cmd)]
     ELSE LET word == cmd[j \div 2]
          IN  IF j % 2 = 0 THEN [kind |-> "$", n |-> IF word = NoWord THEN 0 ELSE 1]
              ELSE [kind |-> "word", word |-> word]]
AllLines(c) == FlattenSeq([i \in DOMAIN Commands[c] |-> CmdLines(Commands[c][i])])

\* The lines of the first n commands.
LinesUpTo(c, n) ==
  Len(FlattenSeq([i \in 1..n |-> CmdLines(Commands[c][i])]))

NewContext == [state |-> 0, count |-> 0, length |-> 0, cmds |-> <<>>]
Word == {NoWord} \cup UNION {UNION {ToSet(cmd) : cmd \in ToSet(Commands[c])} : c \in Client}

ASSUME MemAssumption == \A c \in Client : Commands[c] \in Seq(Seq(Word))

MemTypeOK ==
  /\ \A c \in Client : /\ sentLines[c] \in 0..Len(AllLines(c))
                       /\ IsSuffix(memBuffer[c], SubSeq(AllLines(c), 1, sentLines[c]))
                       /\ context[c].state \in 0..2 /\ context[c].count \in Int
                       /\ context[c].cmds \in Seq(Word)
  /\ DOMAIN db \subseteq Word /\ \A k \in DOMAIN db : db[k] \in Word
  /\ serving \in BOOLEAN /\ orderly \subseteq Client
  /\ \A c \in Client : Len(replies[c]) = Len(SelectSeq(order, LAMBDA d : d = c))

MemInit ==
  /\ memBuffer = [c \in Client |-> <<>>] /\ sentLines = [c \in Client |-> 0]
  /\ context = [c \in Client |-> NewContext]
  /\ db = [k \in {} |-> NoWord] /\ replies = [c \in Client |-> <<>>] /\ order = <<>>
  /\ serving = TRUE /\ orderly = Client
------------------------------------------------------------------------------
\* One line in parse().  A line that is not as long as announced is left in the buffer
\* and ends the call (`bad`); lines that mean nothing are skipped.
ParseLine(p, line) ==
  LET ctx == [p.ctx EXCEPT !.state = 1]
      array == ctx.count = 0 /\ line.kind = "*"
      bulk == ~array /\ ctx.length = 0 /\ line.kind = "$"
      word == ~array /\ ~bulk /\ ctx.length > 0
      fits == line.kind = "word" /\ line.word # NoWord
      use == CASE array -> [ctx EXCEPT !.count = line.n]
               [] bulk -> [ctx EXCEPT !.length = line.n]
               [] word -> [state |-> IF ctx.count = 1 THEN 2 ELSE 1, count |-> ctx.count - 1,
                           length |-> 0, cmds |-> Append(ctx.cmds, line.word)]
               [] OTHER -> ctx
  IN  IF p.bad THEN p
      ELSE IF word /\ ~fits THEN [ctx |-> ctx, bad |-> TRUE, used |-> p.used]
      ELSE [ctx |-> use, bad |-> FALSE, used |-> p.used + 1]

Parsed(ctx, lines) ==
  LET p[i \in 0..Len(lines)] == IF i = 0 THEN [ctx |-> ctx, bad |-> FALSE, used |-> 0]
                                ELSE ParseLine(p[i - 1], lines[i])
  IN  p[Len(lines)]

Without(store, keys) == [k \in DOMAIN store \ keys |-> store[k]]
With(store, key, value) ==
  [k \in DOMAIN store \cup {key} |-> IF k = key THEN value ELSE store[k]]

\* What a complete command does: the reply and the new db_.
Execute(cmds, store) ==
  LET keys == {cmds[i] : i \in 2..Len(cmds)} \cap DOMAIN store
  IN  CASE cmds[1] = "COMMAND" -> [reply |-> <<"commands">>, db |-> store]
        [] cmds[1] = "GET" /\ Len(cmds) < 2 -> [reply |-> <<"error">>, db |-> store]
        [] cmds[1] = "GET" /\ Len(cmds) >= 2 ->
             [reply |-> IF cmds[2] \in DOMAIN store THEN <<"value", store[cmds[2]]>>
                        ELSE <<"nil">>, db |-> store]
        [] cmds[1] = "SET" /\ Len(cmds) < 3 -> [reply |-> <<"error">>, db |-> store]
        [] cmds[1] = "SET" /\ Len(cmds) >= 3 ->
             [reply |-> <<"ok">>, db |-> With(store, cmds[2], cmds[3])]
        [] cmds[1] = "DEL" -> [reply |-> <<"count", Cardinality(keys)>>,
                               db |-> Without(store, keys)]
        [] OTHER -> [reply |-> <<"error">>, db |-> store]

\* Mutant: the words of a command stay in the context.
AfterCommandKeepsWords(ctx) ==
  IF ctx.cmds[1] = "GET" /\ Len(ctx.cmds) < 2 THEN ctx ELSE [ctx EXCEPT !.state = 0]

\* A GET without a key returns before the context is reset.
AfterCommand(ctx) ==
  IF ctx.cmds[1] = "GET" /\ Len(ctx.cmds) < 2 THEN ctx
  ELSE [ctx EXCEPT !.cmds = <<>>, !.state = 0]

\* handleRecv() with the next n lines, or with a part of one (n = 0).
MemOnMessage(c, n) ==
  LET lines == memBuffer[c] \o SubSeq(AllLines(c), sentLines[c] + 1, sentLines[c] + n)
      p == Parsed(context[c], lines)
      x == Execute(p.ctx.cmds, db)
  IN  /\ memBuffer' = [memBuffer EXCEPT ![c] = SubSeq(lines, p.used + 1, Len(lines))]
      /\ IF p.ctx.state = 2
         THEN /\ context' = [context EXCEPT ![c] = AfterCommand(p.ctx)]
              /\ db' = x.db /\ replies' = [replies EXCEPT ![c] = Append(@, x.reply)]
              /\ order' = Append(order, c)
         ELSE /\ context' = [context EXCEPT ![c] = p.ctx]
              /\ UNCHANGED <<db, replies, order>>

\* What the client has sent is no more than the command after its last answer.
Waits(c, n) ==
  LET next == Len(replies[c]) + 1
  IN  /\ next <= Len(Commands[c]) /\ sentLines[c] + n <= LinesUpTo(c, next)
      /\ NoWord \notin ToSet(Commands[c][next]) /\ Commands[c][next] \notin {<<>>, <<"GET">>}

ClientSends(c) ==
  /\ serving
  /\ \E n \in 0..Len(AllLines(c)) - sentLines[c] :
       /\ n = 0 => sentLines[c] < Len(AllLines(c)) /\ Len(replies[c]) < MaxReplies
       /\ MemOnMessage(c, n)
       /\ sentLines' = [sentLines EXCEPT ![c] = @ + n]
       /\ orderly' = IF n = 0 \/ Waits(c, n) THEN orderly ELSE orderly \ {c}
  /\ UNCHANGED serving

\* onConnection(): any connection that ends stops the server.
Disconnected(c) ==
  /\ serving /\ serving' = FALSE
  /\ UNCHANGED <<memBuffer, sentLines, context, db, replies, order, orderly>>

MemNext == \E c \in Client : ClientSends(c) \/ Disconnected(c)
MemSpec == MemInit /\ [][MemNext]_memVars
------------------------------------------------------------------------------
\* Which command of its client the i-th reply answers, if the replies answer the commands.
Nth(i) == Cardinality({j \in 1..i : order[j] = order[i]})

\* The stores after each reply.
Store ==
  LET s[n \in 0..Len(order)] == IF n = 0 THEN [k \in {} |-> NoWord]
                                ELSE Execute(Commands[order[n]][Nth(n)], s[n - 1]).db
  IN  s

\* Clients that wait for each answer see one map: each gets one answer to each command,
\* the one that the commands answered before, of all clients, lead to, whatever pieces
\* the commands come in (memdb.cc:44-123).
ServesAMap ==
  orderly = Client =>
    /\ db = Store[Len(order)]
    /\ \A i \in DOMAIN order :
         replies[order[i]][Nth(i)] = Execute(Commands[order[i]][Nth(i)], Store[i - 1]).reply
    /\ \A c \in Client :
         /\ sentLines[c] = LinesUpTo(c, Len(replies[c])) =>
              context[c] = NewContext /\ memBuffer[c] = <<>>
         /\ Len(replies[c]) < Len(Commands[c]) => sentLines[c] < LinesUpTo(c, Len(replies[c]) + 1)
==============================================================================
