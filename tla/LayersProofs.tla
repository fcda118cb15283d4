----------------------------- MODULE LayersProofs -----------------------------
(***************************************************************************)
(* Proofs about the layers above the connections and loops.  They share no *)
(* state; each section is about one of them.                               *)
(***************************************************************************)
EXTENDS RpcChannel, Timer, HTTPServer, Acceptor, FiniteSetTheorems, SequenceTheorems,
        WellFoundedInduction, TLAPS

(***************************************************************************)
(* RpcChannel.  A call is outstanding while CallMethod() loops, and at no  *)
(* other time; done has run for the calls before it.                       *)
(***************************************************************************)
Connection == [id : Call, request : {"sent", "handled", "lost"}, response : BOOLEAN,
               half : BOOLEAN, eof : BOOLEAN, open : BOOLEAN]

CallInv ==
    /\ calls = 0 => loopPc = "idle"
    /\ outstandings = IF loopPc = "looping" THEN {calls} ELSE {}
    /\ \A id \in Call : runs[id] = IF id <= calls /\ id \notin outstandings THEN 1 ELSE 0

\* A response was sent for a request that was handled, and that executed the call if
\* nothing spoke against it.
Handled(id) == {c \in DOMAIN conns : conns[c].id = id /\ conns[c].request = "handled"}

AnswerInv ==
    /\ \A c \in DOMAIN conns : conns[c].response => conns[c].request = "handled"
    /\ \A id \in Call : runs[id] = 1 => Handled(id) # {}
    /\ \A id \in Call : ErrorOf(id) = "NO_ERROR" /\ Handled(id) # {} => executed[id] >= 1
    /\ \A id \in Call : executed[id] <= Cardinality(Handled(id))

\* The pending timers were set by attempts that failed.
RetryInv == retries + (IF connectChannel = "failed" THEN 1 ELSE 0) <= refusals

\* Until the second call the client has one timer, one attempt or one connection, the
\* last, and has destroyed none before its end.
FirstCall ==
    /\ calls = 0 => /\ conns = <<>> /\ retries = 0
                    /\ connectChannel = "none" /\ ~stale /\ ~aborted
    /\ calls = 1 => /\ ~stale /\ ~aborted
                    /\ \A c \in DOMAIN conns : conns[c].open => c = Len(conns)
                    /\ retries <= 1
                    /\ retries = 1 => connectChannel = "none"
                    /\ retries = 1 \/ connectChannel \in {"new", "pending", "failed"} =>
                         \A c \in DOMAIN conns : ~conns[c].open
                    /\ connectChannel # "dead"

RpcInv == RpcTypeOK /\ CallInv /\ AnswerInv /\ RetryInv /\ FirstCall

\* The ids of calls are the numbers from one on.
LEMMA CallIsNat ==
    /\ Cardinality(Call) \in Nat
    /\ Call = 1..Cardinality(Call)
    /\ Call \subseteq Nat
<1>1. PICK n \in Nat : Call = 1..n
  <2>1. Len(CalledMethod) \in Nat /\ DOMAIN CalledMethod = 1..Len(CalledMethod)
    BY RpcAssumption DEF RpcAssumption
  <2> QED
    BY <2>1 DEF Call
<1>2. Cardinality(1..n) = n
  BY FS_Interval
<1> QED
  BY <1>1, <1>2

LEMMA RpcInitInv == ASSUME RpcInit PROVE RpcInv
<1> USE DEF RpcInit
<1>1. RpcTypeOK
  <2>1. conns \in Seq(Connection)
    OBVIOUS
  <2>2. retries \in 0..MaxRefusals /\ losses \in 0..MaxLosses /\ refusals \in 0..MaxRefusals
    BY RpcAssumption DEF RpcAssumption
  <2>3. calls \in 0..Cardinality(Call)
    BY CallIsNat
  <2> QED
    BY <2>1, <2>2, <2>3 DEF RpcTypeOK, Connection
<1>2. DOMAIN conns = {}
  OBVIOUS
<1>3. CallInv
  BY CallIsNat DEF CallInv
<1>4. \A id \in Call : Handled(id) = {}
  BY <1>2 DEF Handled
<1>5. AnswerInv
  <2>1. \A id \in Call : runs[id] = 0 /\ executed[id] = 0
    OBVIOUS
  <2>2. \A id \in Call : Cardinality(Handled(id)) = 0
    BY <1>4, FS_EmptySet
  <2> QED
    BY <1>2, <1>4, <2>1, <2>2 DEF AnswerInv
<1>6. RetryInv /\ FirstCall
  BY DEF RetryInv, FirstCall
<1> QED
  BY <1>1, <1>3, <1>5, <1>6 DEF RpcInv

\* The connections are a sequence of records.
LEMMA ConnsType ==
    ASSUME RpcTypeOK
    PROVE  /\ conns \in Seq(Connection)
           /\ DOMAIN conns = 1..Len(conns) /\ Len(conns) \in Nat
           /\ \A c \in DOMAIN conns : conns[c] \in Connection
<1>1. conns \in Seq(Connection)
  BY DEF RpcTypeOK, Connection
<1> QED
  BY <1>1

LEMMA FunctionIsSeq ==
    ASSUME NEW S, NEW n \in Nat, NEW f \in [1..n -> S]
    PROVE  f \in Seq(S) /\ Len(f) = n
OBVIOUS

LEMMA HandledFinite ==
    ASSUME RpcTypeOK, NEW id
    PROVE  IsFiniteSet(Handled(id)) /\ Cardinality(Handled(id)) \in Nat
<1>1. IsFiniteSet(1..Len(conns))
  BY ConnsType, FS_Interval
<1>2. Handled(id) \subseteq 1..Len(conns)
  BY ConnsType DEF Handled
<1> QED
  BY <1>1, <1>2, FS_Subset, FS_CardinalityType

\* What Connector::connect() does to the attempts.
LEMMA ConnectStep ==
    ASSUME RpcTypeOK, RetryInv, NEW channel \in {"new", "pending"}, NEW left \in Nat,
           left <= retries, Connect(channel, left)
    PROVE  /\ connectChannel' \in {"none", "new", "pending", "done", "failed", "dead"}
           /\ retries' \in 0..MaxRefusals /\ refusals' \in 0..MaxRefusals
           /\ stale' \in BOOLEAN /\ aborted' \in BOOLEAN
           /\ RetryInv'
<1>1. /\ MaxRefusals \in Nat
      /\ connectChannel \in {"none", "new", "pending", "done", "failed", "dead"}
      /\ retries \in 0..MaxRefusals /\ refusals \in 0..MaxRefusals
      /\ stale \in BOOLEAN
  BY RpcAssumption DEF RpcAssumption, RpcTypeOK
<1>2. CASE connectChannel = "none" /\ connectChannel' = channel /\ retries' = left
           /\ aborted' \in {FALSE, stale} /\ UNCHANGED <<refusals, stale>>
  <2>1. stale' \in BOOLEAN /\ aborted' \in BOOLEAN
    BY <1>1, <1>2, Zenon
  <2>2. RetryInv'
    BY <1>1, <1>2 DEF RetryInv
  <2> QED
    BY <1>1, <1>2, <2>1, <2>2
<1>3. CASE aborted' = TRUE /\ retries' = left
           /\ UNCHANGED <<connectChannel, refusals, stale>>
  BY <1>1, <1>3 DEF RetryInv
<1>4. CASE /\ refusals < MaxRefusals /\ refusals' = refusals + 1 /\ retries' = left + 1
           /\ connectChannel' = IF connectChannel \in {"new", "pending"} THEN "dead"
                                ELSE connectChannel
           /\ stale' = (stale \/ connectChannel \in {"new", "pending"})
           /\ aborted' \in {FALSE, stale'}
  <2>1. RetryInv'
    BY <1>1, <1>4 DEF RetryInv
  <2>2. retries' \in 0..MaxRefusals
    BY <1>1, <1>4 DEF RetryInv
  <2>3. stale' \in BOOLEAN /\ aborted' \in BOOLEAN
    BY <1>4, Zenon
  <2> QED
    BY <1>1, <1>4, <2>1, <2>2, <2>3
<1> QED
  BY <1>2, <1>3, <1>4 DEF Connect

\* With no attempt under way and nothing destroyed, connect() does no harm.
LEMMA FirstConnect ==
    ASSUME RpcTypeOK, NEW channel \in {"new", "pending"}, NEW left \in Nat,
           connectChannel = "none", ~stale, ~aborted, Connect(channel, left)
    PROVE  /\ ~stale' /\ ~aborted'
           /\ \/ connectChannel' = channel /\ retries' = left
              \/ connectChannel' = "none" /\ retries' = left + 1
<1>1. CASE connectChannel' = channel /\ retries' = left
           /\ aborted' \in {FALSE, stale} /\ stale' = stale
  <2>1. ~aborted'
    BY <1>1, Zenon
  <2> QED
    BY <1>1, <2>1
<1>2. CASE connectChannel' = "none" /\ retries' = left + 1
           /\ stale' = (stale \/ connectChannel \in {"new", "pending"})
           /\ aborted' \in {FALSE, stale'}
  <2>1. connectChannel \notin {"new", "pending"}
    OBVIOUS
  <2>2. ~stale'
    BY <1>2, <2>1, Zenon
  <2>3. ~aborted'
    BY <1>2, <2>2, Zenon
  <2> QED
    BY <1>2, <2>2, <2>3
<1> QED
  BY <1>1, <1>2 DEF Connect

LEMMA CallMethodStep == ASSUME RpcInv, CallMethod PROVE RpcInv'
<1> USE DEF RpcInv, CallMethod, Keep
<1>1. conns' = conns /\ runs' = runs /\ executed' = executed /\ losses' = losses
  OBVIOUS
<1>3. retries \in Nat /\ calls \in Nat
  BY CallIsNat DEF RpcTypeOK
<1>4. /\ connectChannel' \in {"none", "new", "pending", "done", "failed", "dead"}
      /\ retries' \in 0..MaxRefusals /\ refusals' \in 0..MaxRefusals
      /\ stale' \in BOOLEAN /\ aborted' \in BOOLEAN
      /\ RetryInv'
  BY <1>3, ConnectStep
<1>5. outstandings = {} /\ outstandings' = {calls + 1} /\ calls + 1 \in Call
  BY DEF CallInv
<1>6. RpcTypeOK'
  BY <1>1, <1>3, <1>4, <1>5, CallIsNat DEF RpcTypeOK
<1>7. CallInv'
  BY <1>1, <1>3, <1>5, CallIsNat DEF CallInv
<1>8. AnswerInv'
  BY <1>1 DEF AnswerInv, Handled
<1>9. FirstCall'
  <2> SUFFICES ASSUME calls = 0
               PROVE  FirstCall'
    BY <1>3 DEF FirstCall
  <2>1. conns' = <<>> /\ retries = 0 /\ connectChannel = "none" /\ ~stale /\ ~aborted
    BY <1>1 DEF FirstCall
  <2>2. /\ ~stale' /\ ~aborted'
        /\ \/ connectChannel' = "pending" /\ retries' = 0
           \/ connectChannel' = "none" /\ retries' = 1
    BY <1>3, <2>1, FirstConnect
  <2>3. DOMAIN conns' = {}
    BY <2>1
  <2> QED
    BY <1>3, <2>2, <2>3 DEF FirstCall
<1> QED
  BY <1>4, <1>6, <1>7, <1>8, <1>9

LEMMA HandleConnectStep == ASSUME RpcInv, HandleConnect PROVE RpcInv'
<1> USE DEF RpcInv, Keep
<1> DEFINE before == {c \in DOMAIN conns : conns[c].open}
<1>1. /\ MaxRefusals \in Nat /\ retries \in 0..MaxRefusals /\ refusals \in 0..MaxRefusals
      /\ calls \in 0..Cardinality(Call) /\ Cardinality(Call) \in Nat
  BY CallIsNat, RpcAssumption DEF RpcAssumption, RpcTypeOK
<1>2. /\ connectChannel = "pending" /\ loopPc # "idle"
      /\ UNCHANGED <<calls, loopPc, retries, outstandings, runs, losses, executed>>
  BY DEF HandleConnect
<1>3. calls # 0 /\ calls \in Call
  BY CallIsNat, <1>1, <1>2 DEF CallInv
<1>4. calls = 1 => before = {}
  BY <1>2 DEF FirstCall
<1>5. CASE /\ ConnectedCallback /\ connectChannel' = "done"
           /\ stale' = (stale \/ before # {})
           /\ aborted' \in {FALSE, \E c \in before : conns[c].response \/ conns[c].eof}
           /\ UNCHANGED refusals
  <2> DEFINE new == [id |-> calls, request |-> "sent", response |-> FALSE,
                     half |-> FALSE, eof |-> FALSE, open |-> TRUE]
  <2>1. new \in Connection
    BY <1>3 DEF Connection
  <2>2. /\ LetGo \in Seq(Connection) /\ Len(LetGo) = Len(conns)
        /\ DOMAIN LetGo = DOMAIN conns
        /\ \A c \in DOMAIN conns : LetGo[c] = [conns[c] EXCEPT !.open = FALSE]
    <3>1. \A c \in 1..Len(conns) : [conns[c] EXCEPT !.open = FALSE] \in Connection
      BY ConnsType DEF Connection
    <3>2. LetGo \in [1..Len(conns) -> Connection]
      BY <3>1, ConnsType DEF LetGo
    <3>3. LetGo \in Seq(Connection) /\ Len(LetGo) = Len(conns)
      BY <3>2, ConnsType, FunctionIsSeq
    <3> QED
      BY <3>3 DEF LetGo
  <2>3. conns' = Append(LetGo, new)
    BY <1>5 DEF ConnectedCallback
  <2> HIDE DEF new
  <2>4. /\ conns' \in Seq(Connection) /\ Len(conns') = Len(conns) + 1
        /\ DOMAIN conns' = 1..Len(conns) + 1
        /\ \A c \in DOMAIN conns : conns'[c] = [conns[c] EXCEPT !.open = FALSE]
        /\ conns'[Len(conns) + 1] = new
    BY <2>1, <2>2, <2>3, ConnsType, AppendProperties
  <2>5. \A c \in DOMAIN conns :
          /\ conns'[c].id = conns[c].id /\ conns'[c].request = conns[c].request
          /\ conns'[c].response = conns[c].response /\ ~conns'[c].open
    BY <2>4, ConnsType DEF Connection
  <2>6. new.request = "sent" /\ new.response = FALSE
    BY DEF new
  <2>7. stale' \in BOOLEAN /\ aborted' \in BOOLEAN
    BY <1>5, Zenon
  <2>8. RpcTypeOK'
    BY <1>2, <1>5, <2>4, <2>7 DEF RpcTypeOK, Connection
  <2>9. CallInv'
    BY <1>2 DEF CallInv
  <2>10. \A id : Handled(id)' = Handled(id)
    <3>1. DOMAIN conns' = DOMAIN conns \cup {Len(conns) + 1}
      BY <2>4, ConnsType
    <3> QED
      BY <2>4, <2>5, <2>6, <3>1 DEF Handled
  <2>11. AnswerInv'
    BY <1>2, <2>4, <2>5, <2>6, <2>10, ConnsType DEF AnswerInv
  <2>12. RetryInv'
    BY <1>1, <1>2, <1>5 DEF RetryInv
  <2>13. FirstCall'
    <3> SUFFICES ASSUME calls = 1
                 PROVE  FirstCall'
      BY <1>2, <1>3 DEF FirstCall
    <3>1. before = {} /\ ~stale /\ ~aborted /\ retries <= 1 /\ retries # 1
      BY <1>2, <1>4 DEF FirstCall
    <3>2. ~stale' /\ ~aborted'
      BY <1>5, <3>1, Zenon
    <3>3. \A c \in DOMAIN conns' : conns'[c].open => c = Len(conns')
      BY <2>4, <2>5, ConnsType
    <3> QED
      BY <1>2, <1>5, <3>1, <3>2, <3>3 DEF FirstCall
  <2> QED
    BY <2>8, <2>9, <2>11, <2>12, <2>13
<1>6. CASE /\ refusals < MaxRefusals /\ refusals' = refusals + 1
           /\ connectChannel' = "failed" /\ aborted' \in {FALSE, stale}
           /\ UNCHANGED <<conns, stale>>
  <2>6. stale \in BOOLEAN
    BY DEF RpcTypeOK
  <2>7. aborted' \in BOOLEAN
    BY <1>6, <2>6, Zenon
  <2>1. RpcTypeOK'
    BY <1>1, <1>2, <1>6, <2>7 DEF RpcTypeOK
  <2>2. CallInv'
    BY <1>2 DEF CallInv
  <2>3. AnswerInv'
    BY <1>2, <1>6 DEF AnswerInv, Handled
  <2>4. RetryInv'
    BY <1>1, <1>2, <1>6 DEF RetryInv
  <2>5. FirstCall'
    <3>1. ~stale => ~aborted'
      BY <1>6, Zenon
    <3> QED
      BY <1>2, <1>3, <1>6, <3>1 DEF FirstCall
  <2> QED
    BY <2>1, <2>2, <2>3, <2>4, <2>5
<1> HIDE DEF before
<1>7. before = {c \in DOMAIN conns : conns[c].open}
  BY DEF before
<1> QED
  BY <1>5, <1>6, <1>7 DEF HandleConnect

LEMMA RetryTimerStep == ASSUME RpcInv, RetryTimer PROVE RpcInv'
<1> USE DEF RpcInv, RetryTimer, Keep
<1>1. /\ MaxRefusals \in Nat /\ retries \in 0..MaxRefusals /\ refusals \in 0..MaxRefusals
      /\ calls \in Nat /\ retries - 1 \in Nat
  BY CallIsNat, RpcAssumption DEF RpcAssumption, RpcTypeOK
<1>2. /\ connectChannel' \in {"none", "new", "pending", "done", "failed", "dead"}
      /\ retries' \in 0..MaxRefusals /\ refusals' \in 0..MaxRefusals
      /\ stale' \in BOOLEAN /\ aborted' \in BOOLEAN
      /\ RetryInv'
  BY <1>1, ConnectStep
<1>3. RpcTypeOK'
  BY <1>2 DEF RpcTypeOK
<1>4. CallInv' /\ AnswerInv'
  BY DEF CallInv, AnswerInv, Handled
<1>5. calls # 0
  BY DEF CallInv
<1>6. FirstCall'
  <2> SUFFICES ASSUME calls = 1
               PROVE  FirstCall'
    BY <1>5 DEF FirstCall
  <2>1. /\ retries - 1 = 0 /\ connectChannel = "none" /\ ~stale /\ ~aborted
        /\ \A c \in DOMAIN conns : ~conns[c].open
    BY <1>1 DEF FirstCall
  <2>2. /\ ~stale' /\ ~aborted'
        /\ \/ connectChannel' = "new" /\ retries' = 0
           \/ connectChannel' = "none" /\ retries' = 1
    BY <2>1, FirstConnect
  <2> QED
    BY <2>1, <2>2 DEF FirstCall
<1> QED
  BY <1>2, <1>3, <1>4, <1>6

LEMMA DoTaskStep == ASSUME RpcInv, DoTask PROVE RpcInv'
<1> USE DEF RpcInv, DoTask, Keep
<1>1. /\ MaxRefusals \in Nat /\ retries \in 0..MaxRefusals /\ refusals \in 0..MaxRefusals
      /\ calls \in Nat
  BY CallIsNat, RpcAssumption DEF RpcAssumption, RpcTypeOK
<1>2. RetryInv' /\ retries' \in 0..MaxRefusals
  BY <1>1 DEF RetryInv
<1>3. RpcTypeOK'
  BY <1>2 DEF RpcTypeOK
<1>4. CallInv' /\ AnswerInv'
  BY DEF CallInv, AnswerInv, Handled
<1>5. calls # 0
  BY DEF CallInv
<1>6. FirstCall'
  BY <1>1, <1>5 DEF FirstCall
<1> QED
  BY <1>2, <1>3, <1>4, <1>6

\* A step that changes only flags of the connections, in a way that keeps their ids
\* and what was handled.
LEMMA FlagsKeep ==
    ASSUME RpcTypeOK, DOMAIN conns' = DOMAIN conns,
           \A c \in DOMAIN conns : /\ conns'[c].id = conns[c].id
                                   /\ conns'[c].request = "handled"
                                        <=> conns[c].request = "handled"
    PROVE  \A id : Handled(id)' = Handled(id)
BY DEF Handled

LEMMA ResponseStep == ASSUME RpcInv, NEW c \in DOMAIN conns, OnResponse(c) PROVE RpcInv'
<1> USE DEF RpcInv
<1>1. /\ calls \in Nat /\ calls # 0 /\ conns[c] \in Connection /\ conns[c].open
      /\ conns[c].id \in Call /\ Call \subseteq Nat
  <2>1. conns[c] \in Connection /\ conns[c].id \in Call
    BY ConnsType DEF Connection
  <2>5. conns[c].open /\ loopPc # "idle"
    BY DEF OnResponse, Polled
  <2>2. calls \in 0..Cardinality(Call)
    BY DEF RpcTypeOK
  <2>3. calls \in Nat
    BY <2>2, CallIsNat
  <2>4. Call \subseteq Nat
    BY CallIsNat
  <2> QED
    BY <2>1, <2>3, <2>4, <2>5 DEF CallInv
<1>3. CASE conns[c].id \in outstandings
  <2>1. loopPc = "looping" /\ conns[c].id = calls /\ outstandings = {calls}
        /\ outstandings' = {} /\ loopPc' = "quitting"
        /\ runs' = [runs EXCEPT ![calls] = @ + 1]
    BY <1>3 DEF CallInv, OnResponse
  <2>2. conns' = [conns EXCEPT ![c].response = FALSE, ![c].half = TRUE]
    BY <1>3 DEF OnResponse
  <2>11. UNCHANGED <<calls, connectChannel, retries, refusals, losses, executed, stale,
                     aborted>>
    BY <1>3 DEF OnResponse, Keep
  <2>12. conns[c].response
    BY DEF OnResponse
  <2>3. \A d \in DOMAIN conns :
          /\ conns'[d] \in Connection
          /\ conns'[d].id = conns[d].id /\ conns'[d].request = conns[d].request
          /\ conns'[d].open = conns[d].open
          /\ conns'[d].response => conns[d].response
    BY <2>2, ConnsType DEF Connection
  <2>4. /\ DOMAIN conns' = DOMAIN conns /\ conns' \in Seq(Connection)
        /\ Len(conns') = Len(conns)
    <3>1. DOMAIN conns' = 1..Len(conns)
      BY <2>2, ConnsType
    <3>2. \A d \in 1..Len(conns) : conns'[d] \in Connection
      BY <2>3, ConnsType
    <3>3. conns' \in [1..Len(conns) -> Connection]
      BY <2>2, <3>1, <3>2, ConnsType
    <3> QED
      BY <3>1, <3>3, ConnsType, FunctionIsSeq
  <2>5. \A id : Handled(id)' = Handled(id)
    BY <2>3, <2>4, FlagsKeep
  <2>6. RpcTypeOK'
    <3>1. runs \in [Call -> Nat]
      BY DEF RpcTypeOK
    <3>2. calls \in Call /\ runs[calls] \in Nat
      BY <1>1, <2>1, <3>1
    <3>3. runs' \in [Call -> Nat] /\ outstandings' \subseteq Call
      BY <2>1, <3>1, <3>2
    <3> QED
      BY <2>1, <2>4, <2>11, <3>3 DEF RpcTypeOK, Connection
  <2>7. CallInv'
    <3>1. runs \in [Call -> Nat]
      BY DEF RpcTypeOK
    <3>2. calls \in Call /\ runs[calls] = 0
      BY <1>1, <2>1 DEF CallInv
    <3>3. ASSUME NEW id \in Call
          PROVE  runs'[id] = IF id <= calls /\ id \notin outstandings' THEN 1 ELSE 0
      <4>1. CASE id = calls
        BY <1>1, <2>1, <3>1, <3>2, <4>1
      <4>2. CASE id # calls
        <5>1. runs'[id] = runs[id]
          BY <2>1, <3>1, <3>2, <4>2
        <5>2. id \notin outstandings /\ id \notin outstandings'
          BY <2>1, <4>2
        <5> QED
          BY <5>1, <5>2 DEF CallInv
      <4> QED
        BY <4>1, <4>2
    <3> QED
      BY <1>1, <2>1, <2>11, <3>3 DEF CallInv
  <2>8. c \in Handled(calls)
    BY <2>1, <2>12 DEF AnswerInv, Handled
  <2>9. AnswerInv'
    <3>1. runs \in [Call -> Nat]
      BY DEF RpcTypeOK
    <3>2. \A id \in Call : runs'[id] = 1 => runs[id] = 1 \/ id = calls
      BY <2>1, <3>1
    <3> QED
      BY <2>3, <2>4, <2>5, <2>8, <2>11, <3>2 DEF AnswerInv
  <2>10. RetryInv' /\ FirstCall'
    BY <1>1, <1>3, <2>3, <2>4, <2>11 DEF RetryInv, FirstCall
  <2> QED
    BY <2>6, <2>7, <2>9, <2>10
<1>4. CASE conns[c].id \notin outstandings
  <2>1. conns' = [conns EXCEPT ![c].response = FALSE] /\ UNCHANGED <<runs, loopPc, aborted>>
        /\ outstandings' = outstandings
        /\ UNCHANGED <<calls, connectChannel, retries, refusals, losses, executed, stale>>
    BY <1>4 DEF OnResponse, Keep
  <2>3. \A d \in DOMAIN conns :
          /\ conns'[d] \in Connection
          /\ conns'[d].id = conns[d].id /\ conns'[d].request = conns[d].request
          /\ conns'[d].open = conns[d].open
          /\ conns'[d].response => conns[d].response
    BY <2>1, ConnsType DEF Connection
  <2>4. /\ DOMAIN conns' = DOMAIN conns /\ conns' \in Seq(Connection)
        /\ Len(conns') = Len(conns)
    <3>1. DOMAIN conns' = 1..Len(conns)
      BY <2>1, ConnsType
    <3>2. \A d \in 1..Len(conns) : conns'[d] \in Connection
      BY <2>3, ConnsType
    <3>3. conns' \in [1..Len(conns) -> Connection]
      BY <2>1, <3>1, <3>2, ConnsType
    <3> QED
      BY <3>1, <3>3, ConnsType, FunctionIsSeq
  <2>5. \A id : Handled(id)' = Handled(id)
    BY <2>3, <2>4, FlagsKeep
  <2>6. RpcTypeOK'
    BY <1>4, <2>1, <2>4 DEF RpcTypeOK, Connection
  <2>7. CallInv'
    BY <2>1 DEF CallInv
  <2>8. AnswerInv'
    BY <2>1, <2>3, <2>4, <2>5 DEF AnswerInv
  <2>9. RetryInv' /\ FirstCall'
    BY <1>1, <2>1, <2>3, <2>4 DEF RetryInv, FirstCall
  <2> QED
    BY <2>6, <2>7, <2>8, <2>9
<1> QED
  BY <1>3, <1>4

\* One connection is changed in a way that keeps its id and whether it was handled, and
\* opens it and its response no more than they were; no call is concerned.
LEMMA OneConnection ==
    ASSUME RpcInv, NEW c \in DOMAIN conns, NEW new \in Connection,
           conns' = [conns EXCEPT ![c] = new],
           new.id = conns[c].id, new.request = "handled" <=> conns[c].request = "handled",
           new.response => conns[c].response,
           UNCHANGED <<runs, executed>>
    PROVE  /\ conns' \in Seq(Connection) /\ Len(conns') = Len(conns)
           /\ DOMAIN conns' = DOMAIN conns
           /\ \A d \in DOMAIN conns :
                conns'[d].open = IF d = c THEN new.open ELSE conns[d].open
           /\ AnswerInv'
<1> USE DEF RpcInv
<1>1. \A d \in DOMAIN conns : conns'[d] = IF d = c THEN new ELSE conns[d]
  BY ConnsType
<1>2. DOMAIN conns' = DOMAIN conns /\ conns' \in Seq(Connection) /\ Len(conns') = Len(conns)
  <2>1. conns' \in [1..Len(conns) -> Connection]
    BY ConnsType
  <2> QED
    BY <2>1, ConnsType, FunctionIsSeq
<1>3. \A id : Handled(id)' = Handled(id)
  BY <1>1, <1>2, FlagsKeep
<1>4. AnswerInv'
  BY <1>1, <1>2, <1>3 DEF AnswerInv
<1> QED
  BY <1>1, <1>2, <1>4

LEMMA ClosedStep == ASSUME RpcInv, NEW c \in DOMAIN conns, Closed(c) PROVE RpcInv'
<1> USE DEF RpcInv
<1>1. /\ conns' = [conns EXCEPT ![c].open = FALSE]
      /\ Connect("new", retries)
      /\ UNCHANGED <<calls, loopPc, outstandings, runs, losses, executed>>
      /\ conns[c].open /\ loopPc # "idle" /\ connectChannel # "done"
  BY DEF Closed, Polled, Keep
<1> DEFINE new == [conns[c] EXCEPT !.open = FALSE]
<1>2. /\ new \in Connection /\ new.id = conns[c].id /\ new.request = conns[c].request
      /\ new.response = conns[c].response /\ ~new.open
  BY ConnsType DEF Connection
<1>3. conns' = [conns EXCEPT ![c] = new]
  BY <1>1
<1> HIDE DEF new
<1>11. /\ new.request = "handled" <=> conns[c].request = "handled"
       /\ new.response => conns[c].response
       /\ UNCHANGED <<runs, executed>>
  BY <1>1, <1>2
<1>4. /\ conns' \in Seq(Connection) /\ Len(conns') = Len(conns)
      /\ DOMAIN conns' = DOMAIN conns
      /\ \A d \in DOMAIN conns :
           conns'[d].open = IF d = c THEN new.open ELSE conns[d].open
      /\ AnswerInv'
  BY <1>2, <1>3, <1>11, OneConnection
<1>5. retries \in Nat /\ calls \in 0..Cardinality(Call)
  BY RpcAssumption DEF RpcAssumption, RpcTypeOK
<1>6. /\ connectChannel' \in {"none", "new", "pending", "done", "failed", "dead"}
      /\ retries' \in 0..MaxRefusals /\ refusals' \in 0..MaxRefusals
      /\ stale' \in BOOLEAN /\ aborted' \in BOOLEAN
      /\ RetryInv'
  BY <1>1, <1>5, ConnectStep
<1>7. RpcTypeOK'
  BY <1>1, <1>4, <1>6 DEF RpcTypeOK, Connection
<1>8. CallInv'
  BY <1>1 DEF CallInv
<1>9. calls # 0
  BY <1>1 DEF CallInv
<1>10. FirstCall'
  <2> SUFFICES ASSUME calls = 1
               PROVE  FirstCall'
    BY <1>1, <1>9 DEF FirstCall
  <2>1. c = Len(conns) /\ connectChannel = "none" /\ retries = 0
    BY <1>1, <1>5, RpcAssumption DEF FirstCall, RpcTypeOK
  <2>2. \A d \in DOMAIN conns : ~conns'[d].open
    BY <1>2, <1>4, <2>1, <1>1 DEF FirstCall
  <2> QED
    <3>1. ~stale /\ ~aborted
      BY DEF FirstCall
    <3>2. /\ ~stale' /\ ~aborted'
          /\ \/ connectChannel' = "new" /\ retries' = 0
             \/ connectChannel' = "none" /\ retries' = 1
      BY <1>1, <2>1, <3>1, FirstConnect
    <3> QED
      BY <1>1, <1>4, <2>2, <3>2 DEF FirstCall
<1> QED
  BY <1>4, <1>6, <1>7, <1>8, <1>10

LEMMA RequestStep == ASSUME RpcInv, NEW c \in DOMAIN conns, OnRequest(c) PROVE RpcInv'
<1> USE DEF RpcInv
<1>1. /\ conns[c].request = "sent"
      /\ conns' = [conns EXCEPT ![c].request = "handled", ![c].response = TRUE]
      /\ executed' = IF ErrorOf(conns[c].id) = "NO_ERROR"
                     THEN [executed EXCEPT ![conns[c].id] = @ + 1] ELSE executed
      /\ UNCHANGED <<calls, loopPc, connectChannel, retries, outstandings, runs, losses,
                     refusals, stale, aborted>>
  BY DEF OnRequest
<1> DEFINE new == [conns[c] EXCEPT !.request = "handled", !.response = TRUE]
<1>2. /\ new \in Connection /\ new.id = conns[c].id /\ new.request = "handled"
      /\ new.open = conns[c].open
      /\ conns[c].id \in Call
  BY ConnsType DEF Connection
<1>3. conns' = [conns EXCEPT ![c] = new]
  BY <1>1
<1> HIDE DEF new
<1>4. \A d \in DOMAIN conns : conns'[d] = IF d = c THEN new ELSE conns[d]
  BY <1>3, ConnsType
<1>5. DOMAIN conns' = DOMAIN conns /\ conns' \in Seq(Connection) /\ Len(conns') = Len(conns)
  <2>1. conns' \in [1..Len(conns) -> Connection]
    BY <1>2, <1>3, ConnsType
  <2> QED
    BY <2>1, ConnsType, FunctionIsSeq
<1>14. PICK k \in Call : k = conns[c].id
  BY <1>2
<1>6. /\ Handled(k)' = Handled(k) \cup {c}
      /\ c \notin Handled(k)
      /\ \A id : id # k => Handled(id)' = Handled(id)
  <2>1. c \notin Handled(k)
    BY <1>1, <1>14 DEF Handled
  <2>2. ASSUME NEW id, NEW d
        PROVE  d \in Handled(id)' <=> d \in Handled(id) \/ (d = c /\ id = k)
    <3>1. CASE d = c
      BY <1>1, <1>2, <1>4, <1>5, <1>14, <3>1 DEF Handled
    <3>2. CASE d # c
      BY <1>4, <1>5, <3>2 DEF Handled
    <3> QED
      BY <3>1, <3>2
  <2>3. \A id : id # k => /\ Handled(id)' \subseteq Handled(id)
                          /\ Handled(id) \subseteq Handled(id)'
    BY <2>2
  <2>4. /\ Handled(k)' \subseteq Handled(k) \cup {c}
        /\ Handled(k) \cup {c} \subseteq Handled(k)'
    BY <2>2
  <2> QED
    BY <2>1, <2>3, <2>4
<1>7. executed \in [Call -> Nat]
  BY DEF RpcTypeOK
<1>8. executed' \in [Call -> Nat]
  BY <1>1, <1>2, <1>7
<1>9. RpcTypeOK'
  BY <1>1, <1>5, <1>8 DEF RpcTypeOK, Connection
<1>10. CallInv' /\ RetryInv'
  BY <1>1 DEF CallInv, RetryInv
<1>11. FirstCall'
  BY <1>1, <1>2, <1>4, <1>5 DEF FirstCall
<1>12. Cardinality(Handled(k)') = Cardinality(Handled(k)) + 1
       /\ Cardinality(Handled(k)) \in Nat
  BY <1>6, HandledFinite, FS_AddElement
<1>13. AnswerInv'
  <2>1. \A d \in DOMAIN conns' : conns'[d].response => conns'[d].request = "handled"
    BY <1>2, <1>4, <1>5 DEF AnswerInv
  <2>2. ASSUME NEW id \in Call
        PROVE  /\ runs'[id] = 1 => Handled(id)' # {}
               /\ ErrorOf(id) = "NO_ERROR" /\ Handled(id)' # {} => executed'[id] >= 1
               /\ executed'[id] <= Cardinality(Handled(id)')
    <3>1. CASE id # k
      <4>1. Handled(id)' = Handled(id) /\ executed'[id] = executed[id]
        BY <1>1, <1>2, <1>6, <1>7, <1>14, <3>1
      <4> QED
        BY <1>1, <4>1 DEF AnswerInv
    <3>2. CASE id = k
      <4>1. executed[id] \in Nat /\ executed[id] <= Cardinality(Handled(id))
        BY <1>7 DEF AnswerInv
      <4>2. executed'[id] =
              IF ErrorOf(id) = "NO_ERROR" THEN executed[id] + 1 ELSE executed[id]
        BY <1>1, <1>7, <1>14, <3>2
      <4>3. Cardinality(Handled(id)') = Cardinality(Handled(id)) + 1
            /\ Cardinality(Handled(id)) \in Nat /\ Handled(id)' # {}
        <5>1. c \in Handled(id)'
          BY <1>6, <3>2
        <5> QED
          BY <1>12, <3>2, <5>1
      <4> HIDE DEF ErrorOf
      <4> QED
        BY <4>1, <4>2, <4>3
    <3> QED
      BY <3>1, <3>2
  <2> QED
    BY <2>1, <2>2 DEF AnswerInv
<1> QED
  BY <1>9, <1>10, <1>11, <1>13

\* The end of the stream: the server closes a connection, or the network loses it.
LEMMA EndStep ==
    ASSUME RpcInv, NEW c \in DOMAIN conns, ServerCloses(c) \/ Lose(c)
    PROVE  RpcInv'
<1> USE DEF RpcInv
<1>1. /\ UNCHANGED <<calls, loopPc, connectChannel, retries, outstandings, runs, executed,
                     refusals, stale, aborted>>
      /\ losses' \in 0..MaxLosses
  <2>1. losses \in 0..MaxLosses /\ MaxLosses \in Nat
    BY RpcAssumption DEF RpcTypeOK, RpcAssumption
  <2>2. CASE ServerCloses(c)
    BY <2>1, <2>2 DEF ServerCloses
  <2>3. CASE Lose(c)
    BY <2>1, <2>3 DEF Lose
  <2> QED
    BY <2>2, <2>3
<1>2. \E new \in Connection :
        /\ conns' = [conns EXCEPT ![c] = new]
        /\ new.id = conns[c].id /\ new.open = conns[c].open
        /\ new.request = "handled" <=> conns[c].request = "handled"
        /\ new.response => conns[c].response
  <2>1. CASE ServerCloses(c)
    <3> DEFINE new == [conns[c] EXCEPT !.eof = TRUE]
    <3>1. /\ new \in Connection /\ new.id = conns[c].id /\ new.open = conns[c].open
          /\ new.request = conns[c].request /\ new.response = conns[c].response
      BY ConnsType DEF Connection
    <3>2. conns' = [conns EXCEPT ![c] = new]
      BY <2>1 DEF ServerCloses
    <3> HIDE DEF new
    <3> QED
      BY <3>1, <3>2
  <2>2. CASE Lose(c)
    <3>1. PICK sent \in {conns[c].response, FALSE} :
            conns' = [conns EXCEPT ![c].eof = TRUE, ![c].response = sent,
                        ![c].request = IF @ = "sent" THEN "lost" ELSE @]
      BY <2>2 DEF Lose
    <3> DEFINE new == [conns[c] EXCEPT !.eof = TRUE, !.response = sent,
                         !.request = IF @ = "sent" THEN "lost" ELSE @]
    <3>2. /\ new \in Connection /\ new.id = conns[c].id /\ new.open = conns[c].open
          /\ new.request = "handled" <=> conns[c].request = "handled"
          /\ new.response = sent
      BY <3>1, ConnsType DEF Connection
    <3>3. conns' = [conns EXCEPT ![c] = new]
      BY <3>1
    <3> HIDE DEF new
    <3> QED
      BY <3>1, <3>2, <3>3
  <2> QED
    BY <2>1, <2>2
<1>3. PICK new \in Connection :
        /\ conns' = [conns EXCEPT ![c] = new]
        /\ new.id = conns[c].id /\ new.open = conns[c].open
        /\ new.request = "handled" <=> conns[c].request = "handled"
        /\ new.response => conns[c].response
  BY <1>2
<1>4. /\ conns' \in Seq(Connection) /\ Len(conns') = Len(conns)
      /\ DOMAIN conns' = DOMAIN conns
      /\ \A d \in DOMAIN conns :
           conns'[d].open = IF d = c THEN new.open ELSE conns[d].open
      /\ AnswerInv'
  BY <1>1, <1>3, OneConnection
<1>5. RpcTypeOK'
  BY <1>1, <1>4 DEF RpcTypeOK, Connection
<1>6. CallInv' /\ RetryInv'
  BY <1>1 DEF CallInv, RetryInv
<1>7. FirstCall'
  BY <1>1, <1>3, <1>4 DEF FirstCall
<1> QED
  BY <1>4, <1>5, <1>6, <1>7

LEMMA RpcStep == ASSUME RpcInv, [RpcNext]_rpcVars PROVE RpcInv'
<1>1. CASE CallMethod
  BY <1>1, CallMethodStep
<1>2. CASE ClientStep
  BY <1>2, HandleConnectStep, RetryTimerStep, DoTaskStep, ResponseStep, ClosedStep
     DEF ClientStep
<1>3. CASE ServerStep \/ \E c \in DOMAIN conns : Lose(c)
  BY <1>3, RequestStep, EndStep DEF ServerStep
<1>4. CASE UNCHANGED rpcVars
  BY <1>4 DEF rpcVars, RpcInv, RpcTypeOK, CallInv, AnswerInv, Handled, RetryInv, FirstCall
<1> QED
  BY <1>1, <1>2, <1>3, <1>4 DEF RpcNext

\* For any number of calls, losses and failed connects: done of a call runs once, when
\* the server has executed or refused it, before CallMethod() returns, and the first
\* call meets no failed assertion and no destroyed Channel (EventLoop.cc:104, 150).
THEOREM CallsAlwaysRight == RpcSpec => []CallsRight
<1>1. RpcInv => CallsRight
  <2> SUFFICES ASSUME RpcInv
               PROVE  CallsRight
    OBVIOUS
  <2> USE DEF RpcInv
  <2>1. /\ calls \in 0..Cardinality(Call) /\ executed \in [Call -> Nat]
        /\ loopPc \in {"idle", "looping", "quitting"} /\ aborted \in BOOLEAN
    BY DEF RpcTypeOK
  <2>2. calls \in Nat /\ Call \subseteq Nat
    BY <2>1, CallIsNat
  <2>3. ASSUME NEW id \in Call
        PROVE  /\ runs[id] <= 1
               /\ runs[id] = 1 => \E c \in DOMAIN conns :
                                    conns[c].id = id /\ conns[c].request = "handled"
               /\ runs[id] = 1 /\ ErrorOf(id) = "NO_ERROR" => executed[id] >= 1
               /\ executed[id] <= Cardinality({c \in DOMAIN conns : conns[c].id = id})
               /\ id < calls \/ (id = calls /\ loopPc = "idle") => runs[id] = 1
    <3>1. id \in Nat /\ runs[id] = IF id <= calls /\ id \notin outstandings THEN 1 ELSE 0
      BY <2>2 DEF CallInv
    <3>2. runs[id] <= 1
      BY <3>1
    <3>3. runs[id] = 1 => Handled(id) # {}
      BY DEF AnswerInv
    <3>4. runs[id] = 1 /\ ErrorOf(id) = "NO_ERROR" => executed[id] >= 1
      BY <3>3 DEF AnswerInv
    <3>5. executed[id] <= Cardinality({c \in DOMAIN conns : conns[c].id = id})
      <4> DEFINE S == {c \in DOMAIN conns : conns[c].id = id}
      <4>1. Handled(id) \subseteq S /\ S \subseteq 1..Len(conns)
        BY ConnsType DEF Handled
      <4>2. IsFiniteSet(S)
        <5>1. IsFiniteSet(1..Len(conns))
          BY ConnsType, FS_Interval
        <5> HIDE DEF S
        <5> QED
          BY <4>1, <5>1, FS_Subset
      <4> HIDE DEF S
      <4>3. Cardinality(Handled(id)) <= Cardinality(S) /\ Cardinality(S) \in Nat
        BY <4>1, <4>2, FS_Subset, FS_CardinalityType
      <4>4. executed[id] \in Nat /\ executed[id] <= Cardinality(Handled(id))
            /\ Cardinality(Handled(id)) \in Nat
        BY <2>1, HandledFinite DEF AnswerInv
      <4>5. executed[id] <= Cardinality(S)
        BY <4>3, <4>4
      <4> QED
        BY <4>5 DEF S
    <3>6. id < calls \/ (id = calls /\ loopPc = "idle") => runs[id] = 1
      BY <2>2, <3>1 DEF CallInv
    <3> QED
      BY <3>2, <3>3, <3>4, <3>5, <3>6 DEF Handled
  <2>4. aborted => calls > 1
    BY <2>1, <2>2 DEF FirstCall
  <2> QED
    BY <2>3, <2>4 DEF CallsRight
<1> QED
  BY <1>1, RpcInitInv, RpcStep, PTL DEF RpcSpec
-------------------------------------------------------------------------------
(***************************************************************************)
(* Timer.  A timer that repeats has an interval; every other expires once. *)
(***************************************************************************)
Repeats(s) == timers[s].every /\ Interval(timers[s].delay) > 0

LEMMA IntervalIsNat ==
    ASSUME NEW d \in Nat
    PROVE  /\ Interval(d) \in Nat /\ Howlong(d) \in Nat \ {0}
           /\ d > 0 => Interval(d) > 0
           /\ d > 0 => Howlong(d) = Interval(d)
<1>1. Base \in Nat \ {0}
  BY TimerAssumption DEF TimerAssumption
<1>2. ASSUME NEW e \in Nat
      PROVE  Interval(e) \in Nat /\ (e > 0 => Interval(e) > 0)
  <2>1. e \div Base \in Nat /\ e % Base \in 0..Base - 1
    BY <1>1
  <2>2. Second \in Nat \ {0}
    BY <1>1 DEF Second
  <2>3. (e \div Base) * Second \in Nat
    BY <2>1, <2>2
  <2>4. e > 0 /\ e \div Base = 0 => e % Base > 0
    BY <1>1
  <2>5. e \div Base # 0 => (e \div Base) * Second > 0
    BY <2>1, <2>2
  <2> QED
    BY <1>1, <2>1, <2>3, <2>4, <2>5 DEF Interval
<1>3. Howlong(d) = IF d = 0 THEN Interval(1) ELSE Interval(d)
  BY DEF Howlong
<1> QED
  BY <1>2, <1>3

LEMMA Quotient ==
    ASSUME NEW x \in Nat, NEW p \in Nat \ {0}, NEW k \in Nat,
           k * p <= x, x < (k + 1) * p
    PROVE  x \div p = k
OBVIOUS

LEMMA QuotientPositive ==
    ASSUME NEW x \in Nat, NEW p \in Nat \ {0}, x >= p
    PROVE  x \div p > 0
OBVIOUS

\* A timer that expires once has not expired yet, is about to run, or has run.
OnceInv(s) ==
    /\ nextAt[s] # 0 => /\ nextAt[s] = timers[s].start + Howlong(timers[s].delay)
                        /\ nextAt[s] > timerClock
                        /\ s \notin expired /\ timerRuns[s] = 0
    /\ nextAt[s] = 0 => /\ timerClock >= timers[s].start + Howlong(timers[s].delay)
                        /\ s \in expired <=> timerRuns[s] = 0
                        /\ timerRuns[s] <= 1

\* A timer that repeats has expired k times, and these were read as k runs at most.
RepeatInv(s) == \E k \in Nat :
    /\ nextAt[s] = timers[s].start + (k + 1) * Interval(timers[s].delay)
    /\ k * Interval(timers[s].delay) <= timerClock - timers[s].start
    /\ timerClock < nextAt[s]
    /\ s \in expired => timerRuns[s] + 1 <= k
    /\ timerRuns[s] <= k
    /\ k >= 1 => timerRuns[s] >= 1 \/ s \in expired

TimerInv ==
    /\ TimerTypeOK
    /\ \A s \in Sequence \ DOMAIN timers : nextAt[s] = 0 /\ s \notin expired
    /\ \A s \in Sequence : s > created => timerRuns[s] = 0
    /\ inTimer # 0 => timerRuns[inTimer] >= 1
    /\ \A s \in DOMAIN timers : /\ timers[s].start <= timerClock
                                /\ Repeats(s) => RepeatInv(s)
                                /\ ~Repeats(s) => OnceInv(s)
    /\ \A s \in 1..created \ DOMAIN timers : s \notin cancelled => timerRuns[s] = 1
    /\ \A s \in DOMAIN timers : s \notin cancelled

LEMMA TimerTypes ==
    ASSUME TimerTypeOK
    PROVE  /\ timerClock \in Nat /\ created \in Nat /\ MaxTimers \in Nat
           /\ 1..created \subseteq Sequence
           /\ DOMAIN timers \subseteq 1..created
           /\ \A s \in DOMAIN timers :
                /\ timers[s].start \in Nat /\ timers[s].delay \in Nat
                /\ timers[s].every \in BOOLEAN
                /\ Interval(timers[s].delay) \in Nat
                /\ Howlong(timers[s].delay) \in Nat \ {0}
<1>1. MaxTimers \in Nat /\ Delays \subseteq Nat /\ MaxTimerClock \in Nat
  BY TimerAssumption DEF TimerAssumption
<1>2. timerClock \in Nat /\ created \in 0..MaxTimers /\ DOMAIN timers \subseteq 1..created
  BY <1>1 DEF TimerTypeOK
<1>3. ASSUME NEW s \in DOMAIN timers
      PROVE  /\ timers[s].start \in Nat /\ timers[s].delay \in Nat
             /\ timers[s].every \in BOOLEAN
  BY <1>1 DEF TimerTypeOK
<1>4. 1..created \subseteq Sequence
  BY <1>1, <1>2 DEF Sequence
<1> QED
  BY <1>1, <1>2, <1>3, <1>4, IntervalIsNat

\* A timer that a step leaves alone.
LEMMA TimerLeft ==
    ASSUME NEW s, timers'[s] = timers[s], nextAt'[s] = nextAt[s], timerClock' = timerClock,
           s \in expired' <=> s \in expired, timerRuns'[s] = timerRuns[s]
    PROVE  /\ Repeats(s)' <=> Repeats(s)
           /\ OnceInv(s) => OnceInv(s)'
           /\ RepeatInv(s) => RepeatInv(s)'
<1>1. Repeats(s)' <=> Repeats(s)
  BY DEF Repeats
<1>2. OnceInv(s) => OnceInv(s)'
  BY DEF OnceInv
<1>3. RepeatInv(s) => RepeatInv(s)'
  BY DEF RepeatInv
<1> QED
  BY <1>1, <1>2, <1>3

LEMMA AddTimerStep ==
    ASSUME TimerInv, NEW d \in Delays, NEW every \in BOOLEAN, AddTimer(d, every)
    PROVE  TimerInv'
<1> USE DEF TimerInv
<1>1. PICK n \in Nat : n = created
  BY TimerTypes
<1>2. /\ created' = n + 1 /\ n < MaxTimers
      /\ DOMAIN timers' = DOMAIN timers \cup {n + 1}
      /\ \A s \in DOMAIN timers : timers'[s] = timers[s]
      /\ n + 1 \notin DOMAIN timers
      /\ timers'[n + 1] = [delay |-> d, every |-> every, start |-> timerClock]
      /\ nextAt' = [nextAt EXCEPT ![n + 1] = timerClock + Howlong(d)]
      /\ UNCHANGED <<timerClock, expired, inTimer, timerRuns, cancelled>>
  BY <1>1, TimerTypes DEF AddTimer
<1>3. n + 1 \in Sequence /\ d \in Nat /\ nextAt \in [Sequence -> Nat] /\ timerClock \in Nat
  BY <1>1, <1>2, TimerAssumption, TimerTypes DEF TimerAssumption, Sequence, TimerTypeOK
<1>4. Howlong(d) \in Nat \ {0} /\ Interval(d) \in Nat
  BY <1>3, IntervalIsNat
<1>5. TimerTypeOK'
  <2>1. nextAt' \in [Sequence -> Nat]
    BY <1>2, <1>3, <1>4
  <2>2. created' \in 0..MaxTimers /\ 1..created \subseteq 1..created'
    BY <1>1, <1>2, TimerTypes
  <2>3. \A s \in DOMAIN timers' :
          timers'[s] \in [delay : Delays, every : BOOLEAN, start : Nat]
    BY <1>2, <1>3 DEF TimerTypeOK
  <2>4. DOMAIN timers' \subseteq 1..created'
    BY <1>1, <1>2, TimerTypes
  <2>5. inTimer' \in 0..created'
    BY <1>1, <1>2 DEF TimerTypeOK
  <2> QED
    BY <1>2, <2>1, <2>2, <2>3, <2>4, <2>5 DEF TimerTypeOK
<1>6. \A s \in Sequence \ DOMAIN timers' : nextAt'[s] = 0 /\ s \notin expired'
  BY <1>2, <1>3
<1>7. \A s \in Sequence : s > created' => timerRuns'[s] = 0
  BY <1>1, <1>2 DEF Sequence
<1>8. timerRuns[n + 1] = 0 /\ n + 1 \notin expired /\ n + 1 \notin cancelled
  BY <1>1, <1>2, <1>3 DEF TimerTypeOK
<1>9. ASSUME NEW s \in DOMAIN timers'
      PROVE  /\ timers'[s].start <= timerClock'
             /\ Repeats(s)' => RepeatInv(s)'
             /\ ~Repeats(s)' => OnceInv(s)'
  <2>1. CASE s \in DOMAIN timers
    <3>1. s \in Sequence /\ s # n + 1
      BY <1>2, <2>1, TimerTypes
    <3>2. /\ Repeats(s)' <=> Repeats(s)
          /\ OnceInv(s) => OnceInv(s)'
          /\ RepeatInv(s) => RepeatInv(s)'
      BY <1>2, <1>3, <2>1, <3>1, TimerLeft
    <3> QED
      BY <1>2, <2>1, <3>2
  <2>2. CASE s = n + 1
    <3>1. /\ timers'[s].start = timerClock /\ timers'[s].delay = d /\ timers'[s].every = every
          /\ nextAt'[s] = timerClock + Howlong(d) /\ timerRuns'[s] = 0 /\ s \notin expired'
          /\ timerClock' = timerClock
      BY <1>2, <1>3, <1>8, <2>2
    <3>2. ASSUME Repeats(s)'
          PROVE  RepeatInv(s)'
      <4>1. Interval(d) > 0 /\ Howlong(d) = Interval(d)
        <5>1. Interval(d) > 0
          BY <3>1, <3>2 DEF Repeats
        <5>2. Interval(0) = 0
          BY TimerAssumption DEF Interval, Second, TimerAssumption
        <5> QED
          BY <1>3, <5>1, <5>2, IntervalIsNat
      <4>2. nextAt'[s] = timerClock + (0 + 1) * Interval(d)
        BY <1>3, <1>4, <3>1, <4>1
      <4> QED
        BY <1>3, <1>4, <3>1, <4>1, <4>2 DEF RepeatInv
    <3>3. OnceInv(s)'
      BY <1>3, <1>4, <3>1 DEF OnceInv
    <3> QED
      BY <1>3, <3>1, <3>2, <3>3
  <2> QED
    BY <1>2, <2>1, <2>2
<1>10. \A s \in 1..created' \ DOMAIN timers' : s \notin cancelled' => timerRuns'[s] = 1
  BY <1>1, <1>2
<1>11. \A s \in DOMAIN timers' : s \notin cancelled'
  BY <1>2, <1>8
<1>12. inTimer' # 0 => timerRuns'[inTimer'] >= 1
  BY <1>2
<1> QED
  BY <1>5, <1>6, <1>7, <1>9, <1>10, <1>11, <1>12

\* A timer that is erased, because it was cancelled or because it has run.
LEMMA EraseStep ==
    ASSUME TimerInv, NEW t \in DOMAIN timers, EraseTimer(t),
           UNCHANGED <<timerClock, created, timerRuns>>,
           inTimer' \in {inTimer, 0},
           \/ cancelled' = cancelled \cup {t}
           \/ cancelled' = cancelled /\ timerRuns[t] = 1
    PROVE  TimerInv'
<1> USE DEF TimerInv
<1>1. t \in 1..created /\ t \in Sequence /\ nextAt \in [Sequence -> Nat]
  BY TimerTypes DEF TimerTypeOK
<1>2. /\ DOMAIN timers' = DOMAIN timers \ {t}
      /\ \A s \in DOMAIN timers' : timers'[s] = timers[s]
      /\ nextAt' = [nextAt EXCEPT ![t] = 0] /\ expired' = expired \ {t}
      /\ nextAt' \in [Sequence -> Nat]
  BY <1>1 DEF EraseTimer
<1>3. TimerTypeOK'
  <2>1. \A s \in DOMAIN timers' :
          timers'[s] \in [delay : Delays, every : BOOLEAN, start : Nat]
    BY <1>2 DEF TimerTypeOK
  <2>2. /\ DOMAIN timers' \subseteq 1..created /\ expired' \subseteq 1..created
        /\ cancelled' \subseteq 1..created
    BY <1>1, <1>2 DEF TimerTypeOK
  <2>3. inTimer' \in 0..created
    BY TimerTypes DEF TimerTypeOK
  <2> QED
    BY <1>2, <2>1, <2>2, <2>3 DEF TimerTypeOK
<1>4. \A s \in Sequence \ DOMAIN timers' : nextAt'[s] = 0 /\ s \notin expired'
  BY <1>1, <1>2
<1>5. ASSUME NEW s \in DOMAIN timers'
      PROVE  /\ timers'[s].start <= timerClock'
             /\ Repeats(s)' => RepeatInv(s)'
             /\ ~Repeats(s)' => OnceInv(s)'
             /\ s \notin cancelled'
  <2>1. s \in DOMAIN timers /\ s # t /\ s \in Sequence
    BY <1>2, TimerTypes
  <2>2. timers'[s] = timers[s] /\ nextAt'[s] = nextAt[s] /\ (s \in expired' <=> s \in expired)
    BY <1>1, <1>2, <2>1
  <2>3. /\ Repeats(s)' <=> Repeats(s)
        /\ OnceInv(s) => OnceInv(s)'
        /\ RepeatInv(s) => RepeatInv(s)'
    BY <2>2, TimerLeft
  <2> QED
    BY <2>1, <2>2, <2>3
<1>6. \A s \in 1..created' \ DOMAIN timers' : s \notin cancelled' => timerRuns'[s] = 1
  BY <1>2
<1>7. inTimer' # 0 => timerRuns'[inTimer'] >= 1
  OBVIOUS
<1>8. \A s \in Sequence : s > created' => timerRuns'[s] = 0
  OBVIOUS
<1> QED
  BY <1>3, <1>4, <1>5, <1>6, <1>7, <1>8

LEMMA HandleTimerStep ==
    ASSUME TimerInv, NEW t \in Sequence, HandleTimer(t)
    PROVE  TimerInv'
<1> USE DEF TimerInv
<1>1. /\ t \in expired /\ inTimer' = t /\ expired' = expired \ {t}
      /\ timerRuns' = [timerRuns EXCEPT ![t] = @ + 1]
      /\ UNCHANGED <<timerClock, created, timers, nextAt, cancelled>>
  BY DEF HandleTimer
<1>2. t \in DOMAIN timers /\ timerRuns \in [Sequence -> Nat] /\ t \in 1..created
  BY <1>1, TimerTypes DEF TimerTypeOK
<1>3. /\ timerRuns' \in [Sequence -> Nat] /\ timerRuns'[t] = timerRuns[t] + 1
      /\ timerRuns[t] \in Nat
      /\ \A s \in Sequence : s # t => timerRuns'[s] = timerRuns[s]
  BY <1>1, <1>2
<1>4. TimerTypeOK'
  <2>1. inTimer' \in 0..created
    BY <1>1, <1>2, TimerTypes
  <2>2. expired' \subseteq 1..created
    BY <1>1 DEF TimerTypeOK
  <2> QED
    BY <1>1, <1>3, <2>1, <2>2 DEF TimerTypeOK
<1>5. ASSUME NEW s \in DOMAIN timers
      PROVE  /\ Repeats(s)' => RepeatInv(s)'
             /\ ~Repeats(s)' => OnceInv(s)'
  <2>1. CASE s # t
    <3>1. s \in Sequence
      BY TimerTypes
    <3>2. /\ Repeats(s)' <=> Repeats(s)
          /\ OnceInv(s) => OnceInv(s)'
          /\ RepeatInv(s) => RepeatInv(s)'
      BY <1>1, <1>3, <2>1, <3>1, TimerLeft
    <3> QED
      BY <3>2
  <2>2. CASE s = t
    <3>1. Repeats(s)' <=> Repeats(s)
      BY <1>1 DEF Repeats
    <3>2. ASSUME ~Repeats(s)
          PROVE  OnceInv(s)'
      <4>1. OnceInv(t)
        BY <2>2, <3>2
      <4>2. nextAt[t] = 0 /\ timerRuns[t] = 0
        BY <1>1, <4>1 DEF OnceInv
      <4> QED
        BY <1>1, <1>3, <2>2, <4>1, <4>2 DEF OnceInv
    <3>3. ASSUME Repeats(s)
          PROVE  RepeatInv(s)'
      <4>1. RepeatInv(t)
        BY <2>2, <3>3
      <4>2. PICK k \in Nat :
              /\ nextAt[t] = timers[t].start + (k + 1) * Interval(timers[t].delay)
              /\ k * Interval(timers[t].delay) <= timerClock - timers[t].start
              /\ timerClock < nextAt[t]
              /\ timerRuns[t] + 1 <= k
        BY <1>1, <4>1 DEF RepeatInv
      <4> QED
        BY <1>1, <1>3, <2>2, <4>2 DEF RepeatInv
    <3> QED
      BY <3>1, <3>2, <3>3
  <2> QED
    BY <2>1, <2>2
<1>6. \A s \in Sequence : s > created => timerRuns'[s] = 0
  BY <1>2, <1>3, TimerTypes
<1>7. \A s \in 1..created \ DOMAIN timers : s \notin cancelled => timerRuns'[s] = 1
  BY <1>2, <1>3, TimerTypes
<1>8. inTimer' # 0 => timerRuns'[inTimer'] >= 1
  BY <1>1, <1>3
<1>9. \A s \in Sequence \ DOMAIN timers : nextAt'[s] = 0 /\ s \notin expired'
  BY <1>1
<1> QED
  BY <1>1, <1>4, <1>5, <1>6, <1>7, <1>8, <1>9

LEMMA CallbackReturnsStep == ASSUME TimerInv, CallbackReturns PROVE TimerInv'
<1> USE DEF TimerInv
<1>1. inTimer # 0 /\ inTimer' = 0 /\ UNCHANGED <<timerClock, created, timerRuns, cancelled>>
  BY DEF CallbackReturns
<1>2. CASE inTimer \in DOMAIN timers /\ ~Repeats(inTimer) /\ EraseTimer(inTimer)
  <2>1. OnceInv(inTimer) /\ timerRuns[inTimer] >= 1 /\ timerRuns[inTimer] \in Nat
    BY <1>1, <1>2, TimerTypes DEF TimerTypeOK
  <2>2. timerRuns[inTimer] = 1
    BY <2>1 DEF OnceInv
  <2> QED
    BY <1>1, <1>2, <2>2, EraseStep
<1>3. CASE UNCHANGED <<timers, nextAt, expired>>
  <2>1. TimerTypeOK'
    BY <1>1, <1>3, TimerTypes DEF TimerTypeOK
  <2>2. ASSUME NEW s \in DOMAIN timers
        PROVE  /\ Repeats(s)' => RepeatInv(s)'
               /\ ~Repeats(s)' => OnceInv(s)'
    BY <1>1, <1>3, TimerLeft
  <2> QED
    BY <1>1, <1>3, <2>1, <2>2
<1> QED
  BY <1>1, <1>2, <1>3 DEF CallbackReturns, Repeats

\* A microsecond passes.
LEMMA ElapseStep == ASSUME TimerInv, Elapse PROVE TimerInv'
<1> USE DEF TimerInv
<1> DEFINE due == {s \in DOMAIN timers : nextAt[s] = timerClock + 1}
           again(s) == timers[s].every /\ Interval(timers[s].delay) > 0
<1>1. /\ timerClock' = timerClock + 1 /\ timerClock' \in 0..MaxTimerClock
      /\ expired' = expired \cup due
      /\ nextAt' = [s \in Sequence |->
           IF s \notin due THEN nextAt[s]
           ELSE IF again(s) THEN nextAt[s] + Interval(timers[s].delay) ELSE 0]
      /\ UNCHANGED <<created, timers, inTimer, timerRuns, cancelled>>
  BY TimerTypes, TimerAssumption DEF Elapse, TimerAssumption, TimerTypeOK
<1>2. /\ nextAt \in [Sequence -> Nat] /\ timerClock \in Nat /\ timerRuns \in [Sequence -> Nat]
      /\ DOMAIN timers \subseteq Sequence
  BY TimerTypes DEF TimerTypeOK
<1>3. ASSUME NEW s \in DOMAIN timers
      PROVE  /\ nextAt'[s] \in Nat
             /\ s \in expired' <=> s \in expired \/ nextAt[s] = timerClock + 1
             /\ nextAt[s] # timerClock + 1 => nextAt'[s] = nextAt[s]
             /\ nextAt[s] = timerClock + 1 /\ Repeats(s) =>
                  nextAt'[s] = nextAt[s] + Interval(timers[s].delay)
             /\ nextAt[s] = timerClock + 1 /\ ~Repeats(s) => nextAt'[s] = 0
  BY <1>1, <1>2, TimerTypes DEF Repeats
<1>4. \A s \in Sequence \ DOMAIN timers :
        nextAt'[s] = nextAt[s] /\ (s \in expired' <=> s \in expired)
  BY <1>1, <1>2
<1>5. TimerTypeOK'
  <2>1. nextAt' \in [Sequence -> Nat]
    BY <1>1, <1>2, <1>3, <1>4
  <2>2. expired' \subseteq 1..created
    BY <1>1, TimerTypes DEF TimerTypeOK
  <2> QED
    BY <1>1, <2>1, <2>2 DEF TimerTypeOK
<1> HIDE DEF due, again
<1>6. ASSUME NEW s \in DOMAIN timers
      PROVE  /\ timers'[s].start <= timerClock'
             /\ Repeats(s)' => RepeatInv(s)'
             /\ ~Repeats(s)' => OnceInv(s)'
  <2>1. /\ timers'[s] = timers[s] /\ timerRuns'[s] = timerRuns[s] /\ timerRuns[s] \in Nat
        /\ timers[s].start \in Nat /\ timers[s].start <= timerClock
        /\ Interval(timers[s].delay) \in Nat
        /\ Howlong(timers[s].delay) \in Nat \ {0}
        /\ nextAt[s] \in Nat
    BY <1>1, <1>2, TimerTypes
  <2>2. Repeats(s)' <=> Repeats(s)
    BY <2>1 DEF Repeats
  <2>3. ASSUME Repeats(s)
        PROVE  RepeatInv(s)'
    <3>1. RepeatInv(s)
      BY <2>3
    <3>2. PICK p \in Nat \ {0}, b \in Nat :
            p = Interval(timers[s].delay) /\ b = timers[s].start
      BY <2>1, <2>3 DEF Repeats
    <3>3. PICK k \in Nat : /\ nextAt[s] = b + (k + 1) * p
                           /\ k * p <= timerClock - b
                           /\ timerClock < nextAt[s]
                           /\ s \in expired => timerRuns[s] + 1 <= k
                           /\ timerRuns[s] <= k
                           /\ k >= 1 => timerRuns[s] >= 1 \/ s \in expired
      BY <3>1, <3>2 DEF RepeatInv
    <3>4. \E n \in Nat : /\ nextAt'[s] = b + (n + 1) * p
                         /\ n * p <= timerClock' - b
                         /\ timerClock' < nextAt'[s]
                         /\ s \in expired' => timerRuns'[s] + 1 <= n
                         /\ timerRuns'[s] <= n
                         /\ n >= 1 => timerRuns'[s] >= 1 \/ s \in expired'
      <4>1. CASE nextAt[s] # timerClock + 1
        <5>1. nextAt'[s] = nextAt[s] /\ (s \in expired' <=> s \in expired)
          BY <1>3, <4>1
        <5>2. timerClock' < nextAt'[s]
          BY <1>1, <1>2, <2>1, <3>3, <4>1, <5>1
        <5>3. k * p \in Nat
          OBVIOUS
        <5>4. k * p <= timerClock' - b
          <6>1. timerClock' = timerClock + 1
            BY <1>1
          <6>2. \A z, c \in Nat : z <= c - b => z <= c + 1 - b
            OBVIOUS
          <6> QED
            BY <1>2, <3>3, <5>3, <6>1, <6>2
        <5>5. nextAt'[s] = b + (k + 1) * p
          BY <3>3, <5>1
        <5> QED
          BY <2>1, <3>3, <5>1, <5>2, <5>4, <5>5
      <4>2. CASE nextAt[s] = timerClock + 1
        <5>1. nextAt'[s] = nextAt[s] + p /\ s \in expired'
          BY <1>3, <2>3, <3>2, <4>2
        <5>2. k + 1 \in Nat /\ (k + 1) * p + p = ((k + 1) + 1) * p /\ (k + 1) * p \in Nat
          OBVIOUS
        <5>3. nextAt'[s] = b + ((k + 1) + 1) * p
          BY <3>3, <5>1, <5>2
        <5>4. (k + 1) * p <= timerClock' - b /\ timerClock' < nextAt'[s]
          BY <1>1, <1>2, <3>3, <4>2, <5>1, <5>2
        <5>5. timerRuns'[s] + 1 <= k + 1 /\ timerRuns'[s] <= k + 1
          BY <2>1, <3>3
        <5> QED
          BY <5>1, <5>2, <5>3, <5>4, <5>5
      <4> QED
        BY <4>1, <4>2
    <3>5. timers'[s].start = b /\ Interval(timers'[s].delay) = p
      BY <2>1, <3>2
    <3> QED
      BY <3>4, <3>5 DEF RepeatInv
  <2>4. ASSUME ~Repeats(s)
        PROVE  OnceInv(s)'
    <3>1. OnceInv(s)
      BY <2>4
    <3>2. CASE nextAt[s] = timerClock + 1
      <4>1. nextAt'[s] = 0 /\ s \in expired'
        BY <1>3, <2>4, <3>2
      <4>2. timerRuns'[s] = 0 /\ timerClock' >= timers'[s].start + Howlong(timers'[s].delay)
        BY <1>1, <1>2, <2>1, <3>1, <3>2 DEF OnceInv
      <4> QED
        BY <4>1, <4>2 DEF OnceInv
    <3>3. CASE nextAt[s] # timerClock + 1
      <4>1. nextAt'[s] = nextAt[s] /\ (s \in expired' <=> s \in expired)
        BY <1>3, <3>3
      <4> QED
        BY <1>1, <1>2, <2>1, <3>1, <3>3, <4>1 DEF OnceInv
    <3> QED
      BY <3>2, <3>3
  <2> QED
    BY <1>1, <1>2, <2>1, <2>2, <2>3, <2>4
<1>7. \A s \in Sequence \ DOMAIN timers' : nextAt'[s] = 0 /\ s \notin expired'
  BY <1>1, <1>4
<1> QED
  BY <1>1, <1>5, <1>6, <1>7

LEMMA TimerStep == ASSUME TimerInv, [TimerNext]_timerVars PROVE TimerInv'
<1>1. ASSUME NEW d \in Delays, NEW every \in BOOLEAN, AddTimer(d, every)
      PROVE  TimerInv'
  BY <1>1, AddTimerStep
<1>2. ASSUME NEW s \in Sequence, CancelTimer(s)
      PROVE  TimerInv'
  BY <1>2, EraseStep DEF CancelTimer
<1>3. CASE UNCHANGED timerVars
  <2> USE <1>3 DEF TimerInv, timerVars
  <2>1. TimerTypeOK'
    BY DEF TimerTypeOK
  <2>2. ASSUME NEW s \in DOMAIN timers
        PROVE  /\ Repeats(s)' => RepeatInv(s)'
               /\ ~Repeats(s)' => OnceInv(s)'
    BY TimerLeft
  <2> QED
    BY <2>1, <2>2
<1> QED
  BY <1>1, <1>2, <1>3, HandleTimerStep, CallbackReturnsStep, ElapseStep DEF TimerNext

LEMMA TimerInitInv == ASSUME TimerInit PROVE TimerInv
<1>1. MaxTimers \in Nat /\ MaxTimerClock \in Nat
  BY TimerAssumption DEF TimerAssumption
<1>2. DOMAIN timers = {}
  BY DEF TimerInit
<1>3. TimerTypeOK
  BY <1>1, <1>2 DEF TimerInit, TimerTypeOK
<1> QED
  BY <1>2, <1>3 DEF TimerInit, TimerInv

\* Whatever timers are made and cancelled, and whatever their delays: a timer of whole
\* seconds runs when its time has come and not before, and a timer for once runs once
\* (Timer.cc:79, EventLoop.cc:220).
THEOREM TimersAlwaysKeepTime == TimerSpec => []TimersKeepTime
<1>1. TimerInv => TimersKeepTime
  <2> SUFFICES ASSUME TimerInv, NEW s \in 1..created
               PROVE  /\ s \in DOMAIN timers /\ timers[s].delay % Base = 0 /\ timers[s].delay > 0 =>
                           LET due == (timerClock - timers[s].start)
                                        \div ((timers[s].delay \div Base) * Second)
                           IN  /\ timerRuns[s] <= IF timers[s].every THEN due ELSE 1
                               /\ due >= 1 => timerRuns[s] >= 1 \/ s \in expired
                               /\ due = 0 => timerRuns[s] = 0
                      /\ s \notin DOMAIN timers /\ s \notin cancelled => timerRuns[s] = 1
    BY DEF TimersKeepTime
  <2> USE DEF TimerInv
  <2>1. s \notin DOMAIN timers /\ s \notin cancelled => timerRuns[s] = 1
    OBVIOUS
  <2>2. ASSUME s \in DOMAIN timers, timers[s].delay % Base = 0, timers[s].delay > 0,
               NEW due, due = (timerClock - timers[s].start)
                                \div ((timers[s].delay \div Base) * Second)
        PROVE  /\ timerRuns[s] <= IF timers[s].every THEN due ELSE 1
               /\ due >= 1 => timerRuns[s] >= 1 \/ s \in expired
               /\ due = 0 => timerRuns[s] = 0
    <3>1. /\ timers[s].start \in Nat /\ timers[s].delay \in Nat /\ timerClock \in Nat
          /\ timers[s].every \in BOOLEAN /\ s \in Sequence
          /\ timers[s].start <= timerClock
      BY <2>2, TimerTypes
    <3>2. /\ Interval(timers[s].delay) \in Nat \ {0}
          /\ Howlong(timers[s].delay) = Interval(timers[s].delay)
      BY <2>2, <3>1, IntervalIsNat
    <3>3. Interval(timers[s].delay) = (timers[s].delay \div Base) * Second
      <4>1. Base \in Nat \ {0} /\ Second \in Nat
        BY TimerAssumption DEF TimerAssumption, Second
      <4>2. timers[s].delay \div Base \in Nat
        BY <3>1, <4>1
      <4>3. (timers[s].delay \div Base) * Second \in Nat
        BY <4>1, <4>2
      <4> QED
        BY <2>2, <4>3 DEF Interval
    <3>4. PICK p \in Nat \ {0}, x \in Nat : /\ p = Interval(timers[s].delay)
                                            /\ x = timerClock - timers[s].start
      BY <3>1, <3>2
    <3>5. due = x \div p
      BY <2>2, <3>3, <3>4
    <3>6. timerRuns[s] \in Nat /\ nextAt[s] \in Nat
      BY <3>1 DEF TimerTypeOK
    <3>7. CASE Repeats(s)
      <4>1. RepeatInv(s) /\ timers[s].every
        BY <2>2, <3>7 DEF Repeats
      <4>2. PICK k \in Nat : /\ nextAt[s] = timers[s].start + (k + 1) * p
                             /\ k * p <= x
                             /\ timerClock < nextAt[s]
                             /\ timerRuns[s] <= k
                             /\ k >= 1 => timerRuns[s] >= 1 \/ s \in expired
        BY <3>4, <4>1 DEF RepeatInv
      <4>3. x < (k + 1) * p
        <5> DEFINE a == (k + 1) * p
        <5>1. a \in Nat
          OBVIOUS
        <5>2. nextAt[s] = timers[s].start + a /\ timerClock < nextAt[s]
          BY <4>2
        <5> HIDE DEF a
        <5>3. x < a
          BY <3>1, <3>4, <5>1, <5>2
        <5> QED
          BY <5>3 DEF a
      <4>4. due = k
        BY <3>5, <4>2, <4>3, Quotient
      <4>5. /\ timerRuns[s] <= due
            /\ due >= 1 => timerRuns[s] >= 1 \/ s \in expired
        BY <4>2, <4>4, Zenon
      <4>6. due = 0 => timerRuns[s] = 0
        BY <3>6, <4>5
      <4> QED
        BY <4>1, <4>5, <4>6
    <3>8. CASE ~Repeats(s)
      <4>1. OnceInv(s) /\ ~timers[s].every
        BY <2>2, <3>1, <3>2, <3>8 DEF Repeats
      <4>2. CASE nextAt[s] # 0
        <5>1. timerRuns[s] = 0 /\ x < p
          BY <3>1, <3>2, <3>4, <4>1, <4>2 DEF OnceInv
        <5>2. 0 * p <= x /\ x < (0 + 1) * p
          BY <5>1
        <5>3. due = 0
          BY <3>5, <5>2, Quotient
        <5> QED
          BY <4>1, <5>1, <5>3
      <4>3. CASE nextAt[s] = 0
        <5>1. /\ x >= p /\ timerRuns[s] <= 1
              /\ s \in expired <=> timerRuns[s] = 0
          BY <3>1, <3>2, <3>4, <4>1, <4>3 DEF OnceInv
        <5>3. x \div p > 0
          BY <5>1, QuotientPositive
        <5>2. due # 0
          BY <3>5, <5>3
        <5> QED
          BY <3>6, <4>1, <5>1, <5>2
      <4> QED
        BY <4>2, <4>3
    <3> QED
      BY <3>7, <3>8
  <2> QED
    BY <2>1, <2>2
<1> QED
  BY <1>1, TimerInitInv, TimerStep, PTL DEF TimerSpec

(***************************************************************************)
(* HTTPServer.  As long as calls see complete requests and do not overlap, *)
(* the place in the stream of the connection whose call runs says how far  *)
(* the shared parser is.                                                   *)
(***************************************************************************)
Taken(c) == arrived[c] - Len(recvBuffer[c])
LineOf(c) == {Stream(c)[j] : j \in 1..Len(Stream(c))}

\* What is left in the buffer is what the stream goes on with.
BufferInv(c) ==
    /\ recvBuffer[c] \in Seq(LineOf(c))
    /\ arrived[c] \in 0..Len(Stream(c))
    /\ Len(recvBuffer[c]) <= arrived[c]
    /\ \A j \in 1..Len(recvBuffer[c]) : recvBuffer[c][j] = Stream(c)[Taken(c) + j]

RequestInv(q) ==
    \/ q = NotRunning
    \/ /\ q = [running |-> TRUE, method |-> q.method, path |-> q.path, close |-> q.close]
       /\ q.close \in BOOLEAN

IsList(s) == s \in Seq({s[i] : i \in 1..Len(s)})

HTTPInv ==
    /\ codecState \in {"kRequestLine", "kRequestHeaders", "kGotAll"}
    /\ request = [c \in Peer |-> request[c]]
    /\ recvBuffer = [c \in Peer |-> recvBuffer[c]]
    /\ answers = [c \in Peer |-> answers[c]]
    /\ arrived \in [Peer -> Nat] /\ closing \in [Peer -> {"open", "asked", "shut"}]
    /\ whole \in BOOLEAN /\ single \in BOOLEAN
    /\ \A c \in Peer : BufferInv(c) /\ RequestInv(request[c]) /\ IsList(answers[c])

\* The first k requests were answered, until a shutdown took effect.
Answered(c, k) == /\ Len(answers[c]) <= k
                  /\ closing[c] = "shut" \/ Len(answers[c]) = k

\* The call has read the request line of the k+1-st request.
Reads(c, k) == /\ k + 1 \in 1..Len(Script[c])
               /\ request[c].method = Script[c][k + 1].method
               /\ request[c].path = Script[c][k + 1].path

Rests(c) == \E k \in 0..Len(Script[c]) : Taken(c) = 3 * k /\ Answered(c, k)
Starts(c) == codecState = "kRequestLine" /\ Taken(c) < arrived[c] /\ Rests(c)
InHeaders(c) ==
    /\ codecState = "kRequestHeaders"
    /\ \E k \in 0..Len(Script[c]) :
         /\ Taken(c) \in {3 * k + 1, 3 * k + 2}
         /\ Reads(c, k) /\ Answered(c, k)
Parsed(c) ==
    /\ codecState = "kGotAll"
    /\ \E k \in 0..Len(Script[c]) :
         /\ Taken(c) = 3 * k + 3
         /\ Reads(c, k) /\ Answered(c, k)

PlaceInv(c) == /\ ~request[c].running => Rests(c)
               /\ request[c].running => Starts(c) \/ InHeaders(c) \/ Parsed(c)
RightFor(c) ==
    \A i \in 1..Len(answers[c]) : answers[c][i].body \in Pages(Script[c][i])
PeerInv(c) == /\ \E m \in 0..Len(Script[c]) : arrived[c] = 3 * m
              /\ RightFor(c) /\ PlaceInv(c)

WholeInv ==
    /\ \A c, d \in Peer : request[c].running /\ request[d].running => c = d
    /\ (\A c \in Peer : ~request[c].running) => codecState = "kRequestLine"
    /\ \A c \in Peer : PeerInv(c)

\* ... and when each call sees one request, the buffer holds the rest of it.
SingleFor(c) ==
    /\ ~request[c].running \/ codecState = "kGotAll" => Len(recvBuffer[c]) = 0
    /\ request[c].running /\ codecState # "kGotAll" =>
         \E k \in 0..Len(Script[c]) :
           arrived[c] = 3 * k + 3 /\ 3 * k <= Taken(c) /\ Taken(c) < arrived[c]
SingleInv == \A c \in Peer : SingleFor(c)

AnswersInv == HTTPInv /\ (whole => WholeInv) /\ (whole /\ single => SingleInv)

\* A list of anything keeps being one when something is appended.
LEMMA AppendToList ==
    ASSUME NEW s, NEW e, IsList(s)
    PROVE  /\ Len(s) \in Nat /\ DOMAIN s = 1..Len(s)
           /\ IsList(Append(s, e)) /\ Len(Append(s, e)) = Len(s) + 1
           /\ \A i \in 1..Len(s) : Append(s, e)[i] = s[i]
           /\ Append(s, e)[Len(s) + 1] = e
<1> DEFINE S == {s[i] : i \in 1..Len(s)}
           t == Append(s, e)
<1>1. s \in Seq(S \cup {e}) /\ Len(s) \in Nat /\ DOMAIN s = 1..Len(s)
  BY DEF IsList
<1>2. t \in Seq(S \cup {e}) /\ Len(t) = Len(s) + 1
  BY <1>1
<1>3. t[Len(s) + 1] = e /\ \A i \in 1..Len(s) : t[i] = s[i]
  BY <1>1
<1>4. \A i \in 1..Len(t) : t[i] \in {t[j] : j \in 1..Len(t)}
  OBVIOUS
<1>5. t \in Seq({t[j] : j \in 1..Len(t)})
  BY <1>2, <1>4
<1> QED
  BY <1>1, <1>2, <1>3, <1>5 DEF IsList

\* The lines of the requests of a peer, three for each.
LEMMA LinesOfStream ==
    ASSUME NEW c \in Peer
    PROVE  /\ Len(Script[c]) \in Nat /\ DOMAIN Script[c] = 1..Len(Script[c])
           /\ Stream(c) \in Seq(LineOf(c)) /\ Len(Stream(c)) = 3 * Len(Script[c])
           /\ \A k \in 0..Len(Script[c]) : k < Len(Script[c]) =>
                /\ Stream(c)[3 * k + 1].kind = "request"
                /\ Stream(c)[3 * k + 1].method = Script[c][k + 1].method
                /\ Stream(c)[3 * k + 1].path = Script[c][k + 1].path
                /\ Stream(c)[3 * k + 2].kind = "header"
                /\ Stream(c)[3 * k + 2].close \in BOOLEAN
                /\ Stream(c)[3 * k + 3].kind = "empty"
<1>1. Len(Script[c]) \in Nat /\ DOMAIN Script[c] = 1..Len(Script[c])
  BY HTTPAssumption
<1> DEFINE n == Len(Script[c]) * 3
           Line(j) == Lines(Script[c][((j - 1) \div 3) + 1])[((j - 1) % 3) + 1]
<1>2. Stream(c) = [j \in 1..n |-> Line(j)] /\ n \in Nat
  BY <1>1 DEF Stream, LinesPerRequest
<1>3. Len(Stream(c)) = n /\ \A j \in 1..n : Stream(c)[j] = Line(j)
  <2>1. ASSUME NEW f, f = [j \in 1..n |-> Line(j)], n \in Nat
        PROVE  Len(f) = n /\ \A j \in 1..n : f[j] = Line(j)
    <3> HIDE DEF Line, n
    <3> QED
      BY <2>1
  <2> QED
    BY <1>2, <2>1
<1>4. Stream(c) \in Seq(LineOf(c))
  <2> HIDE DEF Line, n
  <2>1. \A j \in 1..n : Stream(c)[j] \in LineOf(c)
    BY <1>3 DEF LineOf
  <2>2. Stream(c) \in [1..n -> LineOf(c)]
    BY <1>2, <2>1
  <2> QED
    BY <1>2, <2>2
<1>5. ASSUME NEW k \in 0..Len(Script[c]), k < Len(Script[c])
      PROVE  /\ Stream(c)[3 * k + 1].kind = "request"
             /\ Stream(c)[3 * k + 1].method = Script[c][k + 1].method
             /\ Stream(c)[3 * k + 1].path = Script[c][k + 1].path
             /\ Stream(c)[3 * k + 2].kind = "header"
             /\ Stream(c)[3 * k + 2].close \in BOOLEAN
             /\ Stream(c)[3 * k + 3].kind = "empty"
  <2>1. /\ k \in Nat /\ 3 * k + 1 \in 1..n /\ 3 * k + 2 \in 1..n /\ 3 * k + 3 \in 1..n
        /\ k + 1 \in 1..Len(Script[c])
    BY <1>1, <1>5
  <2>2. /\ (3 * k) \div 3 = k /\ (3 * k + 1) \div 3 = k /\ (3 * k + 2) \div 3 = k
        /\ (3 * k) % 3 = 0 /\ (3 * k + 1) % 3 = 1 /\ (3 * k + 2) % 3 = 2
    BY <2>1
  <2>3. /\ 3 * k + 1 - 1 = 3 * k /\ 3 * k + 2 - 1 = 3 * k + 1
        /\ 3 * k + 3 - 1 = 3 * k + 2
    BY <2>1
  <2>4. /\ Line(3 * k + 1) = Lines(Script[c][k + 1])[1]
        /\ Line(3 * k + 2) = Lines(Script[c][k + 1])[2]
        /\ Line(3 * k + 3) = Lines(Script[c][k + 1])[3]
    <3>1. ASSUME NEW j, NEW d, (j - 1) \div 3 = k, (j - 1) % 3 = d
          PROVE  Line(j) = Lines(Script[c][k + 1])[d + 1]
      BY <3>1, Zenon
    <3> HIDE DEF Line
    <3> DEFINE j1 == 3 * k + 1
               j2 == 3 * k + 2
               j3 == 3 * k + 3
    <3>2. /\ (j1 - 1) \div 3 = k /\ (j2 - 1) \div 3 = k /\ (j3 - 1) \div 3 = k
          /\ (j1 - 1) % 3 = 0 /\ (j2 - 1) % 3 = 1 /\ (j3 - 1) % 3 = 2
      BY <2>2, <2>3
    <3> HIDE DEF j1, j2, j3
    <3>3. /\ Line(j1) = Lines(Script[c][k + 1])[0 + 1]
          /\ Line(j2) = Lines(Script[c][k + 1])[1 + 1]
          /\ Line(j3) = Lines(Script[c][k + 1])[2 + 1]
      BY <3>1, <3>2, Zenon
    <3> QED
      BY <3>3 DEF j1, j2, j3
  <2>5. Script[c][k + 1].close \in BOOLEAN
    BY <1>1, <2>1, HTTPAssumption
  <2>6. \A j \in 1..n : Stream(c)[j] = Line(j)
    BY <1>3
  <2> HIDE DEF Line, n
  <2>7. /\ Stream(c)[3 * k + 1] = Lines(Script[c][k + 1])[1]
        /\ Stream(c)[3 * k + 2] = Lines(Script[c][k + 1])[2]
        /\ Stream(c)[3 * k + 3] = Lines(Script[c][k + 1])[3]
    BY <2>1, <2>4, <2>6
  <2> QED
    BY <2>5, <2>7 DEF Lines
<1>6. Len(Stream(c)) = 3 * Len(Script[c])
  <2> HIDE DEF Line
  <2> QED
    BY <1>1, <1>3
<1> HIDE DEF Line, n
<1> QED
  BY <1>1, <1>4, <1>5, <1>6

LEMMA BufferNumbers ==
    ASSUME NEW c \in Peer, BufferInv(c)
    PROVE  /\ Len(recvBuffer[c]) \in Nat /\ arrived[c] \in Nat /\ Len(Script[c]) \in Nat
           /\ Taken(c) \in Nat /\ arrived[c] = Taken(c) + Len(recvBuffer[c])
           /\ arrived[c] <= 3 * Len(Script[c])
           /\ Len(Stream(c)) = 3 * Len(Script[c])
<1>1. /\ recvBuffer[c] \in Seq(LineOf(c)) /\ arrived[c] \in 0..Len(Stream(c))
      /\ Len(recvBuffer[c]) <= arrived[c]
  BY DEF BufferInv
<1>2. Len(Script[c]) \in Nat /\ Len(Stream(c)) = 3 * Len(Script[c])
  BY LinesOfStream
<1>3. Len(recvBuffer[c]) \in Nat /\ arrived[c] \in Nat /\ arrived[c] <= 3 * Len(Script[c])
  BY <1>1, <1>2
<1> QED
  BY <1>1, <1>2, <1>3 DEF Taken

LEMMA PieceOfSeq ==
    ASSUME NEW S, NEW s, NEW a \in Nat, NEW n \in Nat \ {0},
           \A i \in a + 1..a + n : s[i] \in S
    PROVE  /\ SubSeq(s, a + 1, a + n) \in Seq(S) /\ Len(SubSeq(s, a + 1, a + n)) = n
           /\ \A j \in 1..n : SubSeq(s, a + 1, a + n)[j] = s[a + j]
<1> DEFINE x == SubSeq(s, a + 1, a + n)
<1>1. a + 1 \in Int /\ a + n \in Int /\ a + 1 <= a + n
  OBVIOUS
<1>2. /\ x \in Seq(S)
      /\ Len(x) = IF a + 1 <= a + n THEN a + n - (a + 1) + 1 ELSE 0
      /\ \A j \in 1..a + n - (a + 1) + 1 : x[j] = s[a + 1 + j - 1]
  <2> HIDE DEF x
  <2>1. \A m, l \in Int : (\A i \in m..l : s[i] \in S) =>
          /\ SubSeq(s, m, l) \in Seq(S)
          /\ Len(SubSeq(s, m, l)) = IF m <= l THEN l - m + 1 ELSE 0
          /\ \A i \in 1..l - m + 1 : SubSeq(s, m, l)[i] = s[m + i - 1]
    BY SubSeqProperties
  <2> QED
    BY <1>1, <2>1 DEF x
<1>3. a + n - (a + 1) + 1 = n /\ \A j \in 1..n : a + 1 + j - 1 = a + j
  OBVIOUS
<1> HIDE DEF x
<1>4. Len(x) = n /\ \A j \in 1..n : x[j] = s[a + j]
  BY <1>1, <1>2, <1>3
<1> QED
  BY <1>2, <1>4 DEF x

\* What came is appended; the place of the reader in the stream stays.
LEMMA ReceivedBuffer ==
    ASSUME NEW c \in Peer, BufferInv(c), NEW n \in 1..Len(Stream(c)) - arrived[c]
    PROVE  /\ Received(c, n) \in Seq(LineOf(c))
           /\ Len(Received(c, n)) = Len(recvBuffer[c]) + n
           /\ \A j \in 1..Len(Received(c, n)) :
                Received(c, n)[j] = Stream(c)[Taken(c) + j]
<1> DEFINE r == recvBuffer[c]
           x == SubSeq(Stream(c), arrived[c] + 1, arrived[c] + n)
<1>1. /\ r \in Seq(LineOf(c)) /\ Len(r) \in Nat /\ arrived[c] \in Nat /\ n \in Nat \ {0}
      /\ Len(Stream(c)) \in Nat /\ arrived[c] + n <= Len(Stream(c))
  BY LinesOfStream DEF BufferInv
<1>2. \A i \in arrived[c] + 1..arrived[c] + n : Stream(c)[i] \in LineOf(c)
  BY <1>1 DEF LineOf
<1>3. /\ x \in Seq(LineOf(c)) /\ Len(x) = n
      /\ \A j \in 1..n : x[j] = Stream(c)[arrived[c] + j]
  <2> DEFINE a == arrived[c]
             s == Stream(c)
  <2>1. a \in Nat /\ n \in Nat \ {0} /\ \A i \in a + 1..a + n : s[i] \in LineOf(c)
    BY <1>1, <1>2
  <2> HIDE DEF a, s
  <2>2. /\ SubSeq(s, a + 1, a + n) \in Seq(LineOf(c)) /\ Len(SubSeq(s, a + 1, a + n)) = n
        /\ \A j \in 1..n : SubSeq(s, a + 1, a + n)[j] = s[a + j]
    BY <2>1, PieceOfSeq
  <2> QED
    BY <2>2 DEF a, s
<1> HIDE DEF x
<1>4. /\ r \o x \in Seq(LineOf(c)) /\ Len(r \o x) = Len(r) + n
      /\ \A j \in 1..Len(r) + n :
           (r \o x)[j] = IF j <= Len(r) THEN r[j] ELSE x[j - Len(r)]
  <2>1. /\ r \in Seq(LineOf(c)) /\ x \in Seq(LineOf(c)) /\ Len(x) = n
    BY <1>1, <1>3
  <2>2. /\ r \o x \in Seq(LineOf(c)) /\ Len(r \o x) = Len(r) + Len(x)
        /\ \A j \in 1..Len(r) + Len(x) :
             (r \o x)[j] = IF j <= Len(r) THEN r[j] ELSE x[j - Len(r)]
    <3> HIDE DEF r
    <3> QED
      BY <2>1, ConcatProperties
  <2> QED
    BY <2>1, <2>2
<1>5. ASSUME NEW j \in 1..Len(r) + n
      PROVE  (r \o x)[j] = Stream(c)[Taken(c) + j]
  <2>1. CASE j <= Len(r)
    BY <1>4, <1>5, <2>1 DEF BufferInv
  <2>2. CASE j > Len(r)
    <3>1. j - Len(r) \in 1..n /\ arrived[c] + (j - Len(r)) = Taken(c) + j
      BY <1>1, <1>5, <2>2 DEF Taken
    <3> QED
      <4>1. x[j - Len(r)] = Stream(c)[arrived[c] + (j - Len(r))]
        BY <1>3, <3>1
      <4>2. (r \o x)[j] = x[j - Len(r)]
        BY <1>1, <1>4, <1>5, <2>2
      <4> QED
        BY <3>1, <4>1, <4>2
  <2>3. j \in Int /\ Len(r) \in Int
    BY <1>1, <1>5
  <2>4. j <= Len(r) \/ j > Len(r)
    BY <2>3
  <2> QED
    BY <2>1, <2>2, <2>4
<1>6. Received(c, n) = r \o x
  BY DEF Received, x
<1> QED
  BY <1>4, <1>5, <1>6

\* Taking a line moves the place by one.
LEMMA TakenLine ==
    ASSUME NEW c \in Peer, BufferInv(c), recvBuffer[c] # <<>>
    PROVE  /\ Head(recvBuffer[c]) = Stream(c)[Taken(c) + 1]
           /\ Taken(c) \in 0..Len(Stream(c)) - 1 /\ Taken(c) < arrived[c]
           /\ Tail(recvBuffer[c]) \in Seq(LineOf(c))
           /\ Len(Tail(recvBuffer[c])) = Len(recvBuffer[c]) - 1
           /\ \A j \in 1..Len(recvBuffer[c]) - 1 :
                Tail(recvBuffer[c])[j] = Stream(c)[Taken(c) + 1 + j]
<1> DEFINE r == recvBuffer[c]
<1>1. /\ r \in Seq(LineOf(c)) /\ Len(r) \in Nat \ {0} /\ arrived[c] \in Nat
      /\ Len(Stream(c)) \in Nat /\ Len(r) <= arrived[c] /\ arrived[c] <= Len(Stream(c))
  BY LinesOfStream, EmptySeq DEF BufferInv
<1>2. Head(r) = Stream(c)[Taken(c) + 1]
  BY <1>1 DEF BufferInv
<1>3. /\ Tail(r) \in Seq(LineOf(c)) /\ Len(Tail(r)) = Len(r) - 1
      /\ \A j \in 1..Len(r) - 1 : Tail(r)[j] = r[j + 1]
  BY <1>1, HeadTailProperties
<1>4. ASSUME NEW j \in 1..Len(r) - 1
      PROVE  Tail(r)[j] = Stream(c)[Taken(c) + 1 + j]
  <2>1. j + 1 \in 1..Len(r) /\ Taken(c) + (j + 1) = Taken(c) + 1 + j
    BY <1>1, <1>4 DEF Taken
  <2> QED
    BY <1>3, <1>4, <2>1 DEF BufferInv
<1> QED
  BY <1>1, <1>2, <1>3, <1>4 DEF Taken

LEMMA ThreeDivides ==
    ASSUME NEW x \in Nat, x % 3 = 0
    PROVE  \E m \in Nat : x = 3 * m
<1>1. /\ x \div 3 \in Nat /\ 3 * (x \div 3) <= x /\ x < 3 * (x \div 3) + 3
  OBVIOUS
<1> DEFINE q == x \div 3
<1> HIDE DEF q
<1>2. q \in Nat /\ (x = 3 * q \/ x = 3 * q + 1 \/ x = 3 * q + 2)
  BY <1>1 DEF q
<1>3. (3 * q + 1) % 3 = 1 /\ (3 * q + 2) % 3 = 2
  BY <1>2
<1> QED
  BY <1>2, <1>3

LEMMA PlaceBelow ==
    ASSUME NEW t \in Nat, NEW a \in Nat, NEW l \in Nat, NEW k \in 0..l,
           t = 3 * k, t < a, a <= 3 * l
    PROVE  k < l
OBVIOUS

\* What a step does not touch keeps its place.
LEMMA SameBuffer ==
    ASSUME NEW d \in Peer, recvBuffer'[d] = recvBuffer[d], arrived'[d] = arrived[d]
    PROVE  BufferInv(d)' = BufferInv(d) /\ Taken(d)' = Taken(d)
BY DEF BufferInv, Taken

LEMMA IdlePeer ==
    ASSUME NEW d \in Peer, ~request[d].running, PeerInv(d),
           recvBuffer'[d] = recvBuffer[d], arrived'[d] = arrived[d],
           request'[d] = request[d], answers'[d] = answers[d],
           closing'[d] = closing[d]
    PROVE  PeerInv(d)' /\ (SingleFor(d) => SingleFor(d)')
<1>1. Rests(d) /\ ~request'[d].running
  BY DEF PeerInv, PlaceInv
<1>2. Rests(d)'
  BY <1>1 DEF Rests, Answered, Taken
<1>3. PlaceInv(d)'
  BY <1>1, <1>2 DEF PlaceInv
<1>4. RightFor(d)'
  BY DEF PeerInv, RightFor
<1>5. \E m \in 0..Len(Script[d]) : arrived'[d] = 3 * m
  BY DEF PeerInv
<1>6. SingleFor(d) => SingleFor(d)'
  BY <1>1 DEF SingleFor
<1> QED
  BY <1>3, <1>4, <1>5, <1>6 DEF PeerInv

\* A request keeps its form while lines are parsed.
LEMMA ParsedRequest ==
    ASSUME NEW q, NEW line, RequestInv(q), q.running
    PROVE  /\ q # NotRunning
           /\ RequestInv(ParseRequestLine(q, line))
           /\ ParseRequestLine(q, line).running
           /\ line.kind = "request" =>
                /\ ParseRequestLine(q, line).method = line.method
                /\ ParseRequestLine(q, line).path = line.path
           /\ (line.kind = "header" => line.close \in BOOLEAN)
                => RequestInv(ParseRequestHeader(q, line))
           /\ ParseRequestHeader(q, line).running
           /\ ParseRequestHeader(q, line).method = q.method
           /\ ParseRequestHeader(q, line).path = q.path
<1>1. q # NotRunning
  BY DEF NotRunning
<1>2. q = [running |-> TRUE, method |-> q.method, path |-> q.path, close |-> q.close]
      /\ q.close \in BOOLEAN
  BY <1>1 DEF RequestInv
<1> QED
  BY <1>1, <1>2 DEF RequestInv, ParseRequestLine, ParseRequestHeader

\* What kind of line is at a place of the stream.
LEMMA LineAtPlace ==
    ASSUME NEW c \in Peer, NEW p \in 0..Len(Stream(c)) - 1
    PROVE  Stream(c)[p + 1].kind = "header" => Stream(c)[p + 1].close \in BOOLEAN
<1> DEFINE q == p \div 3
<1>1. /\ q \in Nat /\ 3 * q <= p /\ p < 3 * q + 3 /\ p \in Nat
      /\ Len(Script[c]) \in Nat /\ p < 3 * Len(Script[c])
  BY LinesOfStream
<1> HIDE DEF q
<1>2. /\ q \in 0..Len(Script[c]) /\ q < Len(Script[c])
      /\ p + 1 \in {3 * q + 1, 3 * q + 2, 3 * q + 3}
  BY <1>1
<1>3. /\ Stream(c)[3 * q + 1].kind = "request"
      /\ Stream(c)[3 * q + 2].close \in BOOLEAN
      /\ Stream(c)[3 * q + 3].kind = "empty"
  BY <1>2, LinesOfStream
<1> QED
  BY <1>2, <1>3

LEMMA LineTaken ==
    ASSUME HTTPInv, NEW c \in Peer, recvBuffer[c] # <<>>, arrived' = arrived,
           recvBuffer' = [recvBuffer EXCEPT ![c] = Tail(@)]
    PROVE  /\ recvBuffer' = [d \in Peer |-> recvBuffer'[d]]
           /\ \A d \in Peer : BufferInv(d)'
           /\ Taken(c)' = Taken(c) + 1
           /\ \A d \in Peer \ {c} : recvBuffer'[d] = recvBuffer[d]
           /\ Head(recvBuffer[c]) = Stream(c)[Taken(c) + 1]
           /\ Taken(c) \in 0..Len(Stream(c)) - 1 /\ Taken(c) < arrived[c]
           /\ Head(recvBuffer[c]).kind = "header" => Head(recvBuffer[c]).close \in BOOLEAN
<1>1. /\ BufferInv(c) /\ recvBuffer = [d \in Peer |-> recvBuffer[d]]
      /\ \A d \in Peer : BufferInv(d)
  BY DEF HTTPInv
<1>2. /\ recvBuffer'[c] = Tail(recvBuffer[c])
      /\ \A d \in Peer \ {c} : recvBuffer'[d] = recvBuffer[d]
      /\ recvBuffer' = [d \in Peer |-> recvBuffer'[d]]
  BY <1>1
<1>3. /\ Head(recvBuffer[c]) = Stream(c)[Taken(c) + 1]
      /\ Taken(c) \in 0..Len(Stream(c)) - 1 /\ Taken(c) < arrived[c]
      /\ recvBuffer'[c] \in Seq(LineOf(c))
      /\ Len(recvBuffer'[c]) = Len(recvBuffer[c]) - 1
      /\ \A j \in 1..Len(recvBuffer[c]) - 1 : recvBuffer'[c][j] = Stream(c)[Taken(c) + 1 + j]
  BY <1>1, <1>2, TakenLine
<1>4. /\ Len(recvBuffer[c]) \in Nat /\ arrived[c] \in Nat
      /\ arrived[c] \in 0..Len(Stream(c)) /\ Len(recvBuffer[c]) <= arrived[c]
  BY <1>1, LinesOfStream DEF BufferInv
<1>5. Taken(c)' = Taken(c) + 1
  BY <1>3, <1>4 DEF Taken
<1>6. BufferInv(c)'
  <2>1. \A j \in 1..Len(recvBuffer'[c]) : recvBuffer'[c][j] = Stream(c)[Taken(c)' + j]
    BY <1>3, <1>4, <1>5
  <2> QED
    BY <1>3, <1>4, <2>1 DEF BufferInv
<1>7. \A d \in Peer : BufferInv(d)'
  BY <1>1, <1>2, <1>6, SameBuffer
<1>8. Head(recvBuffer[c]).kind = "header" => Head(recvBuffer[c]).close \in BOOLEAN
  BY <1>3, LineAtPlace
<1> QED
  BY <1>2, <1>3, <1>5, <1>7, <1>8

\* The types of the variables, and what is in the buffers, whatever the parser does.
LEMMA HTTPTypesStep ==
    ASSUME HTTPInv, NEW c \in Peer, Receive(c) \/ OnMessage(c)
    PROVE  HTTPInv'
<1>1. /\ request = [d \in Peer |-> request[d]] /\ recvBuffer = [d \in Peer |-> recvBuffer[d]]
      /\ answers = [d \in Peer |-> answers[d]] /\ arrived \in [Peer -> Nat]
      /\ closing \in [Peer -> {"open", "asked", "shut"}] /\ whole \in BOOLEAN /\ single \in BOOLEAN
      /\ codecState \in {"kRequestLine", "kRequestHeaders", "kGotAll"}
  BY DEF HTTPInv
<1>2. \A d \in Peer : BufferInv(d) /\ RequestInv(request[d]) /\ IsList(answers[d])
  BY DEF HTTPInv
<1>3. RequestInv(NotRunning) /\ RequestInv(Blank)
  BY DEF RequestInv, Blank
<1>4. CASE Receive(c)
  <2>1. PICK n \in 1..Len(Stream(c)) - arrived[c] :
          /\ arrived' = [arrived EXCEPT ![c] = @ + n]
          /\ recvBuffer' = [recvBuffer EXCEPT ![c] = Received(c, n)]
          /\ whole' \in BOOLEAN /\ single' \in BOOLEAN
    BY <1>1, <1>4 DEF Receive
  <2>2. /\ request' = [request EXCEPT ![c] = Blank]
        /\ UNCHANGED <<codecState, answers, closing>>
    BY <1>4 DEF Receive
  <2>3. /\ arrived'[c] = arrived[c] + n /\ recvBuffer'[c] = Received(c, n)
        /\ \A d \in Peer \ {c} : arrived'[d] = arrived[d] /\ recvBuffer'[d] = recvBuffer[d]
    BY <1>1, <2>1
  <2>4. /\ Received(c, n) \in Seq(LineOf(c))
        /\ Len(Received(c, n)) = Len(recvBuffer[c]) + n
        /\ \A j \in 1..Len(Received(c, n)) : Received(c, n)[j] = Stream(c)[Taken(c) + j]
    BY <1>2, ReceivedBuffer
  <2>5. BufferInv(c)'
    <3>1. /\ Len(Stream(c)) \in Nat /\ arrived[c] \in Nat /\ n \in Nat
          /\ arrived[c] + n <= Len(Stream(c))
          /\ Len(recvBuffer[c]) \in Nat /\ Len(recvBuffer[c]) <= arrived[c]
      BY <1>1, <1>2, <2>1, LinesOfStream DEF BufferInv
    <3>2. Taken(c)' = Taken(c)
      BY <2>3, <2>4, <3>1 DEF Taken
    <3> QED
      BY <2>3, <2>4, <3>1, <3>2 DEF BufferInv
  <2>6. \A d \in Peer : BufferInv(d)'
    BY <1>2, <2>3, <2>5, SameBuffer
  <2>7. \A d \in Peer : RequestInv(request'[d]) /\ IsList(answers'[d])
    BY <1>1, <1>2, <1>3, <2>2
  <2>8. arrived' \in [Peer -> Nat]
    <3>1. n \in Nat
      BY <1>1, <2>1, LinesOfStream
    <3> QED
      BY <1>1, <2>1, <3>1
  <2> QED
    BY <1>1, <2>1, <2>2, <2>6, <2>7, <2>8 DEF HTTPInv
<1>5. CASE RequestLine(c)
  <2>1. /\ recvBuffer[c] # <<>> /\ arrived' = arrived
        /\ recvBuffer' = [recvBuffer EXCEPT ![c] = Tail(@)]
        /\ request' = [request EXCEPT ![c] = ParseRequestLine(@, Head(recvBuffer[c]))]
        /\ codecState' = "kRequestHeaders" /\ request[c].running
        /\ UNCHANGED <<answers, closing, whole, single>>
    BY <1>5 DEF RequestLine
  <2>2. recvBuffer' = [d \in Peer |-> recvBuffer'[d]] /\ \A d \in Peer : BufferInv(d)'
    BY <2>1, LineTaken
  <2>3. \A d \in Peer : RequestInv(request'[d])
    BY <1>1, <1>2, <2>1, ParsedRequest
  <2> QED
    BY <1>1, <1>2, <2>1, <2>2, <2>3 DEF HTTPInv
<1>6. CASE RequestHeader(c)
  <2>1. /\ recvBuffer[c] # <<>> /\ arrived' = arrived
        /\ recvBuffer' = [recvBuffer EXCEPT ![c] = Tail(@)]
        /\ request' = [request EXCEPT ![c] = ParseRequestHeader(@, Head(recvBuffer[c]))]
        /\ codecState' \in {codecState, "kGotAll"} /\ request[c].running
        /\ UNCHANGED <<answers, closing, whole, single>>
    BY <1>6 DEF RequestHeader
  <2>2. /\ recvBuffer' = [d \in Peer |-> recvBuffer'[d]] /\ \A d \in Peer : BufferInv(d)'
        /\ Head(recvBuffer[c]).kind = "header" => Head(recvBuffer[c]).close \in BOOLEAN
    BY <2>1, LineTaken
  <2>3. \A d \in Peer : RequestInv(request'[d])
    BY <1>1, <1>2, <2>1, <2>2, ParsedRequest
  <2> QED
    BY <1>1, <1>2, <2>1, <2>2, <2>3 DEF HTTPInv
<1>7. CASE Incomplete(c)
  <2>1. /\ request' = [request EXCEPT ![c] = NotRunning]
        /\ UNCHANGED <<codecState, recvBuffer, arrived, answers, closing, whole, single>>
    BY <1>7 DEF Incomplete
  <2>2. \A d \in Peer : BufferInv(d)' /\ RequestInv(request'[d])
    BY <1>1, <1>2, <1>3, <2>1, SameBuffer
  <2> QED
    BY <1>1, <1>2, <2>1, <2>2 DEF HTTPInv
<1>8. CASE Respond(c)
  <2>1. answers' = answers \/ \E response :
          answers' = [answers EXCEPT ![c] = Append(@, response)]
    BY <1>8 DEF Respond
  <2>2. /\ request' = [request EXCEPT ![c] = NotRunning]
        /\ codecState' = "kRequestLine" /\ request[c].running
        /\ UNCHANGED <<recvBuffer, arrived, whole, single>>
    BY <1>8 DEF Respond
  <2>3. \/ closing' = [closing EXCEPT ![c] = IF request[c].close THEN "asked" ELSE @]
        \/ closing' = [closing EXCEPT ![c] = "shut"]
    BY <1>8 DEF Respond, Asked
  <2>4. closing' \in [Peer -> {"open", "asked", "shut"}]
    BY <1>1, <2>3
  <2>5. \A d \in Peer : BufferInv(d)' /\ RequestInv(request'[d])
    BY <1>1, <1>2, <1>3, <2>2, SameBuffer
  <2>6. /\ answers' = [d \in Peer |-> answers'[d]]
        /\ \A d \in Peer : IsList(answers'[d])
    <3>1. CASE answers' = answers
      BY <1>1, <1>2, <3>1
    <3>2. CASE answers' # answers
      <4>1. PICK response : answers' = [answers EXCEPT ![c] = Append(@, response)]
        BY <2>1, <3>2
      <4> QED
        BY <1>1, <1>2, <4>1, AppendToList
    <3> QED
      BY <3>1, <3>2
  <2> QED
    BY <1>1, <2>2, <2>4, <2>5, <2>6 DEF HTTPInv
<1> QED
  BY <1>4, <1>5, <1>6, <1>7, <1>8 DEF OnMessage

\* It is enough to look at the peer of the step, when no other call runs.
LEMMA WholeByPeer ==
    ASSUME NEW c \in Peer, HTTPInv', \A d \in Peer : PeerInv(d),
           \A d \in Peer \ {c} :
             /\ ~request[d].running
             /\ recvBuffer'[d] = recvBuffer[d] /\ arrived'[d] = arrived[d]
             /\ request'[d] = request[d] /\ answers'[d] = answers[d]
             /\ closing'[d] = closing[d],
           PeerInv(c)', request'[c].running \/ codecState' = "kRequestLine"
    PROVE  /\ WholeInv'
           /\ SingleInv /\ SingleFor(c)' => SingleInv'
<1>1. \A d \in Peer \ {c} : PeerInv(d)' /\ (SingleFor(d) => SingleFor(d)')
  BY IdlePeer
<1>2. \A d \in Peer \ {c} : ~request'[d].running
  OBVIOUS
<1>3. \A d, e \in Peer : request'[d].running /\ request'[e].running => d = e
  BY <1>2
<1>4. (\A d \in Peer : ~request'[d].running) => codecState' = "kRequestLine"
  OBVIOUS
<1>5. WholeInv'
  BY <1>1, <1>3, <1>4 DEF WholeInv
<1> QED
  BY <1>1, <1>5 DEF SingleInv

LEMMA ReceiveKeeps ==
    ASSUME AnswersInv, NEW c \in Peer, Receive(c), HTTPInv', whole'
    PROVE  WholeInv' /\ (single' => SingleInv')
<1>1. PICK n \in 1..Len(Stream(c)) - arrived[c] :
        /\ arrived' = [arrived EXCEPT ![c] = @ + n]
        /\ recvBuffer' = [recvBuffer EXCEPT ![c] = Received(c, n)]
        /\ whole /\ (arrived[c] + n) % 3 = 0
        /\ \A d \in Peer : ~request[d].running
        /\ single' => single /\ n <= 3
  BY DEF Receive, LinesPerRequest
<1>2. /\ request' = [request EXCEPT ![c] = Blank]
      /\ UNCHANGED <<codecState, answers, closing>>
  BY DEF Receive
<1>3. HTTPInv /\ WholeInv
  BY <1>1 DEF AnswersInv
<1>4. /\ request = [d \in Peer |-> request[d]] /\ recvBuffer = [d \in Peer |-> recvBuffer[d]]
      /\ arrived \in [Peer -> Nat] /\ BufferInv(c)
  BY <1>3 DEF HTTPInv
<1>5. \A d \in Peer \ {c} : /\ recvBuffer'[d] = recvBuffer[d] /\ arrived'[d] = arrived[d]
                            /\ request'[d] = request[d] /\ answers'[d] = answers[d]
                            /\ closing'[d] = closing[d]
  BY <1>1, <1>2, <1>4
<1>6. /\ arrived'[c] = arrived[c] + n /\ recvBuffer'[c] = Received(c, n)
      /\ request'[c].running /\ answers'[c] = answers[c] /\ closing'[c] = closing[c]
  BY <1>1, <1>2, <1>4 DEF Blank
<1>7. codecState' = "kRequestLine"
  BY <1>1, <1>2, <1>3 DEF WholeInv
<1>8. PeerInv(c) /\ \A d \in Peer : PeerInv(d)
  BY <1>3 DEF WholeInv
<1>9. /\ Len(Received(c, n)) = Len(recvBuffer[c]) + n
      /\ Len(recvBuffer[c]) \in Nat /\ Len(recvBuffer[c]) <= arrived[c]
      /\ arrived[c] \in Nat /\ n \in Nat \ {0} /\ Len(Script[c]) \in Nat
      /\ arrived[c] + n <= 3 * Len(Script[c])
  <2>1. Len(Received(c, n)) = Len(recvBuffer[c]) + n
    BY <1>4, ReceivedBuffer
  <2>2. /\ Len(recvBuffer[c]) \in Nat /\ arrived[c] \in Nat /\ Len(Script[c]) \in Nat
        /\ Taken(c) \in Nat /\ arrived[c] = Taken(c) + Len(recvBuffer[c])
        /\ arrived[c] <= 3 * Len(Script[c]) /\ Len(Stream(c)) = 3 * Len(Script[c])
    BY <1>4, BufferNumbers
  <2>3. n \in 1..3 * Len(Script[c]) - arrived[c]
    BY <1>1, <2>2
  <2> QED
    BY <2>1, <2>2, <2>3
<1>10. Taken(c)' = Taken(c) /\ Taken(c) <= arrived[c]
  BY <1>6, <1>9 DEF Taken
<1>11. PICK p \in 0..Len(Script[c]) : arrived'[c] = 3 * p
  <2>1. (arrived[c] + n) % 3 = 0
    BY <1>1, Zenon
  <2>2. arrived[c] + n \in Nat
    BY <1>9
  <2>3. PICK p \in Nat : arrived[c] + n = 3 * p
    BY <2>1, <2>2, ThreeDivides
  <2>4. 3 * p <= 3 * Len(Script[c]) /\ Len(Script[c]) \in Nat
    BY <1>9, <2>3
  <2>5. p \in 0..Len(Script[c])
    BY <2>3, <2>4
  <2> QED
    BY <1>6, <2>3, <2>5
<1>12. PICK m \in 0..Len(Script[c]) : arrived[c] = 3 * m
  BY <1>8 DEF PeerInv
<1>13. PeerInv(c)'
  <2>1. Rests(c)
    BY <1>1, <1>8 DEF PeerInv, PlaceInv
  <2>2. Rests(c)'
    BY <1>6, <1>10, <2>1 DEF Rests, Answered
  <2>3. Taken(c)' < arrived'[c]
    <3>1. Taken(c) \in Int
      BY <1>9 DEF Taken
    <3> QED
      BY <1>6, <1>9, <1>10, <3>1
  <2>4. Starts(c)'
    BY <1>7, <2>2, <2>3 DEF Starts
  <2>5. RightFor(c)'
    BY <1>6, <1>8 DEF PeerInv, RightFor
  <2> QED
    BY <1>6, <1>11, <2>4, <2>5 DEF PeerInv, PlaceInv
<1>14. WholeInv' /\ (SingleInv /\ SingleFor(c)' => SingleInv')
  BY <1>1, <1>5, <1>7, <1>8, <1>13, WholeByPeer
<1>15. ASSUME single'
       PROVE  SingleInv'
  <2>1. SingleInv /\ n <= 3
    BY <1>1, <1>15 DEF AnswersInv
  <2>2. Len(recvBuffer[c]) = 0
    BY <1>1, <2>1 DEF SingleInv, SingleFor
  <2>3. Taken(c) = 3 * m /\ arrived'[c] = 3 * m + 3
    BY <1>6, <1>9, <1>11, <1>12, <2>1, <2>2 DEF Taken
  <2>4. SingleFor(c)'
    BY <1>6, <1>7, <1>9, <1>10, <1>12, <2>3 DEF SingleFor
  <2> QED
    BY <1>14, <2>1, <2>4
<1> QED
  BY <1>14, <1>15

\* While a call runs no other one does, and its place is known.
LEMMA RunningPeer ==
    ASSUME HTTPInv, WholeInv, NEW c \in Peer, request[c].running
    PROVE  /\ \A d \in Peer \ {c} : ~request[d].running
           /\ \A d \in Peer : PeerInv(d)
           /\ Starts(c) \/ InHeaders(c) \/ Parsed(c)
           /\ Taken(c) \in Nat /\ Len(Script[c]) \in Nat
           /\ Len(recvBuffer[c]) \in Nat /\ arrived[c] \in Nat
           /\ arrived[c] = Taken(c) + Len(recvBuffer[c])
           /\ arrived[c] <= 3 * Len(Script[c])
           /\ \E m \in 0..Len(Script[c]) : arrived[c] = 3 * m
<1>1. \A d \in Peer \ {c} : ~request[d].running
  BY DEF WholeInv
<1>2. PeerInv(c) /\ \A d \in Peer : PeerInv(d)
  BY DEF WholeInv
<1>3. BufferInv(c)
  BY DEF HTTPInv
<1> QED
  BY <1>1, <1>2, <1>3, BufferNumbers DEF PeerInv, PlaceInv

\* A call that expects a request line finds the one of the next request.
LEMMA RequestLineKeeps ==
    ASSUME AnswersInv, NEW c \in Peer, RequestLine(c), HTTPInv', whole'
    PROVE  WholeInv' /\ (single' => SingleInv')
<1>1. /\ request[c].running /\ codecState = "kRequestLine" /\ recvBuffer[c] # <<>>
      /\ request' = [request EXCEPT ![c] = ParseRequestLine(@, Head(recvBuffer[c]))]
      /\ recvBuffer' = [recvBuffer EXCEPT ![c] = Tail(@)]
      /\ codecState' = "kRequestHeaders" /\ arrived' = arrived
      /\ UNCHANGED <<answers, closing, whole, single>>
  BY DEF RequestLine
<1>2. HTTPInv /\ WholeInv
  BY <1>1 DEF AnswersInv
<1>3. /\ request = [d \in Peer |-> request[d]] /\ RequestInv(request[c])
  BY <1>2 DEF HTTPInv
<1>4. /\ Taken(c)' = Taken(c) + 1
      /\ \A d \in Peer \ {c} : recvBuffer'[d] = recvBuffer[d]
      /\ Head(recvBuffer[c]) = Stream(c)[Taken(c) + 1]
      /\ Taken(c) < arrived[c]
  BY <1>1, <1>2, LineTaken
<1>5. /\ \A d \in Peer \ {c} : ~request[d].running
      /\ \A d \in Peer : PeerInv(d)
      /\ Starts(c) \/ InHeaders(c) \/ Parsed(c)
      /\ Taken(c) \in Nat /\ Len(Script[c]) \in Nat
      /\ Len(recvBuffer[c]) \in Nat /\ arrived[c] \in Nat
      /\ arrived[c] = Taken(c) + Len(recvBuffer[c])
      /\ arrived[c] <= 3 * Len(Script[c])
  BY <1>1, <1>2, RunningPeer
<1>6. PICK k \in 0..Len(Script[c]) : Taken(c) = 3 * k /\ Answered(c, k)
  BY <1>1, <1>5 DEF Starts, InHeaders, Parsed, Rests
<1>7. k < Len(Script[c])
  <2>1. /\ Taken(c) = 3 * k /\ k \in 0..Len(Script[c]) /\ Taken(c) < arrived[c]
        /\ Taken(c) \in Nat /\ Len(Script[c]) \in Nat /\ arrived[c] \in Nat
        /\ arrived[c] <= 3 * Len(Script[c])
    BY <1>4, <1>5, <1>6, Zenon
  <2> QED
    BY <2>1, PlaceBelow
<1>8. /\ Head(recvBuffer[c]).kind = "request"
      /\ Head(recvBuffer[c]).method = Script[c][k + 1].method
      /\ Head(recvBuffer[c]).path = Script[c][k + 1].path
  BY <1>4, <1>6, <1>7, LinesOfStream
<1>9. /\ request'[c].running /\ request'[c].method = Script[c][k + 1].method
      /\ request'[c].path = Script[c][k + 1].path
  BY <1>1, <1>3, <1>8, ParsedRequest
<1>10. InHeaders(c)'
  <2>1. Reads(c, k)'
    BY <1>5, <1>7, <1>9 DEF Reads
  <2>2. Answered(c, k)'
    BY <1>1, <1>6 DEF Answered
  <2>3. Taken(c)' = 3 * k + 1
    BY <1>4, <1>6
  <2> QED
    BY <1>1, <2>1, <2>2, <2>3 DEF InHeaders
<1>11. PeerInv(c)'
  <2>1. \E m \in 0..Len(Script[c]) : arrived'[c] = 3 * m
    BY <1>1, <1>5 DEF PeerInv
  <2>2. RightFor(c)'
    BY <1>1, <1>5 DEF PeerInv, RightFor
  <2> QED
    BY <1>9, <1>10, <2>1, <2>2 DEF PeerInv, PlaceInv
<1>12. WholeInv' /\ (SingleInv /\ SingleFor(c)' => SingleInv')
  <2>1. \A d \in Peer \ {c} :
          /\ request'[d] = request[d] /\ arrived'[d] = arrived[d]
          /\ answers'[d] = answers[d] /\ closing'[d] = closing[d]
    BY <1>1, <1>3
  <2> QED
    BY <1>4, <1>5, <1>9, <1>11, <2>1, WholeByPeer
<1>13. ASSUME single'
       PROVE  SingleInv'
  <2>1. SingleInv
    BY <1>1, <1>13 DEF AnswersInv
  <2>2. PICK l \in 0..Len(Script[c]) :
          arrived[c] = 3 * l + 3 /\ 3 * l <= Taken(c) /\ Taken(c) < arrived[c]
    BY <1>1, <2>1 DEF SingleInv, SingleFor
  <2>3. /\ Taken(c) = 3 * k /\ k \in Nat /\ l \in Nat
        /\ Taken(c)' = Taken(c) + 1 /\ arrived'[c] = arrived[c]
    BY <1>1, <1>4, <1>5, <1>6
  <2>4. 3 * l <= Taken(c)' /\ Taken(c)' < arrived'[c] /\ arrived'[c] = 3 * l + 3
    BY <2>2, <2>3
  <2>5. SingleFor(c)'
    BY <1>1, <1>9, <2>4 DEF SingleFor
  <2> QED
    BY <1>12, <2>1, <2>5
<1> QED
  BY <1>12, <1>13

\* The header of the request and its empty line come where they are expected.
LEMMA RequestHeaderKeeps ==
    ASSUME AnswersInv, NEW c \in Peer, RequestHeader(c), HTTPInv', whole'
    PROVE  WholeInv' /\ (single' => SingleInv')
<1>1. /\ request[c].running /\ codecState = "kRequestHeaders" /\ recvBuffer[c] # <<>>
      /\ request' = [request EXCEPT ![c] = ParseRequestHeader(@, Head(recvBuffer[c]))]
      /\ recvBuffer' = [recvBuffer EXCEPT ![c] = Tail(@)]
      /\ codecState' = IF Head(recvBuffer[c]).kind = "empty" THEN "kGotAll" ELSE codecState
      /\ arrived' = arrived
      /\ UNCHANGED <<answers, closing, whole, single>>
  BY DEF RequestHeader
<1>2. HTTPInv /\ WholeInv
  BY <1>1 DEF AnswersInv
<1>3. /\ request = [d \in Peer |-> request[d]] /\ RequestInv(request[c])
  BY <1>2 DEF HTTPInv
<1>4. /\ Taken(c)' = Taken(c) + 1
      /\ \A d \in Peer \ {c} : recvBuffer'[d] = recvBuffer[d]
      /\ Head(recvBuffer[c]) = Stream(c)[Taken(c) + 1]
      /\ Taken(c) < arrived[c]
  BY <1>1, <1>2, LineTaken
<1>5. /\ \A d \in Peer \ {c} : ~request[d].running
      /\ \A d \in Peer : PeerInv(d)
      /\ Starts(c) \/ InHeaders(c) \/ Parsed(c)
      /\ Taken(c) \in Nat /\ Len(Script[c]) \in Nat
      /\ Len(recvBuffer[c]) \in Nat /\ arrived[c] \in Nat
      /\ arrived[c] = Taken(c) + Len(recvBuffer[c])
  BY <1>1, <1>2, RunningPeer
<1>6. PICK k \in 0..Len(Script[c]) :
        Taken(c) \in {3 * k + 1, 3 * k + 2} /\ Reads(c, k) /\ Answered(c, k)
  BY <1>1, <1>5 DEF Starts, InHeaders, Parsed
<1>7. k \in Nat /\ k < Len(Script[c])
  BY <1>5, <1>6 DEF Reads
<1>8. /\ request'[c].running /\ request'[c].method = request[c].method
      /\ request'[c].path = request[c].path
  BY <1>1, <1>3, ParsedRequest
<1>9. Reads(c, k)' /\ Answered(c, k)'
  <2>1. Reads(c, k)'
    BY <1>6, <1>8 DEF Reads
  <2>2. Answered(c, k)'
    BY <1>1, <1>6 DEF Answered
  <2> QED
    BY <2>1, <2>2
<1>10. /\ Stream(c)[3 * k + 2].kind = "header" /\ Stream(c)[3 * k + 3].kind = "empty"
  BY <1>6, <1>7, LinesOfStream
<1>11. \/ /\ Taken(c) = 3 * k + 1 /\ Taken(c)' = 3 * k + 2
          /\ codecState' = "kRequestHeaders"
       \/ /\ Taken(c) = 3 * k + 2 /\ Taken(c)' = 3 * k + 3
          /\ codecState' = "kGotAll"
  <2>1. CASE Taken(c) = 3 * k + 1
    <3>1. Taken(c) + 1 = 3 * k + 2
      BY <1>7, <2>1
    <3>2. Head(recvBuffer[c]).kind # "empty"
      BY <1>4, <1>10, <3>1
    <3> QED
      BY <1>1, <1>4, <2>1, <3>1, <3>2
  <2>2. CASE Taken(c) = 3 * k + 2
    <3>1. Taken(c) + 1 = 3 * k + 3
      BY <1>7, <2>2
    <3>2. Head(recvBuffer[c]).kind = "empty"
      BY <1>4, <1>10, <3>1
    <3> QED
      BY <1>1, <1>4, <2>2, <3>1, <3>2
  <2> QED
    BY <1>6, <2>1, <2>2
<1>12. InHeaders(c)' \/ Parsed(c)'
  BY <1>6, <1>9, <1>11 DEF InHeaders, Parsed
<1>13. PeerInv(c)'
  <2>1. \E m \in 0..Len(Script[c]) : arrived'[c] = 3 * m
    BY <1>1, <1>5 DEF PeerInv
  <2>2. RightFor(c)'
    BY <1>1, <1>5 DEF PeerInv, RightFor
  <2> QED
    BY <1>8, <1>12, <2>1, <2>2 DEF PeerInv, PlaceInv
<1>14. WholeInv' /\ (SingleInv /\ SingleFor(c)' => SingleInv')
  <2>1. \A d \in Peer \ {c} :
          /\ request'[d] = request[d] /\ arrived'[d] = arrived[d]
          /\ answers'[d] = answers[d] /\ closing'[d] = closing[d]
    BY <1>1, <1>3
  <2> QED
    BY <1>4, <1>5, <1>8, <1>13, <2>1, WholeByPeer
<1>15. ASSUME single'
       PROVE  SingleInv'
  <2>1. SingleInv
    BY <1>1, <1>15 DEF AnswersInv
  <2>2. PICK l \in 0..Len(Script[c]) :
          arrived[c] = 3 * l + 3 /\ 3 * l <= Taken(c) /\ Taken(c) < arrived[c]
    BY <1>1, <2>1 DEF SingleInv, SingleFor
  <2>3. k = l
    BY <1>6, <1>7, <2>2
  <2>4. arrived'[c] = 3 * k + 3
    BY <1>1, <2>2, <2>3
  <2>5. CASE codecState' = "kGotAll"
    <3>1. Taken(c)' = arrived'[c]
      BY <1>1, <1>11, <2>4, <2>5
    <3>2. Len(recvBuffer[c])' = 0
      <4>1. BufferInv(c)'
        BY DEF HTTPInv
      <4>2. Len(recvBuffer'[c]) \in Nat /\ arrived'[c] \in Nat
        BY <4>1, LinesOfStream DEF BufferInv
      <4> QED
        BY <3>1, <4>2 DEF Taken
    <3> QED
      BY <1>8, <2>1, <1>14, <2>5, <3>2 DEF SingleFor
  <2>6. CASE codecState' # "kGotAll"
    <3>1. 3 * k <= Taken(c)' /\ Taken(c)' < arrived'[c]
      BY <1>7, <1>11, <2>4, <2>6
    <3>2. SingleFor(c)'
      BY <1>6, <1>8, <2>4, <2>6, <3>1 DEF SingleFor
    <3> QED
      BY <1>14, <2>1, <3>2
  <2> QED
    BY <2>5, <2>6
<1> QED
  BY <1>14, <1>15

\* The buffer of a call that found complete requests does not end within one.
LEMMA NeverIncomplete ==
    ASSUME HTTPInv, WholeInv, NEW c \in Peer
    PROVE  ~Incomplete(c)
<1> SUFFICES ASSUME Incomplete(c)
             PROVE  FALSE
  OBVIOUS
<1>1. request[c].running /\ codecState # "kGotAll" /\ recvBuffer[c] = <<>>
  BY DEF Incomplete
<1>2. /\ Starts(c) \/ InHeaders(c)
      /\ Taken(c) \in Nat /\ Len(recvBuffer[c]) = 0 /\ Len(Script[c]) \in Nat
      /\ arrived[c] = Taken(c) + Len(recvBuffer[c])
      /\ \E m \in 0..Len(Script[c]) : arrived[c] = 3 * m
  BY <1>1, RunningPeer DEF Parsed
<1>3. PICK m \in 0..Len(Script[c]) : arrived[c] = 3 * m
  BY <1>2
<1>4. m \in Nat /\ Taken(c) = 3 * m
  BY <1>2, <1>3
<1>5. CASE Starts(c)
  BY <1>2, <1>3, <1>4, <1>5 DEF Starts
<1>6. CASE InHeaders(c)
  <2>1. PICK k \in 0..Len(Script[c]) : Taken(c) \in {3 * k + 1, 3 * k + 2}
    BY <1>6 DEF InHeaders
  <2>2. k \in Nat
    BY <1>2, <2>1
  <2> QED
    BY <1>4, <2>1, <2>2
<1> QED
  BY <1>2, <1>5, <1>6

\* The page that answers a request is one of its own.
LEMMA OwnPage ==
    ASSUME NEW r, NEW exists, NEW response \in Responses(r.method, r.path, exists)
    PROVE  response.body \in Pages(r)
BY DEF Responses, Pages, FileList

\* The answer goes to the request that was read, which is the next one to answer.
LEMMA RespondKeeps ==
    ASSUME AnswersInv, NEW c \in Peer, Respond(c), HTTPInv', whole'
    PROVE  WholeInv' /\ (single' => SingleInv')
<1>1. /\ request[c].running /\ codecState = "kGotAll" /\ codecState' = "kRequestLine"
      /\ request' = [request EXCEPT ![c] = NotRunning]
      /\ UNCHANGED <<recvBuffer, arrived, whole, single>>
  BY DEF Respond
<1>3. HTTPInv /\ WholeInv
  BY <1>1 DEF AnswersInv
<1>4. /\ request = [d \in Peer |-> request[d]] /\ answers = [d \in Peer |-> answers[d]]
      /\ closing \in [Peer -> {"open", "asked", "shut"}] /\ IsList(answers[c])
  BY <1>3 DEF HTTPInv
<1>5. /\ \A d \in Peer \ {c} : ~request[d].running
      /\ \A d \in Peer : PeerInv(d)
      /\ Starts(c) \/ InHeaders(c) \/ Parsed(c)
      /\ Taken(c) \in Nat /\ Len(Script[c]) \in Nat
      /\ Len(recvBuffer[c]) \in Nat
  BY <1>1, <1>3, RunningPeer
<1>6. PICK k \in 0..Len(Script[c]) :
        Taken(c) = 3 * k + 3 /\ Reads(c, k) /\ Answered(c, k)
  BY <1>1, <1>5 DEF Starts, InHeaders, Parsed
<1>7. k \in Nat /\ k + 1 \in 0..Len(Script[c]) /\ k + 1 \in DOMAIN Script[c]
  BY <1>5, <1>6, LinesOfStream DEF Reads
<1>8. RightFor(c)
  BY <1>5 DEF PeerInv
<1>9. ASSUME closing[c] # "open", closing' = [closing EXCEPT ![c] = "shut"],
             UNCHANGED answers
      PROVE  Answered(c, k + 1)' /\ RightFor(c)'
  <2>1. closing'[c] = "shut"
    BY <1>4, <1>9
  <2>2. Len(answers[c]) <= k + 1
    <3>1. Len(answers[c]) \in Nat /\ Len(answers[c]) <= k
      BY <1>4, <1>6, AppendToList DEF Answered
    <3> QED
      BY <1>7, <3>1
  <2> QED
    BY <1>8, <1>9, <2>1, <2>2 DEF Answered, RightFor
<1>10. ASSUME closing[c] # "shut", closing' = Asked(c),
              \E method \in Methods(request[c]), exists \in BOOLEAN :
                \E response \in Responses(method, request[c].path, exists) :
                  answers' = [answers EXCEPT ![c] = Append(@, response)]
       PROVE  Answered(c, k + 1)' /\ RightFor(c)'
  <2>1. PICK method \in Methods(request[c]), exists \in BOOLEAN :
          \E response \in Responses(method, request[c].path, exists) :
            answers' = [answers EXCEPT ![c] = Append(@, response)]
    BY <1>10
  <2>2. PICK response \in Responses(method, request[c].path, exists) :
          answers' = [answers EXCEPT ![c] = Append(@, response)]
    BY <2>1
  <2>3. response.body \in Pages(Script[c][k + 1])
    <3>1. /\ request[c].method = Script[c][k + 1].method
          /\ request[c].path = Script[c][k + 1].path
      BY <1>6 DEF Reads
    <3>2. request[c].method # "unset"
      BY <1>7, <3>1, HTTPAssumption
    <3>3. method = Script[c][k + 1].method
      BY <2>1, <3>1, <3>2 DEF Methods
    <3> QED
      BY <2>2, <3>1, <3>3, OwnPage
  <2>4. Len(answers[c]) = k
    BY <1>6, <1>10 DEF Answered
  <2>5. /\ Len(answers'[c]) = k + 1 /\ answers'[c][k + 1] = response
        /\ \A i \in 1..k : answers'[c][i] = answers[c][i]
    <3>1. answers'[c] = Append(answers[c], response)
      BY <1>4, <2>2
    <3> QED
      BY <1>4, <2>4, <3>1, AppendToList
  <2>6. ASSUME NEW i \in 1..k + 1
        PROVE  answers'[c][i].body \in Pages(Script[c][i])
    <3>1. i \in 1..k \/ i = k + 1
      BY <1>7, <2>6
    <3> QED
      BY <1>8, <2>3, <2>4, <2>5, <3>1 DEF RightFor
  <2> QED
    BY <1>7, <2>5, <2>6 DEF Answered, RightFor
<1>13. Answered(c, k + 1)' /\ RightFor(c)'
  BY <1>9, <1>10, Zenon DEF Respond
<1>14. ~request'[c].running /\ Taken(c)' = Taken(c)
  BY <1>1, <1>4 DEF NotRunning, Taken
<1>15. PeerInv(c)'
  <2>1. \E m \in 0..Len(Script[c]) : arrived'[c] = 3 * m
    BY <1>1, <1>5 DEF PeerInv
  <2>2. Taken(c) = 3 * (k + 1)
    BY <1>6, <1>7
  <2>3. Rests(c)'
    BY <1>7, <1>13, <1>14, <2>2 DEF Rests
  <2> QED
    BY <1>13, <1>14, <2>1, <2>3 DEF PeerInv, PlaceInv
<1>16. WholeInv' /\ (SingleInv /\ SingleFor(c)' => SingleInv')
  <2>1. \A d \in Peer \ {c} :
          /\ request'[d] = request[d] /\ arrived'[d] = arrived[d]
          /\ recvBuffer'[d] = recvBuffer[d]
          /\ answers'[d] = answers[d] /\ closing'[d] = closing[d]
    <3>1. answers' = answers \/ \E response :
            answers' = [answers EXCEPT ![c] = Append(@, response)]
      BY DEF Respond
    <3>2. \/ closing' = [closing EXCEPT ![c] = IF request[c].close THEN "asked" ELSE @]
          \/ closing' = [closing EXCEPT ![c] = "shut"]
      BY DEF Respond, Asked
    <3> QED
      BY <1>1, <1>4, <3>1, <3>2
  <2> QED
    BY <1>1, <1>5, <1>15, <2>1, WholeByPeer
<1>17. ASSUME single'
       PROVE  SingleInv'
  <2>1. SingleInv
    BY <1>1, <1>17 DEF AnswersInv
  <2>2. SingleFor(c)'
    BY <1>1, <1>14, <2>1 DEF SingleInv, SingleFor
  <2> QED
    BY <1>16, <2>1, <2>2
<1> QED
  BY <1>16, <1>17

LEMMA AnswersInvInit == HTTPInit => AnswersInv
<1> SUFFICES ASSUME HTTPInit
             PROVE  AnswersInv
  OBVIOUS
<1>1. /\ codecState = "kRequestLine" /\ arrived = [c \in Peer |-> 0]
      /\ recvBuffer = [c \in Peer |-> <<>>] /\ request = [c \in Peer |-> NotRunning]
      /\ answers = [c \in Peer |-> <<>>] /\ closing = [c \in Peer |-> "open"]
      /\ whole = TRUE /\ single = TRUE
  BY DEF HTTPInit
<1>2. \A c \in Peer : /\ arrived[c] = 0 /\ recvBuffer[c] = <<>> /\ answers[c] = <<>>
                      /\ request[c] = NotRunning /\ ~request[c].running
  BY <1>1 DEF NotRunning
<1>3. ASSUME NEW c \in Peer
      PROVE  BufferInv(c) /\ RequestInv(request[c]) /\ IsList(answers[c]) /\ Taken(c) = 0
  <2>1. Len(Stream(c)) \in Nat
    BY LinesOfStream
  <2>2. Len(recvBuffer[c]) = 0 /\ Len(answers[c]) = 0 /\ arrived[c] = 0
    BY <1>2
  <2>3. Taken(c) = 0
    BY <2>2 DEF Taken
  <2>4. BufferInv(c)
    <3>1. recvBuffer[c] \in Seq(LineOf(c))
      <4>1. <<>> \in Seq(LineOf(c))
        BY EmptySeq
      <4> QED
        BY <1>2, <4>1
    <3> QED
      BY <2>1, <2>2, <3>1 DEF BufferInv
  <2>5. IsList(answers[c])
    <3>1. <<>> \in Seq({answers[c][i] : i \in 1..Len(answers[c])})
      BY EmptySeq
    <3> QED
      BY <1>2, <3>1 DEF IsList
  <2> QED
    BY <1>2, <2>3, <2>4, <2>5 DEF RequestInv
<1>4. HTTPInv
  BY <1>1, <1>3 DEF HTTPInv
<1>5. ASSUME NEW c \in Peer
      PROVE  PeerInv(c) /\ SingleFor(c)
  <2>1. 0 \in 0..Len(Script[c]) /\ 3 * 0 = 0
    BY LinesOfStream
  <2>2. Rests(c)
    BY <1>2, <1>3, <2>1 DEF Rests, Answered
  <2> QED
    BY <1>2, <2>1, <2>2 DEF PeerInv, PlaceInv, RightFor, SingleFor
<1>6. WholeInv /\ SingleInv
  BY <1>1, <1>2, <1>5 DEF WholeInv, SingleInv
<1> QED
  BY <1>4, <1>6 DEF AnswersInv

LEMMA AnswersInvStep == AnswersInv /\ [HTTPNext]_httpVars => AnswersInv'
<1> SUFFICES ASSUME AnswersInv, [HTTPNext]_httpVars
             PROVE  AnswersInv'
  OBVIOUS
<1>1. CASE UNCHANGED httpVars
  BY <1>1 DEF httpVars, AnswersInv, HTTPInv, WholeInv, SingleInv, BufferInv, PeerInv,
              PlaceInv, RightFor, SingleFor, Rests, Starts, InHeaders, Parsed, Reads,
              Answered, Taken
<1>2. CASE HTTPNext
  <2>1. PICK c \in Peer : Receive(c) \/ OnMessage(c)
    BY <1>2 DEF HTTPNext
  <2>2. HTTPInv'
    BY <2>1, HTTPTypesStep DEF AnswersInv
  <2>3. ASSUME whole'
        PROVE  WholeInv' /\ (single' => SingleInv')
    <3>1. CASE Receive(c)
      BY <2>2, <2>3, <3>1, ReceiveKeeps
    <3>2. CASE RequestLine(c)
      BY <2>2, <2>3, <3>2, RequestLineKeeps
    <3>3. CASE RequestHeader(c)
      BY <2>2, <2>3, <3>3, RequestHeaderKeeps
    <3>4. CASE Incomplete(c)
      <4>1. whole
        BY <2>3, <3>4 DEF Incomplete
      <4> QED
        BY <3>4, <4>1, NeverIncomplete DEF AnswersInv
    <3>5. CASE Respond(c)
      BY <2>2, <2>3, <3>5, RespondKeeps
    <3> QED
      BY <2>1, <3>1, <3>2, <3>3, <3>4, <3>5 DEF OnMessage
  <2> QED
    BY <2>2, <2>3 DEF AnswersInv
<1> QED
  BY <1>1, <1>2

LEMMA AnswersInvHolds == HTTPSpec => []AnswersInv
<1> QED
  BY AnswersInvInit, AnswersInvStep, PTL DEF HTTPSpec

\* Whatever the requests, their order and the loops of the peers: as long as calls see
\* complete requests and do not overlap, each peer gets the answers to its own requests,
\* in order, though the parser's state_ is shared (HTTPCodec.cc:53-83).
THEOREM AnswersAlwaysRight == HTTPSpec => []RightAnswers
<1>1. AnswersInv => RightAnswers
  <2> SUFFICES ASSUME AnswersInv, whole, NEW c \in Peer, NEW i \in DOMAIN answers[c]
               PROVE  answers[c][i].body \in Pages(Script[c][i])
    BY DEF RightAnswers
  <2>1. RightFor(c)
    BY DEF AnswersInv, WholeInv, PeerInv
  <2>2. DOMAIN answers[c] = 1..Len(answers[c])
    BY AppendToList DEF AnswersInv, HTTPInv
  <2> QED
    BY <2>1, <2>2 DEF RightFor
<1> QED
  BY <1>1, AnswersInvHolds, PTL

\* If besides each call finds one request, no request is without its answer when the
\* call is over, until a shutdown that was asked for takes effect (HTTPCodec.cc:82).
THEOREM NoRequestWaits == HTTPSpec => []AllAnswered
<1>1. AnswersInv => AllAnswered
  <2> SUFFICES ASSUME AnswersInv, whole, single, NEW c \in Peer, ~request[c].running,
                      closing[c] # "shut"
               PROVE  Len(answers[c]) * LinesPerRequest = arrived[c]
    BY DEF AllAnswered
  <2>1. WholeInv /\ SingleInv
    BY DEF AnswersInv
  <2>2. Rests(c) /\ Len(recvBuffer[c]) = 0
    <3>1. PeerInv(c) /\ SingleFor(c)
      BY <2>1 DEF WholeInv, SingleInv
    <3> QED
      BY <3>1 DEF PeerInv, PlaceInv, SingleFor
  <2>3. PICK k \in 0..Len(Script[c]) : Taken(c) = 3 * k /\ Answered(c, k)
    BY <2>2 DEF Rests
  <2>4. Len(answers[c]) = k
    BY <2>3 DEF Answered
  <2>5. /\ Taken(c) \in Nat /\ arrived[c] = Taken(c) + Len(recvBuffer[c])
        /\ arrived[c] \in Nat /\ Len(Script[c]) \in Nat
    BY BufferNumbers DEF AnswersInv, HTTPInv
  <2>6. arrived[c] = 3 * k /\ k \in Nat
    BY <2>2, <2>3, <2>5
  <2> QED
    BY <2>4, <2>6 DEF LinesPerRequest
<1> QED
  BY <1>1, AnswersInvHolds, PTL
------------------------------------------------------------------------------
(***************************************************************************)
(* Acceptor.  The idle descriptor of accept(), for any number of           *)
(* descriptors and peers.                                                  *)
(***************************************************************************)
\* The descriptors that accept() has opened and not handed on.
Own == {f \in AnyFd : holder[f] \in {"null", "accepted"}}

\* Which descriptor that is, at each system call: nullFd_ is the number of a closed
\* descriptor between close() and the next open() or accept().
Ownership ==
  /\ AcceptTypeOK
  /\ ~stolen
  /\ acceptPc \in {"listen", "closed", "dropped"} => Own = {}
  /\ acceptPc \in {"idle", "accept", "dropping", "fatal"} =>
       /\ nullFd # 0
       /\ Own = {nullFd} \ {NoFd}

\* The kernel hands out a free descriptor if there is one.
LEMMA MinFree ==
  ASSUME Free # {}
  PROVE  Min(Free) \in Free
<1> DEFINE R == {ss \in Nat \X Nat : ss[1] < ss[2]}
<1>1. IsWellFoundedOn(R, Nat)
  BY NatLessThanWellFounded DEF OpToRel
<1>2. Free \subseteq Nat
  BY DEF Free, AnyFd
<1>3. PICK x \in Free : \A y \in Free : ~(<<y, x>> \in R)
  <2> HIDE DEF R
  <2> QED  BY <1>1, <1>2, WFMin
<1>4. \A y \in Free : x <= y
  <2> TAKE y \in Free
  <2>1. x \in Nat /\ y \in Nat
    BY <1>2
  <2>2. ~(y < x)
    BY <1>3, <2>1, <<y, x>> \in Nat \X Nat
  <2> QED
    BY <2>1, <2>2
<1> QED
  BY <1>4 DEF Min

\* open() and accept() put a free descriptor to a use `as`.
LEMMA OpenOwns ==
  ASSUME AcceptTypeOK, Own = {}, Free # {}, NEW as \in {"null", "accepted"},
         holder' = [holder EXCEPT ![Min(Free)] = as]
  PROVE  /\ Min(Free) \in AnyFd
         /\ Own' = {Min(Free)}
         /\ holder' \in [AnyFd -> {"free", "null", "accepted", "handle", "other"}]
<1>1. Min(Free) \in Free
  BY MinFree
<1>2. Min(Free) \in AnyFd
  BY <1>1 DEF Free
<1> HIDE DEF AnyFd
<1> QED
  BY <1>2 DEF Own, AcceptTypeOK

\* A descriptor that somebody else opens stays his.
LEMMA OthersOwn ==
  ASSUME AcceptTypeOK, NEW f \in AnyFd, holder[f] \notin {"null", "accepted"},
         NEW as \in {"free", "handle", "other"},
         holder' = [holder EXCEPT ![f] = as]
  PROVE  /\ Own' = Own
         /\ holder' \in [AnyFd -> {"free", "null", "accepted", "handle", "other"}]
BY DEF Own, AcceptTypeOK

\* close() of the descriptor that is owned leaves none, and hits nobody else's.
LEMMA CloseDisowns ==
  ASSUME Ownership, acceptPc \in {"accept", "dropping"}, CloseNull
  PROVE  /\ Own' = {} /\ stolen' = FALSE
         /\ holder' \in [AnyFd -> {"free", "null", "accepted", "handle", "other"}]
<1>1. nullFd # 0 /\ Own = {nullFd} \ {NoFd} /\ nullFd \in AnyFd \cup {NoFd, 0} /\ ~stolen
  BY DEF Ownership, AcceptTypeOK
<1>2. CASE nullFd \in AnyFd
  <2>1. nullFd # NoFd
    BY <1>2 DEF AnyFd, NoFd
  <2>2. holder[nullFd] \in {"null", "accepted"}
    BY <1>1, <2>1 DEF Own
  <2> QED
    BY <1>1, <1>2, <2>2 DEF CloseNull, Own, Ownership, AcceptTypeOK
<1>3. CASE nullFd \notin AnyFd
  BY <1>1, <1>3 DEF CloseNull, Own, Ownership, AcceptTypeOK
<1> QED
  BY <1>2, <1>3

\* open("/dev/null").
LEMMA OpenNullOwns ==
  ASSUME AcceptTypeOK, Own = {}, OpenNull
  PROVE  /\ nullFd' # 0 /\ Own' = {nullFd'} \ {NoFd} /\ nullFd' \in AnyFd \cup {NoFd, 0}
         /\ holder' \in [AnyFd -> {"free", "null", "accepted", "handle", "other"}]
<1>1. CASE Free = {}
  BY <1>1 DEF OpenNull, Own, NoFd, AcceptTypeOK
<1>2. CASE Free # {}
  <2>1. nullFd' = Min(Free) /\ holder' = [holder EXCEPT ![Min(Free)] = "null"]
    BY <1>2 DEF OpenNull
  <2>2. Min(Free) \in AnyFd /\ Own' = {Min(Free)}
        /\ holder' \in [AnyFd -> {"free", "null", "accepted", "handle", "other"}]
    BY <1>2, <2>1, OpenOwns
  <2>3. Min(Free) # 0 /\ Min(Free) # NoFd
    BY <2>2 DEF AnyFd, NoFd
  <2> QED
    BY <2>1, <2>2, <2>3
<1> QED
  BY <1>1, <1>2

LEMMA OwnershipStep == Ownership /\ [AcceptNext]_acceptVars => Ownership'
<1> SUFFICES ASSUME Ownership, [AcceptNext]_acceptVars
             PROVE  Ownership'
  OBVIOUS
<1> USE AcceptAssumption
<1>1. AcceptTypeOK /\ ~stolen
  BY DEF Ownership
<1>2. CASE AcceptListen
  <2>1. Own = {} /\ OpenNull
    BY <1>2 DEF AcceptListen, Ownership
  <2>2. /\ nullFd' # 0 /\ Own' = {nullFd'} \ {NoFd} /\ nullFd' \in AnyFd \cup {NoFd, 0}
        /\ holder' \in [AnyFd -> {"free", "null", "accepted", "handle", "other"}]
    BY <1>1, <2>1, OpenNullOwns
  <2> QED
    BY <1>1, <1>2, <2>2 DEF AcceptListen, Ownership, AcceptTypeOK
<1>3. CASE AcceptPolled
  BY <1>1, <1>3 DEF AcceptPolled, Ownership, AcceptTypeOK, Own
<1>4. CASE Accepts
  <2>1. Min(Free) \in AnyFd /\ holder[Min(Free)] = "free"
    BY <1>4, MinFree DEF Accepts, Free
  <2>2. Own' = Own /\ holder' \in [AnyFd -> {"free", "null", "accepted", "handle", "other"}]
    BY <1>1, <1>4, <2>1, OthersOwn DEF Accepts
  <2> QED
    BY <1>1, <1>4, <2>2 DEF Accepts, Ownership, AcceptTypeOK
<1>5. CASE AcceptFails
  <2>1. /\ Own' = {} /\ stolen' = FALSE
        /\ holder' \in [AnyFd -> {"free", "null", "accepted", "handle", "other"}]
    BY <1>5, CloseDisowns DEF AcceptFails
  <2> QED
    BY <1>1, <1>5, <2>1 DEF AcceptFails, Ownership, AcceptTypeOK
<1>6. CASE AcceptFatal
  BY <1>1, <1>6 DEF AcceptFatal, Ownership, AcceptTypeOK, Own
<1>7. CASE AcceptToDrop
  <2>0. Own = {}
    BY <1>7 DEF AcceptToDrop, Ownership
  <2>1. CASE backlog > 0 /\ Free # {}
    <3>1. nullFd' = Min(Free) /\ holder' = [holder EXCEPT ![Min(Free)] = "accepted"]
          /\ backlog' = backlog - 1
      BY <1>7, <2>1 DEF AcceptToDrop
    <3>2. Min(Free) \in AnyFd /\ Own' = {Min(Free)}
          /\ holder' \in [AnyFd -> {"free", "null", "accepted", "handle", "other"}]
      BY <1>1, <2>0, <2>1, <3>1, OpenOwns
    <3>3. Min(Free) # 0 /\ Min(Free) # NoFd
      BY <3>2 DEF AnyFd, NoFd
    <3> QED
      BY <1>1, <1>7, <2>1, <3>1, <3>2, <3>3 DEF AcceptToDrop, Ownership, AcceptTypeOK
  <2>2. CASE ~(backlog > 0 /\ Free # {})
    <3>1. nullFd' = NoFd /\ holder' = holder /\ backlog' = backlog
      BY <1>7, <2>2 DEF AcceptToDrop
    <3> QED
      BY <1>1, <1>7, <2>0, <3>1 DEF AcceptToDrop, Ownership, AcceptTypeOK, Own, NoFd
  <2> QED
    BY <2>1, <2>2
<1>8. CASE DropAccepted
  <2>1. /\ Own' = {} /\ stolen' = FALSE
        /\ holder' \in [AnyFd -> {"free", "null", "accepted", "handle", "other"}]
    BY <1>8, CloseDisowns DEF DropAccepted
  <2> QED
    BY <1>1, <1>8, <2>1 DEF DropAccepted, Ownership, AcceptTypeOK
<1>9. CASE ReopenNull
  <2>1. Own = {} /\ OpenNull
    BY <1>9 DEF ReopenNull, Ownership
  <2>2. /\ nullFd' # 0 /\ Own' = {nullFd'} \ {NoFd} /\ nullFd' \in AnyFd \cup {NoFd, 0}
        /\ holder' \in [AnyFd -> {"free", "null", "accepted", "handle", "other"}]
    BY <1>1, <2>1, OpenNullOwns
  <2> QED
    BY <1>1, <1>9, <2>2 DEF ReopenNull, Ownership, AcceptTypeOK
<1>10. CASE PeerComes \/ PeerGoes
  BY <1>1, <1>10 DEF PeerComes, PeerGoes, Ownership, AcceptTypeOK, Own
<1>11. CASE OtherOpens
  <2>1. Min(Free) \in AnyFd /\ holder[Min(Free)] = "free"
    BY <1>11, MinFree DEF OtherOpens, Free
  <2>2. Own' = Own /\ holder' \in [AnyFd -> {"free", "null", "accepted", "handle", "other"}]
    BY <1>1, <1>11, <2>1, OthersOwn DEF OtherOpens
  <2> QED
    BY <1>1, <1>11, <2>2 DEF OtherOpens, Ownership, AcceptTypeOK
<1>12. CASE OwnerCloses
  <2>1. PICK f \in AnyFd : holder[f] \in {"handle", "other"}
                          /\ holder' = [holder EXCEPT ![f] = "free"]
    BY <1>12 DEF OwnerCloses
  <2>2. Own' = Own /\ holder' \in [AnyFd -> {"free", "null", "accepted", "handle", "other"}]
    BY <1>1, <2>1, OthersOwn
  <2> QED
    BY <1>1, <1>12, <2>2 DEF OwnerCloses, Ownership, AcceptTypeOK
<1>13. CASE UNCHANGED acceptVars
  BY <1>1, <1>13 DEF acceptVars, Ownership, AcceptTypeOK, Own
<1> QED
  BY <1>2, <1>3, <1>4, <1>5, <1>6, <1>7, <1>8, <1>9, <1>10, <1>11, <1>12, <1>13
     DEF AcceptNext

LEMMA OwnershipInvariant == AcceptSpec => []Ownership
<1>1. AcceptInit => Ownership
  <2> SUFFICES ASSUME AcceptInit PROVE Ownership
    OBVIOUS
  <2>1. AcceptTypeOK
    <3>1. holder \in [AnyFd -> {"free", "null", "accepted", "handle", "other"}]
      BY DEF AcceptInit
    <3>2. backlog \in 0..MaxBacklog /\ peers \in 0..MaxPeers
      BY AcceptAssumption DEF AcceptInit
    <3> QED
      BY <3>1, <3>2 DEF AcceptInit, AcceptTypeOK
  <2>2. Own = {}
    BY DEF AcceptInit, Own
  <2> QED
    BY <2>1, <2>2 DEF AcceptInit, Ownership
<1> QED
  BY <1>1, OwnershipStep, PTL DEF AcceptSpec

\* The types hold.
THEOREM AcceptTypeCorrect == AcceptSpec => []AcceptTypeOK
<1>1. Ownership => AcceptTypeOK
  BY DEF Ownership
<1> QED
  BY <1>1, OwnershipInvariant, PTL

\* Whatever the other threads of the process open and close between the system calls of
\* accept(), it closes only what it has opened, and keeps at most the idle descriptor
\* (TCPHandle.cc:77-80).
THEOREM IdleFdAlwaysOwned == AcceptSpec => []IdleFdOwned
<1>1. Ownership => IdleFdOwned
  <2> SUFFICES ASSUME Ownership PROVE IdleFdOwned
    OBVIOUS
  <2>1. Own \subseteq {nullFd}
    BY DEF Ownership, AcceptTypeOK
  <2>2. IsFiniteSet({nullFd}) /\ Cardinality({nullFd}) = 1
    BY FS_Singleton
  <2>3. Cardinality(Own) <= 1
    BY <2>1, <2>2, FS_Subset
  <2> QED
    BY <2>3 DEF Ownership, IdleFdOwned, Own
<1> QED
  BY <1>1, OwnershipInvariant, PTL
==============================================================================
