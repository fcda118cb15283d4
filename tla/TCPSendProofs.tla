---------------------------- MODULE TCPSendProofs -----------------------------
(***************************************************************************)
(* Proofs about the sending half of a connection, for any set of foreign   *)
(* threads and any number of bytes: nothing accepted is lost, doubled or   *)
(* reordered, the write event is enabled while bytes wait, and the end of  *)
(* the stream follows the last of them.                                    *)
(***************************************************************************)
EXTENDS TCPSend, SequenceTheorems, TLAPS

USE TCPSendAssumption

-------------------------------------------------------------------------------
(* Sequences.                                                               *)

\* send() splits its data in what the kernel takes and what is buffered.
LEMMA SplitSeq ==
    ASSUME NEW S, NEW d \in Seq(S), NEW n \in 0 .. Len(d)
    PROVE  /\ SubSeq(d, 1, n) \in Seq(S)
           /\ SubSeq(d, n + 1, Len(d)) \in Seq(S)
           /\ SubSeq(d, 1, n) \o SubSeq(d, n + 1, Len(d)) = d
           /\ SubSeq(d, n + 1, Len(d)) = <<>> <=> n = Len(d)
<1>0. Len(d) \in Nat /\ \A i \in 1 .. Len(d) : d[i] \in S
  BY LenProperties
<1>1. SubSeq(d, 1, n) \in Seq(S) /\ SubSeq(d, n + 1, Len(d)) \in Seq(S)
  BY <1>0, SubSeqProperties
<1>2. SubSeq(d, 1, n) \o SubSeq(d, n + 1, Len(d)) = SubSeq(d, 1, Len(d))
  <2>1. 1 \in 1 .. Len(d) + 1 /\ n \in 1 - 1 .. Len(d) /\ Len(d) \in n .. Len(d)
    BY <1>0
  <2> QED
    BY <2>1, ConcatAdjacentSubSeq
<1>3. SubSeq(d, 1, Len(d)) = d
  BY SubSeqFull
<1>4. Len(SubSeq(d, n + 1, Len(d))) = Len(d) - n
  <2>1. \A i \in n + 1 .. Len(d) : d[i] \in S
    BY <1>0
  <2>2. n + 1 \in Int /\ Len(d) \in Int
    BY <1>0
  <2>3. Len(SubSeq(d, n + 1, Len(d)))
          = IF n + 1 <= Len(d) THEN Len(d) - (n + 1) + 1 ELSE 0
    BY <2>1, <2>2, SubSeqProperties
  <2> QED
    BY <2>3, <1>0
<1>5. SubSeq(d, n + 1, Len(d)) = <<>> <=> n = Len(d)
  <2> DEFINE u == SubSeq(d, n + 1, Len(d))
  <2>1. Len(<<>>) = 0 /\ (u # <<>> => Len(u) \in Nat \ {0})
    BY <1>1, EmptySeq
  <2>2. Len(u) = Len(d) - n
    BY <1>4
  <2> HIDE DEF u
  <2>3. u = <<>> <=> n = Len(d)
    BY <2>1, <2>2, <1>0
  <2> QED
    BY <2>3 DEF u
<1> QED
  BY <1>1, <1>2, <1>3, <1>5

LEMMA PrefixOfConcat ==
    ASSUME NEW S, NEW s \in Seq(S), NEW t \in Seq(S)
    PROVE  IsPrefix(s, s \o t)
<1>0. /\ Len(s) \in Nat /\ Len(t) \in Nat
      /\ \A i \in 1 .. Len(s) : s[i] \in S
  BY LenProperties
<1>1. s \o t \in Seq(S) /\ Len(s \o t) = Len(s) + Len(t)
      /\ \A i \in 1 .. Len(s) : (s \o t)[i] = s[i]
  BY <1>0, ConcatProperties
<1>2. SubSeq(s, 1, Len(s)) = s
  BY SubSeqFull
<1>3. SubSeq(s \o t, 1, Len(s)) = s
  <2> DEFINE u == SubSeq(s \o t, 1, Len(s))
  <2>1. \A i \in 1 .. Len(s) : (s \o t)[i] \in S
    BY <1>0, <1>1
  <2>2. 1 \in Int /\ Len(s) \in Int
    BY <1>0
  <2>3. /\ u \in Seq(S)
        /\ Len(u) = IF 1 <= Len(s) THEN Len(s) - 1 + 1 ELSE 0
        /\ \A i \in 1 .. Len(s) - 1 + 1 : u[i] = (s \o t)[1 + i - 1]
    BY <2>1, <2>2, SubSeqProperties
  <2>4. Len(u) = Len(s)
    BY <2>3, <1>0
  <2>5. \A i \in 1 .. Len(u) : u[i] = s[i]
    BY <2>3, <2>4, <1>0, <1>1
  <2> HIDE DEF u
  <2>6. u = s
    BY <2>3, <2>4, <2>5, SeqEqual
  <2> QED
    BY <2>6 DEF u
<1>4. Len(s) <= Len(s \o t)
  BY <1>0, <1>1
<1> QED
  BY <1>2, <1>3, <1>4 DEF IsPrefix

LEMMA PrefixOfSelf ==
    ASSUME NEW S, NEW s \in Seq(S)
    PROVE  IsPrefix(s, s)
<1>1. Len(s) \in Nat
  BY LenProperties
<1> QED
  BY <1>1 DEF IsPrefix

-------------------------------------------------------------------------------
(* Types.                                                                   *)

\* Concatenation is associative, for a sequence known by its parts.
LEMMA Regroup ==
    ASSUME NEW S, NEW a \in Seq(S), NEW b \in Seq(S), NEW c \in Seq(S), NEW x
    PROVE  x = a \o (b \o c) => x = (a \o b) \o c
<1>1. (a \o b) \o c = a \o (b \o c)
  BY ConcatAssociative
<1> QED
  BY <1>1

LEMMA NewDataType ==
    ASSUME TypeOK, NEW s \in Sender, NEW d \in NewData(s)
    PROVE  d \in Seq(Byte) /\ Len(d) \in Nat
<1>1. PICK n \in 1 .. MaxSize : d = [i \in 1 .. n |-> [from |-> s, seq |-> count[s] + i]]
  BY DEF NewData
<1>2. \A i \in 1 .. n : [from |-> s, seq |-> count[s] + i] \in Byte
  BY DEF TypeOK, Byte
<1>3. d \in [1 .. n -> Byte] /\ n \in Nat
  BY <1>1, <1>2
<1> QED
  BY <1>3, LenProperties

LEMMA HeadType ==
    ASSUME TypeOK, tasks # <<>>
    PROVE  /\ Tail(tasks) \in Seq(Functor)
           /\ Head(tasks).op = "send" => Head(tasks).data \in Seq(Byte)
<1>1. Head(tasks) \in Functor /\ Tail(tasks) \in Seq(Functor)
  BY HeadTailProperties DEF TypeOK
<1> QED
  BY <1>1 DEF Functor

LEMMA PushType ==
    ASSUME NEW q \in Seq(Functor),
           NEW f \in {"shutdown", "close", "complete"}
    PROVE  Append(q, [op |-> f]) \in Seq(Functor)
<1>1. [op |-> f] \in Functor
  BY DEF Functor
<1> QED
  BY <1>1

\* What sendInLoop(d) does to the types, whoever calls it.
LEMMA SendInLoopType ==
    ASSUME TypeOK, NEW d \in Seq(Byte), NEW rest \in Seq(Functor),
           SendInLoop(d, rest)
    PROVE  /\ buffer' \in Seq(Byte) /\ wire' \in Seq(Byte) /\ accepted' \in Seq(Byte)
           /\ tasks' \in Seq(Functor)
           /\ sending' \in BOOLEAN /\ gaveUp' \in BOOLEAN
<1>1. CASE UNCHANGED <<buffer, sending, wire, accepted>> /\ tasks' = rest
           /\ gaveUp' \in BOOLEAN
  BY <1>1 DEF TypeOK
<1>2. CASE SendDirectly(d, rest) /\ accepted' = accepted \o d /\ UNCHANGED gaveUp
  <2>1. PICK n \in 0 .. Len(d) :
           /\ wire' = wire \o SubSeq(d, 1, n)
           /\ buffer' = SubSeq(d, n + 1, Len(d))
           /\ sending' = (n < Len(d))
           /\ tasks' = IF n = Len(d) THEN Append(rest, Complete) ELSE rest
    BY <1>2 DEF SendDirectly
  <2>2. SubSeq(d, 1, n) \in Seq(Byte) /\ SubSeq(d, n + 1, Len(d)) \in Seq(Byte)
    BY SplitSeq
  <2>3. Append(rest, Complete) \in Seq(Functor)
    BY PushType DEF Complete
  <2>4. wire' \in Seq(Byte) /\ accepted' \in Seq(Byte)
    BY <1>2, <2>1, <2>2, ConcatProperties DEF TypeOK
  <2>5. buffer' \in Seq(Byte) /\ sending' \in BOOLEAN /\ tasks' \in Seq(Functor)
    BY <2>1, <2>2, <2>3
  <2>6. gaveUp' \in BOOLEAN
    BY <1>2 DEF TypeOK
  <2> QED
    BY <2>4, <2>5, <2>6
<1>3. CASE /\ buffer' = buffer \o d /\ sending' = TRUE /\ tasks' = rest
           /\ accepted' = accepted \o d /\ UNCHANGED <<wire, gaveUp>>
  <2>1. buffer' \in Seq(Byte) /\ accepted' \in Seq(Byte)
    BY <1>3, ConcatProperties DEF TypeOK
  <2> QED
    BY <1>3, <2>1 DEF TypeOK
<1> QED
  BY <1>1, <1>2, <1>3 DEF SendInLoop, TypeOK

LEMMA TypeStep ==
    ASSUME TypeOK, [Next]_vars
    PROVE  TypeOK'
<1>1. CASE LoopSend
  <2>1. PICK d \in NewData(Loop) :
           /\ SendInLoop(d, tasks)
           /\ count' = [count EXCEPT ![Loop] = @ + Len(d)]
           /\ UNCHANGED <<state, shutWr, broken, closed, foreignVars, reported>>
    BY <1>1 DEF LoopSend
  <2>2. d \in Seq(Byte) /\ Len(d) \in Nat
    BY NewDataType DEF Sender
  <2>3. tasks \in Seq(Functor)
    BY DEF TypeOK
  <2>4. count' \in [Sender -> Nat]
    BY <2>1, <2>2 DEF TypeOK, Sender
  <2> QED
    BY <2>1, <2>2, <2>3, <2>4, SendInLoopType DEF TypeOK, foreignVars
<1>2. CASE RunSend
  <2>1. Tail(tasks) \in Seq(Functor) /\ Head(tasks).data \in Seq(Byte)
    BY <1>2, HeadType DEF RunSend
  <2> QED
    BY <1>2, <2>1, SendInLoopType DEF RunSend, TypeOK, foreignVars
<1>3. CASE HandleSend
  <2>1. PICK n \in 1 .. Len(buffer) :
           /\ wire' = wire \o SubSeq(buffer, 1, n)
           /\ buffer' = SubSeq(buffer, n + 1, Len(buffer))
           /\ sending' = (n < Len(buffer))
           /\ tasks' = IF n = Len(buffer) THEN Append(tasks, Complete) ELSE tasks
           /\ IF state = "DISCONNECTING"
              THEN ShutdownInLoop(n < Len(buffer))
              ELSE UNCHANGED shutWr
    BY <1>3 DEF HandleSend
  <2>2. SubSeq(buffer, 1, n) \in Seq(Byte)
        /\ SubSeq(buffer, n + 1, Len(buffer)) \in Seq(Byte)
    BY SplitSeq DEF TypeOK
  <2>3. Append(tasks, Complete) \in Seq(Functor)
    BY PushType DEF Complete, TypeOK
  <2>4. wire' \in Seq(Byte)
    BY <2>1, <2>2, ConcatProperties DEF TypeOK
  <2>5. shutWr' \in BOOLEAN
    BY <2>1 DEF ShutdownInLoop, TypeOK
  <2>6. UNCHANGED <<state, broken, closed, foreignVars, history>>
    BY <1>3 DEF HandleSend
  <2>7. buffer' \in Seq(Byte) /\ sending' \in BOOLEAN /\ tasks' \in Seq(Functor)
    BY <2>1, <2>2, <2>3 DEF TypeOK
  <2> QED
    BY <2>4, <2>5, <2>6, <2>7 DEF TypeOK, foreignVars, history
<1>4. CASE RunComplete
  <2>1. Tail(tasks) \in Seq(Functor)
    BY <1>4, HeadType DEF RunComplete
  <2>2. Len(wire) \in Nat
    BY LenProperties DEF TypeOK
  <2> QED
    BY <1>4, <2>1, <2>2 DEF RunComplete, TypeOK, foreignVars
<1>5. CASE RunShutdown \/ RunClose
  <2>1. Tail(tasks) \in Seq(Functor)
    BY <1>5, HeadType DEF RunShutdown, RunClose
  <2> QED
    BY <1>5, <2>1 DEF RunShutdown, RunClose, HandleClose, ShutdownInLoop, TypeOK,
                      foreignVars, history
<1>6. CASE \E f \in Foreign : ForeignSend(f)
  <2>1. PICK f \in Foreign : ForeignSend(f)
    BY <1>6
  <2>2. PICK d \in NewData(f) :
           /\ tasks' = Append(tasks, [op |-> "send", data |-> d])
           /\ count' = [count EXCEPT ![f] = @ + Len(d)]
    BY <2>1 DEF ForeignSend
  <2>3. d \in Seq(Byte) /\ Len(d) \in Nat
    BY NewDataType DEF Sender
  <2>4. [op |-> "send", data |-> d] \in Functor
    BY <2>3 DEF Functor
  <2>5. count' \in [Sender -> Nat] /\ tasks' \in Seq(Functor)
    BY <2>2, <2>3, <2>4 DEF TypeOK, Sender
  <2> QED
    BY <2>1, <2>5 DEF ForeignSend, TypeOK, foreignVars
<1>7. CASE LoopShutdown \/ PeerCloses \/ PeerResets
  BY <1>7 DEF LoopShutdown, PeerCloses, PeerResets, HandleClose, ShutdownInLoop,
              TypeOK, foreignVars, history
<1>8. CASE ForceClose
  <2>1. tasks' \in Seq(Functor)
    BY <1>8, PushType DEF ForceClose, TypeOK
  <2> QED
    BY <1>8, <2>1 DEF ForceClose, TypeOK, foreignVars, history
<1>9. CASE ForeignPushes
  <2>1. tasks' \in Seq(Functor)
    BY <1>9, PushType DEF ForeignPushes, TypeOK
  <2> QED
    BY <1>9, <2>1 DEF ForeignPushes, TypeOK, history
<1>10. CASE ForeignStores \/ \E f \in Foreign : ForeignShutdown(f)
  BY <1>10 DEF ForeignStores, ForeignShutdown, TypeOK, connVars, history
<1>11. CASE UNCHANGED vars
  BY <1>11 DEF TypeOK, vars, connVars, foreignVars, history
<1> QED
  BY <1>1, <1>2, <1>3, <1>4, <1>5, <1>6, <1>7, <1>8, <1>9, <1>10, <1>11
     DEF Next, RunFunctor

LEMMA TypeInit == Init => TypeOK
<1>1. <<>> \in Seq(Byte) /\ <<>> \in Seq(Functor)
  OBVIOUS
<1>2. [s \in Sender |-> 0] \in [Sender -> Nat]
  OBVIOUS
<1> SUFFICES ASSUME Init PROVE TypeOK
  OBVIOUS
<1>3. /\ buffer \in Seq(Byte) /\ wire \in Seq(Byte) /\ accepted \in Seq(Byte)
      /\ tasks \in Seq(Functor)
  BY <1>1, Zenon DEF Init
<1> QED
  BY <1>2, <1>3 DEF Init, TypeOK

\* Every variable keeps its type: queues of functors and bytes, in particular.
THEOREM TypeCorrect == Spec => []TypeOK
BY TypeInit, TypeStep, PTL DEF Spec

-------------------------------------------------------------------------------
(***************************************************************************)
(* The inductive invariant.  What was accepted is what is on the wire and  *)
(* then what is buffered.  As long as the connection is not closed, the    *)
(* write event is enabled exactly while bytes are buffered, and none are   *)
(* after the end of the stream: the first of these is needed to see that   *)
(* shutdownInLoop(), which tests the write event, ends the stream only     *)
(* behind the last byte, and that a later send() finds the socket idle and *)
(* fails instead of being buffered.                                        *)
(***************************************************************************)
InOrder == accepted = wire \o buffer

NothingAfterFin == ~closed /\ shutWr => buffer = <<>>

StreamInv == TypeOK /\ InOrder /\ WritesWatched /\ NothingAfterFin

\* The step of the stream a step of the connection makes.
StreamStep == Stream!Next \/ UNCHANGED Stream!streamVars

\* What a step of the connection has to satisfy to be a step of the stream.
LEMMA StreamNext ==
    ASSUME IsPrefix(accepted, accepted'), IsPrefix(wire, wire'),
           IsPrefix(wire', accepted'),
           shutWr => shutWr' /\ wire' = wire,
           shutWr /\ ~closed => accepted' = accepted,
           ~shutWr /\ shutWr' => closed \/ wire' = accepted',
           closed => closed'
    PROVE  Stream!Next
<1>1. Stream!IsPrefix(accepted, accepted')
  BY Zenon DEF Stream!IsPrefix, IsPrefix
<1>2. Stream!IsPrefix(wire, wire')
  BY Zenon DEF Stream!IsPrefix, IsPrefix
<1>3. Stream!IsPrefix(wire', accepted')
  BY Zenon DEF Stream!IsPrefix, IsPrefix
<1> QED
  BY <1>1, <1>2, <1>3, Zenon DEF Stream!Next

\* A step that leaves the bytes alone.
LEMMA QuietStep ==
    ASSUME StreamInv,
           UNCHANGED <<buffer, wire, accepted>>,
           ~closed' => sending' = sending,
           ~shutWr /\ shutWr' => closed \/ ~sending,
           shutWr => shutWr',
           closed => closed'
    PROVE  InOrder' /\ WritesWatched' /\ NothingAfterFin' /\ Stream!Next
<1>1. InOrder' /\ WritesWatched'
  BY DEF StreamInv, TypeOK, InOrder, WritesWatched
<1>2. NothingAfterFin'
  BY DEF StreamInv, TypeOK, WritesWatched, NothingAfterFin
<1>3. IsPrefix(accepted, accepted') /\ IsPrefix(wire, wire')
  BY PrefixOfSelf DEF StreamInv, TypeOK
<1>4. IsPrefix(wire', accepted')
  BY PrefixOfConcat DEF StreamInv, TypeOK, InOrder
<1>5. ~closed /\ ~sending => wire' = accepted'
  BY ConcatEmptySeq DEF StreamInv, TypeOK, InOrder, WritesWatched
<1>6. ~shutWr /\ shutWr' => closed \/ wire' = accepted'
  BY <1>5
<1>7. shutWr => shutWr' /\ wire' = wire
  OBVIOUS
<1>8. shutWr /\ ~closed => accepted' = accepted
  OBVIOUS
<1>9. Stream!Next
  BY <1>3, <1>4, <1>6, <1>7, <1>8, StreamNext
<1> QED
  BY <1>1, <1>2, <1>9

\* sendInLoop(), whoever calls it.
LEMMA SendStep ==
    ASSUME StreamInv, NEW d \in Seq(Byte), NEW rest, SendInLoop(d, rest),
           UNCHANGED <<shutWr, closed>>
    PROVE  InOrder' /\ WritesWatched' /\ NothingAfterFin' /\ Stream!Next
<1>1. CASE UNCHANGED <<buffer, sending, wire, accepted>>
  BY <1>1, QuietStep
<1>2. CASE Idle /\ ~Unwritable /\ SendDirectly(d, rest) /\ accepted' = accepted \o d
  <2>1. PICK n \in 0 .. Len(d) :
           /\ wire' = wire \o SubSeq(d, 1, n)
           /\ buffer' = SubSeq(d, n + 1, Len(d))
           /\ sending' = (n < Len(d))
    BY <1>2 DEF SendDirectly
  <2> DEFINE taken == SubSeq(d, 1, n)
             left == SubSeq(d, n + 1, Len(d))
  <2>2. /\ taken \in Seq(Byte) /\ left \in Seq(Byte) /\ taken \o left = d
        /\ left = <<>> <=> n = Len(d)
    BY SplitSeq
  <2>3. /\ buffer = <<>> /\ accepted = wire \o buffer /\ ~shutWr
        /\ wire \in Seq(Byte) /\ accepted \in Seq(Byte)
    BY <1>2 DEF StreamInv, TypeOK, InOrder, Idle, Unwritable
  <2>4. wire' = wire \o taken /\ buffer' = left /\ accepted' = accepted \o d
    BY <1>2, <2>1
  <2> HIDE DEF taken, left
  <2>5. accepted = wire
    BY <2>3, ConcatEmptySeq
  <2>6. accepted' = wire \o (taken \o left)
    BY <2>2, <2>4, <2>5
  <2>7. accepted' = (wire \o taken) \o left
    <3>1. wire \in Seq(Byte) /\ taken \in Seq(Byte) /\ left \in Seq(Byte)
      BY <2>2, <2>3
    <3> QED
      BY <3>1, <2>6, Regroup
  <2>8. InOrder'
    BY <2>4, <2>7 DEF InOrder
  <2>9. IsPrefix(wire, wire') /\ IsPrefix(accepted, accepted')
    BY <2>2, <2>3, <2>4, PrefixOfConcat
  <2>10. IsPrefix(wire', accepted')
    <3>1. wire \o taken \in Seq(Byte)
      BY <2>2, <2>3, ConcatProperties
    <3> QED
      BY <3>1, <2>2, <2>4, <2>7, PrefixOfConcat
  <2>11. Len(d) \in Nat
    BY LenProperties
  <2>12. sending' <=> buffer' # <<>>
    <3>1. sending' <=> n < Len(d)
      BY <2>1, Zenon
    <3>2. n < Len(d) <=> n # Len(d)
      BY <2>11
    <3> QED
      BY <2>2, <2>4, <3>1, <3>2, Zenon
  <2>13. ~shutWr /\ ~shutWr' /\ (closed <=> closed')
    BY <2>3
  <2>14. WritesWatched' /\ NothingAfterFin'
    BY <2>12, <2>13 DEF WritesWatched, NothingAfterFin
  <2>15. Stream!Next
    BY <2>9, <2>10, <2>13, StreamNext
  <2> QED
    BY <2>8, <2>14, <2>15
<1>3. CASE /\ ~Idle /\ buffer' = buffer \o d /\ sending' = TRUE
           /\ accepted' = accepted \o d /\ UNCHANGED wire
  <2>1. accepted' = wire' \o buffer'
    BY <1>3, ConcatAssociative DEF StreamInv, TypeOK, InOrder
  <2>2. ~closed => buffer' # <<>> /\ sending'
    BY <1>3, ConcatEqualIffEmpty DEF StreamInv, TypeOK, Idle, WritesWatched
  <2>3. closed \/ ~shutWr
    BY <1>3 DEF StreamInv, TypeOK, Idle, WritesWatched, NothingAfterFin
  <2>4. IsPrefix(accepted, accepted') /\ IsPrefix(wire, wire')
    BY <1>3, PrefixOfConcat, PrefixOfSelf DEF StreamInv, TypeOK
  <2>5. IsPrefix(wire', accepted')
    <3>1. buffer' \in Seq(Byte) /\ wire' \in Seq(Byte)
      BY <1>3, ConcatProperties DEF StreamInv, TypeOK
    <3> QED
      BY <2>1, <3>1, PrefixOfConcat
  <2>6. (shutWr <=> shutWr') /\ (closed <=> closed') /\ wire' = wire
    BY <1>3
  <2>7. InOrder' /\ WritesWatched' /\ NothingAfterFin'
    BY <2>1, <2>2, <2>3, <2>6 DEF InOrder, WritesWatched, NothingAfterFin
  <2>8. Stream!Next
    BY <2>3, <2>4, <2>5, <2>6, StreamNext
  <2> QED
    BY <2>7, <2>8
<1> QED
  BY <1>1, <1>2, <1>3 DEF SendInLoop

\* handleSend().
LEMMA HandleStep ==
    ASSUME StreamInv, HandleSend
    PROVE  InOrder' /\ WritesWatched' /\ NothingAfterFin' /\ Stream!Next
<1>1. PICK n \in 1 .. Len(buffer) :
         /\ wire' = wire \o SubSeq(buffer, 1, n)
         /\ buffer' = SubSeq(buffer, n + 1, Len(buffer))
         /\ sending' = (n < Len(buffer))
         /\ IF state = "DISCONNECTING"
            THEN ShutdownInLoop(n < Len(buffer))
            ELSE UNCHANGED shutWr
  BY DEF HandleSend
<1> DEFINE taken == SubSeq(buffer, 1, n)
           left == SubSeq(buffer, n + 1, Len(buffer))
<1>2. Len(buffer) \in Nat /\ n \in 0 .. Len(buffer)
  BY LenProperties DEF StreamInv, TypeOK
<1>3. /\ taken \in Seq(Byte) /\ left \in Seq(Byte) /\ taken \o left = buffer
      /\ left = <<>> <=> n = Len(buffer)
  BY <1>2, SplitSeq DEF StreamInv, TypeOK
<1>4. wire' = wire \o taken /\ buffer' = left /\ accepted' = accepted
  BY <1>1 DEF HandleSend, history
<1>5. /\ accepted = wire \o buffer /\ ~shutWr /\ (closed <=> closed')
      /\ wire \in Seq(Byte) /\ accepted \in Seq(Byte)
  BY DEF StreamInv, TypeOK, InOrder, HandleSend, Unwritable
<1> HIDE DEF taken, left
<1>6. accepted' = (wire \o taken) \o left
  <2>1. \A s, t, u \in Seq(Byte) : (s \o t) \o u = s \o (t \o u)
    BY ConcatAssociative
  <2>2. accepted' = wire \o (taken \o left)
    BY <1>3, <1>4, <1>5
  <2>3. wire \in Seq(Byte) /\ taken \in Seq(Byte) /\ left \in Seq(Byte)
    BY <1>3, <1>5
  <2> QED
    BY <2>1, <2>2, <2>3, Zenon
<1>7. wire \o taken \in Seq(Byte)
  BY <1>3, <1>5, ConcatProperties
<1>8. IsPrefix(wire, wire') /\ IsPrefix(accepted, accepted')
  BY <1>3, <1>4, <1>5, PrefixOfConcat, PrefixOfSelf
<1>9. IsPrefix(wire', accepted')
  BY <1>3, <1>4, <1>6, <1>7, PrefixOfConcat
<1>10. sending' <=> n < Len(buffer)
  BY <1>1, Zenon
<1>11. n < Len(buffer) <=> buffer' # <<>>
  <2>1. n < Len(buffer) <=> n # Len(buffer)
    BY <1>2
  <2> QED
    BY <1>3, <1>4, <2>1, Zenon
<1>12. shutWr' => ~(n < Len(buffer))
  BY <1>1, <1>5 DEF ShutdownInLoop
<1>13. shutWr' => buffer' = <<>>
  BY <1>11, <1>12, Zenon
<1>14. shutWr' => wire' = accepted'
  <2>1. wire \o taken \o <<>> = wire \o taken
    BY <1>7, ConcatEmptySeq
  <2> QED
    BY <1>4, <1>6, <1>13, <2>1, Zenon
<1>15. InOrder'
  BY <1>4, <1>6 DEF InOrder
<1>16. WritesWatched' /\ NothingAfterFin'
  BY <1>10, <1>11, <1>13 DEF WritesWatched, NothingAfterFin
<1>17. Stream!Next
  BY <1>5, <1>8, <1>9, <1>14, StreamNext
<1> QED
  BY <1>15, <1>16, <1>17

LEMMA StreamInvStep ==
    ASSUME StreamInv, [Next]_vars
    PROVE  StreamInv' /\ StreamStep
<1>0. TypeOK'
  BY TypeStep DEF StreamInv
<1>1. CASE LoopSend
  <2>1. PICK d \in NewData(Loop) :
           /\ SendInLoop(d, tasks)
           /\ UNCHANGED <<state, shutWr, broken, closed, foreignVars, reported>>
    BY <1>1 DEF LoopSend
  <2>2. d \in Seq(Byte)
    BY NewDataType DEF StreamInv, Sender
  <2> QED
    BY <1>0, <2>1, <2>2, SendStep DEF StreamInv, StreamStep
<1>2. CASE RunSend
  <2>1. Head(tasks).data \in Seq(Byte)
    BY <1>2, HeadType DEF RunSend, StreamInv
  <2>2. SendInLoop(Head(tasks).data, Tail(tasks)) /\ UNCHANGED <<shutWr, closed>>
    BY <1>2 DEF RunSend
  <2> QED
    BY <1>0, <2>1, <2>2, SendStep DEF StreamInv, StreamStep
<1>3. CASE HandleSend
  BY <1>0, <1>3, HandleStep DEF StreamInv, StreamStep
<1>4. CASE LoopShutdown \/ RunShutdown
  <2>1. UNCHANGED <<buffer, wire, accepted, sending, closed>>
    BY <1>4 DEF LoopShutdown, RunShutdown, history
  <2>2. shutWr' <=> shutWr \/ ~sending
    BY <1>4 DEF LoopShutdown, RunShutdown, ShutdownInLoop, StreamInv, TypeOK
  <2> QED
    BY <1>0, <2>1, <2>2, QuietStep DEF StreamInv, StreamStep
<1>5. CASE RunClose \/ PeerCloses
  <2>1. UNCHANGED <<buffer, wire, accepted, shutWr>> /\ closed' = TRUE
    BY <1>5 DEF RunClose, PeerCloses, HandleClose, history
  <2> QED
    BY <1>0, <2>1, QuietStep DEF StreamInv, StreamStep
<1>6. CASE \/ RunComplete \/ ForceClose \/ PeerResets
           \/ ForeignStores \/ ForeignPushes
           \/ \E f \in Foreign : ForeignSend(f) \/ ForeignShutdown(f)
  <2>1. UNCHANGED <<buffer, wire, accepted, sending, shutWr, closed>>
    BY <1>6 DEF RunComplete, ForceClose, PeerResets, ForeignStores, ForeignPushes,
                ForeignSend, ForeignShutdown, connVars, history
  <2> QED
    BY <1>0, <2>1, QuietStep DEF StreamInv, StreamStep
<1>7. CASE UNCHANGED vars
  <2>1. UNCHANGED <<buffer, wire, accepted, sending, shutWr, closed>>
    BY <1>7 DEF vars, connVars, history
  <2> QED
    BY <1>0, <2>1, QuietStep DEF StreamInv, StreamStep
<1> QED
  BY <1>1, <1>2, <1>3, <1>4, <1>5, <1>6, <1>7 DEF Next, RunFunctor

LEMMA StreamInvInit ==
    ASSUME Init
    PROVE  StreamInv /\ Stream!Init
<1>1. accepted = <<>> /\ wire = <<>> /\ buffer = <<>>
      /\ shutWr = FALSE /\ closed = FALSE /\ sending = FALSE
  BY DEF Init
<1>2. TypeOK
  BY TypeInit
<1>3. InOrder
  <2>1. <<>> \o <<>> = <<>>
    BY ConcatEmptySeq
  <2> QED
    BY <1>1, <2>1, Zenon DEF InOrder
<1> QED
  BY <1>1, <1>2, <1>3 DEF StreamInv, WritesWatched, NothingAfterFin, Stream!Init

\* As long as the connection is not closed, the write event of the channel is
\* enabled exactly while bytes wait in sendBuffer_.
THEOREM WritesAlwaysWatched == Spec => []WritesWatched
<1>1. Init => StreamInv
  BY StreamInvInit
<1>2. StreamInv /\ [Next]_vars => StreamInv'
  BY StreamInvStep
<1>3. StreamInv => WritesWatched
  BY DEF StreamInv
<1> QED
  BY <1>1, <1>2, <1>3, PTL DEF Spec

\* Every step of the connection is a step of the abstract stream: what send()
\* is given in the loop reaches the kernel in order and once, and the end of the
\* stream comes after it.
THEOREM SendingImplementsStream == Spec => ImplementsStream
<1>1. Init => StreamInv /\ Stream!Init
  BY StreamInvInit
<1>2. StreamInv /\ [Next]_vars => StreamInv'
  BY StreamInvStep
<1>3. StreamInv /\ [Next]_vars => [Stream!Next]_(Stream!streamVars)
  BY StreamInvStep DEF StreamStep
<1> QED
  BY <1>1, <1>2, <1>3, PTL DEF Spec, ImplementsStream, Stream!Spec
-------------------------------------------------------------------------------
(***************************************************************************)
(* No gaps.  `done' counts the bytes of each sender that sendInLoop() has  *)
(* accepted.  The accepted bytes are those, each behind its predecessor;   *)
(* the functors hold the others, up to count, in runs of one sender whose  *)
(* order is the order of the bytes.  Both hold until bytes are given up,   *)
(* or dropped because the socket cannot be written: nothing more is        *)
(* accepted then (Dead is never left), so that no byte follows the lost.   *)
(***************************************************************************)
Run(s, b, n) == [i \in 1 .. n |-> [from |-> s, seq |-> b + i]]

Holds(t, s, n) ==
    /\ t.op = "send"
    /\ \E i \in DOMAIN t.data : t.data[i] = [from |-> s, seq |-> n]

\* Every send() that is queued holds a run of bytes of one foreign thread.
Runs(q) == \A k \in 1 .. Len(q) : q[k].op = "send" =>
    \E f \in Foreign, b \in Nat, n \in Nat \ {0} : q[k].data = Run(f, b, n)

\* The bytes of a thread are queued in order, ...
Ordered(q) == \A j, k \in 1 .. Len(q), s \in Sender, m, n \in Nat :
    j < k /\ Holds(q[j], s, m) /\ Holds(q[k], s, n) => m < n

\* ... and they are those it has sent and sendInLoop() has not accepted.
Pending(q, done, sent) == \A s \in Sender, n \in Nat :
    done[s] < n /\ n <= sent[s] <=> \E k \in 1 .. Len(q) : Holds(q[k], s, n)

QueueOK(q, done, sent) ==
    /\ \A s \in Sender : done[s] <= sent[s]
    /\ Runs(q) /\ Ordered(q) /\ Pending(q, done, sent)

Accounted(q, done) ==
    /\ Orderly(q)
    /\ \A i \in 1 .. Len(q) : q[i].seq <= done[q[i].from]
    /\ \A s \in Sender, n \in Nat \ {0} :
          n <= done[s] => \E i \in 1 .. Len(q) : q[i] = [from |-> s, seq |-> n]

\* The socket cannot be written, and nothing waits for it.
Dead == Idle /\ Unwritable

GapInv == gaveUp \/
    /\ Orderly(accepted)
    /\ \/ Dead
       \/ \E done \in [Sender -> Nat] :
             Accounted(accepted, done) /\ QueueOK(tasks, done, count)

LEMMA RunHolds ==
    ASSUME NEW t, NEW f \in Sender, NEW b \in Nat, NEW n \in Nat,
           t.op = "send", t.data = Run(f, b, n),
           NEW s \in Sender, NEW m \in Nat
    PROVE  Holds(t, s, m) <=> s = f /\ b < m /\ m <= b + n
<1>1. ASSUME s = f, b < m, m <= b + n PROVE Holds(t, s, m)
  <2>1. m - b \in 1 .. n /\ b + (m - b) = m
    BY <1>1
  <2>2. t.data[m - b] = [from |-> f, seq |-> b + (m - b)]
    BY <2>1 DEF Run
  <2>3. m - b \in DOMAIN t.data
    BY <2>1 DEF Run
  <2> QED
    BY <1>1, <2>1, <2>2, <2>3 DEF Holds
<1>2. ASSUME Holds(t, s, m) PROVE s = f /\ b < m /\ m <= b + n
  <2>1. PICK i \in 1 .. n : t.data[i] = [from |-> s, seq |-> m]
    BY <1>2 DEF Holds, Run
  <2>2. [from |-> f, seq |-> b + i] = [from |-> s, seq |-> m]
    BY <2>1 DEF Run
  <2>3. f = s /\ b + i = m
    BY <2>2
  <2> QED
    BY <2>3
<1> QED
  BY <1>1, <1>2

\* A functor that is not a send() may join the queue ...
LEMMA QueueJoins ==
    ASSUME NEW q \in Seq(Functor), NEW t \in Functor, t.op # "send",
           NEW done \in [Sender -> Nat], NEW sent \in [Sender -> Nat],
           QueueOK(q, done, sent)
    PROVE  QueueOK(Append(q, t), done, sent)
<1> DEFINE r == Append(q, t)
<1>1. /\ Len(q) \in Nat /\ Len(r) = Len(q) + 1
      /\ \A k \in 1 .. Len(q) : r[k] = q[k]
      /\ r[Len(q) + 1] = t
  BY AppendProperties, LenProperties
<1> HIDE DEF r
<1>2. \A s \in Sender, n \in Nat : ~Holds(t, s, n)
  BY DEF Holds
<1>3. Runs(r)
  BY <1>1 DEF QueueOK, Runs
<1>4. Ordered(r)
  <2> SUFFICES ASSUME NEW j \in 1 .. Len(r), NEW k \in 1 .. Len(r), NEW s \in Sender,
                      NEW m \in Nat, NEW n \in Nat, j < k,
                      Holds(r[j], s, m), Holds(r[k], s, n)
               PROVE  m < n
    BY DEF Ordered
  <2>1. j \in 1 .. Len(q) /\ k \in 1 .. Len(q)
    BY <1>1, <1>2
  <2> QED
    BY <1>1, <2>1 DEF QueueOK, Ordered
<1>5. Pending(r, done, sent)
  <2>1. ASSUME NEW s \in Sender, NEW n \in Nat
        PROVE  (\E k \in 1 .. Len(r) : Holds(r[k], s, n))
                 <=> \E k \in 1 .. Len(q) : Holds(q[k], s, n)
    <3>1. ASSUME NEW k \in 1 .. Len(r), Holds(r[k], s, n)
          PROVE  k \in 1 .. Len(q) /\ Holds(q[k], s, n)
      <4>1. k # Len(q) + 1
        BY <1>1, <1>2, <3>1
      <4>2. k \in 1 .. Len(q)
        BY <1>1, <4>1
      <4> QED
        BY <1>1, <3>1, <4>2
    <3>2. ASSUME NEW k \in 1 .. Len(q), Holds(q[k], s, n)
          PROVE  k \in 1 .. Len(r) /\ Holds(r[k], s, n)
      BY <1>1, <3>2
    <3> QED
      BY <3>1, <3>2
  <2> QED
    BY <2>1 DEF QueueOK, Pending
<1> QED
  BY <1>3, <1>4, <1>5 DEF QueueOK, r

\* ... and leave it.
LEMMA QueueLeaves ==
    ASSUME NEW q \in Seq(Functor), q # <<>>, Head(q).op # "send",
           NEW done \in [Sender -> Nat], NEW sent \in [Sender -> Nat],
           QueueOK(q, done, sent)
    PROVE  QueueOK(Tail(q), done, sent)
<1> DEFINE r == Tail(q)
<1>1. /\ Len(q) \in Nat \ {0} /\ Len(r) = Len(q) - 1
      /\ \A k \in 1 .. Len(r) : r[k] = q[k + 1]
      /\ q[1] = Head(q)
  BY HeadTailProperties, EmptySeq
<1> HIDE DEF r
<1>2. \A s \in Sender, n \in Nat : ~Holds(q[1], s, n)
  BY <1>1 DEF Holds
<1>3. Runs(r)
  <2> SUFFICES ASSUME NEW k \in 1 .. Len(r), r[k].op = "send"
               PROVE  \E f \in Foreign, b \in Nat, n \in Nat \ {0} : r[k].data = Run(f, b, n)
    BY DEF Runs
  <2>1. k + 1 \in 1 .. Len(q) /\ r[k] = q[k + 1]
    BY <1>1
  <2> QED
    BY <2>1 DEF QueueOK, Runs
<1>4. Ordered(r)
  <2> SUFFICES ASSUME NEW j \in 1 .. Len(r), NEW k \in 1 .. Len(r), NEW s \in Sender,
                      NEW m \in Nat, NEW n \in Nat, j < k,
                      Holds(r[j], s, m), Holds(r[k], s, n)
               PROVE  m < n
    BY DEF Ordered
  <2>1. j + 1 \in 1 .. Len(q) /\ k + 1 \in 1 .. Len(q) /\ j + 1 < k + 1
    BY <1>1
  <2>2. Holds(q[j + 1], s, m) /\ Holds(q[k + 1], s, n)
    BY <1>1
  <2> QED
    BY <2>1, <2>2 DEF QueueOK, Ordered
<1>5. Pending(r, done, sent)
  <2>1. ASSUME NEW s \in Sender, NEW n \in Nat
        PROVE  (\E k \in 1 .. Len(r) : Holds(r[k], s, n))
                 <=> \E k \in 1 .. Len(q) : Holds(q[k], s, n)
    <3>1. ASSUME NEW k \in 1 .. Len(r), Holds(r[k], s, n)
          PROVE  \E h \in 1 .. Len(q) : Holds(q[h], s, n)
      <4>1. k + 1 \in 1 .. Len(q) /\ Holds(q[k + 1], s, n)
        BY <1>1, <3>1
      <4> QED
        BY <4>1
    <3>2. ASSUME NEW k \in 1 .. Len(q), Holds(q[k], s, n)
          PROVE  \E h \in 1 .. Len(r) : Holds(r[h], s, n)
      <4>1. k - 1 \in 1 .. Len(r) /\ (k - 1) + 1 = k
        BY <1>1, <1>2, <3>2
      <4>2. Holds(r[k - 1], s, n)
        BY <1>1, <3>2, <4>1
      <4> QED
        BY <4>1, <4>2
    <3> QED
      BY <3>1, <3>2
  <2> QED
    BY <2>1 DEF QueueOK, Pending
<1> QED
  BY <1>3, <1>4, <1>5 DEF QueueOK, r

\* A foreign thread's send() joins with the bytes that follow all it has sent.
LEMMA QueueGains ==
    ASSUME NEW q \in Seq(Functor), NEW f \in Foreign, NEW n \in Nat \ {0}, NEW t \in Functor,
           NEW done \in [Sender -> Nat], NEW sent \in [Sender -> Nat],
           QueueOK(q, done, sent), t.op = "send", t.data = Run(f, sent[f], n)
    PROVE  QueueOK(Append(q, t), done, [sent EXCEPT ![f] = @ + n])
<1> DEFINE r == Append(q, t)
           more == [sent EXCEPT ![f] = @ + n]
<1>0. f \in Sender
  BY DEF Sender
<1>1. /\ Len(q) \in Nat /\ Len(r) = Len(q) + 1
      /\ \A k \in 1 .. Len(q) : r[k] = q[k]
      /\ r[Len(q) + 1] = t
  BY AppendProperties, LenProperties
<1> HIDE DEF r
<1>9. \A k \in 1 .. Len(r) : k \in 1 .. Len(q) \/ k = Len(q) + 1
  BY <1>1
<1>2. more[f] = sent[f] + n /\ \A s \in Sender \ {f} : more[s] = sent[s]
  BY <1>0
<1> HIDE DEF more
<1>3. \A s \in Sender, m \in Nat : Holds(t, s, m) <=> s = f /\ sent[f] < m /\ m <= sent[f] + n
  BY <1>0, RunHolds
<1>4. \A s \in Sender, m \in Nat, k \in 1 .. Len(q) :
         Holds(q[k], s, m) => done[s] < m /\ m <= sent[s]
  BY DEF QueueOK, Pending
<1>5. Runs(r)
  <2> SUFFICES ASSUME NEW k \in 1 .. Len(r), r[k].op = "send"
               PROVE  \E g \in Foreign, b \in Nat, m \in Nat \ {0} : r[k].data = Run(g, b, m)
    BY DEF Runs
  <2>1. CASE k \in 1 .. Len(q)
    BY <1>1, <2>1 DEF QueueOK, Runs
  <2>2. CASE k = Len(q) + 1
    <3>1. r[k].data = Run(f, sent[f], n) /\ sent[f] \in Nat
      BY <1>0, <1>1, <2>2
    <3> QED
      BY <3>1
  <2> QED
    BY <1>9, <2>1, <2>2
<1>6. Ordered(r)
  <2> SUFFICES ASSUME NEW j \in 1 .. Len(r), NEW k \in 1 .. Len(r), NEW s \in Sender,
                      NEW l \in Nat, NEW m \in Nat, j < k,
                      Holds(r[j], s, l), Holds(r[k], s, m)
               PROVE  l < m
    BY DEF Ordered
  <2>1. j \in 1 .. Len(q) /\ r[j] = q[j]
    BY <1>1
  <2>2. CASE k \in 1 .. Len(q)
    BY <1>1, <2>1, <2>2 DEF QueueOK, Ordered
  <2>3. CASE k = Len(q) + 1
    <3>1. s = f /\ sent[f] < m
      BY <1>1, <1>3, <2>3
    <3>2. l <= sent[f]
      BY <1>4, <2>1, <3>1
    <3> QED
      BY <1>0, <3>1, <3>2
  <2> QED
    BY <1>9, <2>2, <2>3, Zenon
<1>7. Pending(r, done, more)
  <2> SUFFICES ASSUME NEW s \in Sender, NEW m \in Nat
               PROVE  done[s] < m /\ m <= more[s] <=> \E k \in 1 .. Len(r) : Holds(r[k], s, m)
    BY DEF Pending
  <2>1. (\E k \in 1 .. Len(r) : Holds(r[k], s, m))
          <=> (\E k \in 1 .. Len(q) : Holds(q[k], s, m)) \/ Holds(t, s, m)
    <3>1. Len(q) + 1 \in 1 .. Len(r) /\ 1 .. Len(q) \subseteq 1 .. Len(r)
      BY <1>1
    <3>3. (\E k \in 1 .. Len(r) : Holds(r[k], s, m))
            <=> (\E k \in 1 .. Len(q) : Holds(r[k], s, m)) \/ Holds(r[Len(q) + 1], s, m)
      BY <1>9, <3>1, Zenon
    <3>4. \A k \in 1 .. Len(q) : Holds(r[k], s, m) <=> Holds(q[k], s, m)
      BY <1>1, Zenon
    <3> QED
      BY <1>1, <3>3, <3>4, Zenon
  <2>2. (\E k \in 1 .. Len(q) : Holds(q[k], s, m)) <=> done[s] < m /\ m <= sent[s]
    BY DEF QueueOK, Pending
  <2>3. done[s] <= sent[s]
    BY DEF QueueOK
  <2> QED
    BY <1>0, <1>2, <1>3, <2>1, <2>2, <2>3
<1>8. \A s \in Sender : done[s] <= more[s]
  BY <1>0, <1>2 DEF QueueOK
<1> QED
  BY <1>5, <1>6, <1>7, <1>8 DEF QueueOK, r, more

\* The first send() in the queue holds the bytes of its thread that come next.
LEMMA QueueYields ==
    ASSUME NEW q \in Seq(Functor), q # <<>>, Head(q).op = "send",
           NEW done \in [Sender -> Nat], NEW sent \in [Sender -> Nat],
           QueueOK(q, done, sent)
    PROVE  \E f \in Foreign, n \in Nat \ {0} :
              /\ Head(q).data = Run(f, done[f], n)
              /\ QueueOK(Tail(q), [done EXCEPT ![f] = @ + n], sent)
<1> DEFINE r == Tail(q)
<1>1. /\ Len(q) \in Nat \ {0} /\ Len(r) = Len(q) - 1
      /\ \A k \in 1 .. Len(r) : r[k] = q[k + 1]
      /\ q[1] = Head(q)
  BY HeadTailProperties, EmptySeq
<1> HIDE DEF r
<1>2. PICK f \in Foreign, b \in Nat, n \in Nat \ {0} : q[1].data = Run(f, b, n)
  BY <1>1 DEF QueueOK, Runs
<1>3. f \in Sender
  BY DEF Sender
<1>4. \A s \in Sender, m \in Nat : Holds(q[1], s, m) <=> s = f /\ b < m /\ m <= b + n
  BY <1>1, <1>2, <1>3, RunHolds
<1>5. \A s \in Sender, m \in Nat, k \in 1 .. Len(q) :
         Holds(q[k], s, m) => done[s] < m /\ m <= sent[s]
  BY DEF QueueOK, Pending
<1>6. done[f] <= b /\ b + n <= sent[f]
  <2>1. Holds(q[1], f, b + 1) /\ Holds(q[1], f, b + n) /\ 1 \in 1 .. Len(q)
    BY <1>1, <1>3, <1>4
  <2>2. done[f] < b + 1 /\ b + n <= sent[f]
    BY <1>3, <1>5, <2>1
  <2> QED
    BY <1>3, <2>2
<1>7. done[f] = b
  <2> SUFFICES ASSUME done[f] < b PROVE FALSE
    BY <1>3, <1>6
  <2>1. done[f] < done[f] + 1 /\ done[f] + 1 <= sent[f]
    BY <1>3, <1>6
  <2>2. PICK k \in 1 .. Len(q) : Holds(q[k], f, done[f] + 1)
    BY <1>3, <2>1 DEF QueueOK, Pending
  <2>3. k # 1
    BY <1>3, <1>4, <2>2
  <2>4. Holds(q[1], f, b + 1) /\ 1 < k /\ 1 \in 1 .. Len(q)
    BY <1>1, <1>3, <1>4, <2>3
  <2>5. b + 1 < done[f] + 1
    BY <1>3, <2>2, <2>4 DEF QueueOK, Ordered
  <2> QED
    BY <1>3, <2>5
<1> DEFINE next == [done EXCEPT ![f] = @ + n]
<1>8. next[f] = b + n /\ \A s \in Sender \ {f} : next[s] = done[s]
  BY <1>3, <1>7
<1> HIDE DEF next
<1>9. Runs(r)
  <2> SUFFICES ASSUME NEW k \in 1 .. Len(r), r[k].op = "send"
               PROVE  \E g \in Foreign, c \in Nat, m \in Nat \ {0} : r[k].data = Run(g, c, m)
    BY DEF Runs
  <2>1. k + 1 \in 1 .. Len(q) /\ r[k] = q[k + 1]
    BY <1>1
  <2> QED
    BY <2>1 DEF QueueOK, Runs
<1>10. Ordered(r)
  <2> SUFFICES ASSUME NEW j \in 1 .. Len(r), NEW k \in 1 .. Len(r), NEW s \in Sender,
                      NEW l \in Nat, NEW m \in Nat, j < k,
                      Holds(r[j], s, l), Holds(r[k], s, m)
               PROVE  l < m
    BY DEF Ordered
  <2>1. j + 1 \in 1 .. Len(q) /\ k + 1 \in 1 .. Len(q) /\ j + 1 < k + 1
    BY <1>1
  <2>2. Holds(q[j + 1], s, l) /\ Holds(q[k + 1], s, m)
    BY <1>1
  <2> QED
    BY <2>1, <2>2 DEF QueueOK, Ordered
<1>11. ASSUME NEW s \in Sender, NEW m \in Nat
       PROVE  next[s] < m /\ m <= sent[s] <=> \E k \in 1 .. Len(r) : Holds(r[k], s, m)
  <2>1. ASSUME next[s] < m, m <= sent[s] PROVE \E k \in 1 .. Len(r) : Holds(r[k], s, m)
    <3>1. done[s] < m /\ ~Holds(q[1], s, m)
      BY <1>3, <1>4, <1>7, <1>8, <2>1
    <3>2. PICK k \in 1 .. Len(q) : Holds(q[k], s, m)
      BY <2>1, <3>1 DEF QueueOK, Pending
    <3>3. k - 1 \in 1 .. Len(r) /\ (k - 1) + 1 = k
      BY <1>1, <3>1, <3>2
    <3>4. Holds(r[k - 1], s, m)
      BY <1>1, <3>2, <3>3
    <3> QED
      BY <3>3, <3>4
  <2>2. ASSUME NEW k \in 1 .. Len(r), Holds(r[k], s, m)
        PROVE  next[s] < m /\ m <= sent[s]
    <3>1. k + 1 \in 1 .. Len(q) /\ Holds(q[k + 1], s, m) /\ 1 < k + 1 /\ 1 \in 1 .. Len(q)
      BY <1>1, <2>2
    <3>2. done[s] < m /\ m <= sent[s]
      BY <1>5, <3>1
    <3>3. ASSUME s = f PROVE b + n < m
      <4>1. Holds(q[1], f, b + n)
        BY <1>3, <1>4
      <4> QED
        BY <1>3, <3>1, <3>3, <4>1 DEF QueueOK, Ordered
    <3> QED
      BY <1>8, <3>2, <3>3
  <2> QED
    BY <2>1, <2>2
<1>12. \A s \in Sender : next[s] <= sent[s]
  BY <1>3, <1>6, <1>8 DEF QueueOK
<1>13. Pending(r, next, sent)
  BY <1>11 DEF Pending
<1>14. QueueOK(r, next, sent)
  BY <1>9, <1>10, <1>12, <1>13 DEF QueueOK
<1> QED
  BY <1>1, <1>2, <1>7, <1>14 DEF r, next

\* The loop's own bytes are never queued: they are all accepted.
LEMMA QueueSkips ==
    ASSUME NEW q \in Seq(Functor), NEW n \in Nat \ {0},
           NEW done \in [Sender -> Nat], NEW sent \in [Sender -> Nat],
           QueueOK(q, done, sent)
    PROVE  /\ done[Loop] = sent[Loop]
           /\ QueueOK(q, [done EXCEPT ![Loop] = @ + n], [sent EXCEPT ![Loop] = @ + n])
<1>0. Loop \in Sender
  BY DEF Sender
<1>1. \A m \in Nat, k \in 1 .. Len(q) : ~Holds(q[k], Loop, m)
  <2> SUFFICES ASSUME NEW m \in Nat, NEW k \in 1 .. Len(q), Holds(q[k], Loop, m)
               PROVE  FALSE
    OBVIOUS
  <2>1. q[k].op = "send"
    BY DEF Holds
  <2>2. PICK f \in Foreign, b \in Nat, l \in Nat \ {0} : q[k].data = Run(f, b, l)
    BY <2>1 DEF QueueOK, Runs
  <2>3. Loop = f
    BY <1>0, <2>1, <2>2, RunHolds DEF Sender
  <2> QED
    BY <2>3
<1>2. done[Loop] = sent[Loop]
  <2> SUFFICES ASSUME done[Loop] # sent[Loop] PROVE FALSE
    OBVIOUS
  <2>1. done[Loop] < sent[Loop] /\ sent[Loop] \in Nat
    BY <1>0 DEF QueueOK
  <2>2. \E k \in 1 .. Len(q) : Holds(q[k], Loop, sent[Loop])
    BY <1>0, <2>1 DEF QueueOK, Pending
  <2> QED
    BY <1>1, <2>1, <2>2
<1> DEFINE more == [done EXCEPT ![Loop] = @ + n]
           next == [sent EXCEPT ![Loop] = @ + n]
<1>3. /\ more[Loop] = next[Loop] /\ more[Loop] \in Nat
      /\ \A s \in Sender \ {Loop} : more[s] = done[s] /\ next[s] = sent[s]
  BY <1>0, <1>2
<1> HIDE DEF more, next
<1>4. Pending(q, more, next)
  <2> SUFFICES ASSUME NEW s \in Sender, NEW m \in Nat
               PROVE  more[s] < m /\ m <= next[s] <=> \E k \in 1 .. Len(q) : Holds(q[k], s, m)
    BY DEF Pending
  <2>1. CASE s = Loop
    BY <1>1, <1>3, <2>1
  <2>2. CASE s # Loop
    BY <1>3, <2>2 DEF QueueOK, Pending
  <2> QED
    BY <2>1, <2>2
<1>5. \A s \in Sender : more[s] <= next[s]
  BY <1>3 DEF QueueOK
<1>6. QueueOK(q, more, next)
  BY <1>4, <1>5 DEF QueueOK
<1> QED
  BY <1>2, <1>6 DEF more, next

\* A sender's next bytes may follow what is accepted.
LEMMA AcceptedGrows ==
    ASSUME NEW q \in Seq(Byte), NEW s \in Sender, NEW n \in Nat,
           NEW done \in [Sender -> Nat], Accounted(q, done)
    PROVE  Accounted(q \o Run(s, done[s], n), [done EXCEPT ![s] = @ + n])
<1> DEFINE d == Run(s, done[s], n)
           r == q \o d
           more == [done EXCEPT ![s] = @ + n]
<1>1. d \in Seq(Byte) /\ Len(d) = n
      /\ \A i \in 1 .. n : d[i] = [from |-> s, seq |-> done[s] + i]
  BY DEF Run, Byte
<1> HIDE DEF d
<1>2. /\ Len(q) \in Nat /\ Len(r) = Len(q) + n
      /\ \A i \in 1 .. Len(q) : r[i] = q[i]
      /\ \A i \in 1 .. n : r[Len(q) + i] = d[i]
      /\ DOMAIN r = 1 .. Len(r) /\ DOMAIN q = 1 .. Len(q)
  <2>1. q \o d \in Seq(Byte) /\ Len(q \o d) = Len(q) + Len(d)
        /\ \A i \in 1 .. Len(q) : (q \o d)[i] = q[i]
    BY <1>1, ConcatProperties
  <2>2. ASSUME NEW i \in 1 .. Len(d) PROVE (q \o d)[Len(q) + i] = d[i]
    <3>1. Len(q) \in Nat /\ Len(d) \in Nat
      BY <1>1, LenProperties
    <3>2. /\ Len(q) + i \in 1 .. Len(q) + Len(d) /\ ~(Len(q) + i <= Len(q))
          /\ (Len(q) + i) - Len(q) = i
      BY <3>1
    <3>3. \A k \in 1 .. Len(q) + Len(d) :
             (q \o d)[k] = IF k <= Len(q) THEN q[k] ELSE d[k - Len(q)]
      BY <1>1, ConcatProperties
    <3> QED
      BY <3>2, <3>3
  <2> QED
    BY <1>1, <2>1, <2>2, LenProperties
<1>3. /\ more[s] = done[s] + n /\ done[s] \in Nat
      /\ \A t \in Sender \ {s} : more[t] = done[t]
  OBVIOUS
<1> HIDE DEF r, more
<1>4. ASSUME NEW i \in 1 .. Len(r), i \notin 1 .. Len(q)
      PROVE  /\ i - Len(q) \in 1 .. n /\ Len(q) < i
             /\ r[i] = [from |-> s, seq |-> done[s] + (i - Len(q))]
             /\ r[i].from = s
             /\ r[i].seq = done[s] + (i - Len(q))
  <2>1. i - Len(q) \in 1 .. n /\ Len(q) + (i - Len(q)) = i /\ Len(q) < i
    BY <1>2, <1>4
  <2>2. r[i] = d[i - Len(q)]
    BY <1>2, <2>1
  <2> QED
    BY <1>1, <2>1, <2>2
<1>5. \A i \in 1 .. Len(q) : q[i] \in Byte /\ q[i].seq <= done[q[i].from]
  BY DEF Accounted
<1>6. ASSUME NEW i \in 1 .. Len(r)
      PROVE  r[i].seq <= more[r[i].from]
  <2>1. CASE i \in 1 .. Len(q)
    <3>1. r[i] \in Byte /\ r[i].seq <= done[r[i].from]
      BY <1>2, <1>5, <2>1
    <3>2. r[i].from \in Sender /\ r[i].seq \in Nat
      BY <3>1 DEF Byte
    <3> QED
      BY <1>3, <3>1, <3>2
  <2>2. CASE i \notin 1 .. Len(q)
    <3>1. r[i].from = s /\ r[i].seq = done[s] + (i - Len(q)) /\ i - Len(q) \in 1 .. n
      BY <1>4, <2>2
    <3>2. done[s] + (i - Len(q)) <= more[s]
      BY <1>3, <3>1
    <3> QED
      BY <3>1, <3>2
  <2> QED
    BY <2>1, <2>2
<1>7. ASSUME NEW t \in Sender, NEW m \in Nat \ {0}, m <= more[t]
      PROVE  \E i \in 1 .. Len(r) : r[i] = [from |-> t, seq |-> m]
  <2>1. CASE m <= done[t]
    <3>1. PICK i \in 1 .. Len(q) : q[i] = [from |-> t, seq |-> m]
      BY <2>1 DEF Accounted
    <3>2. i \in 1 .. Len(r) /\ r[i] = q[i]
      BY <1>2
    <3> QED
      BY <3>1, <3>2
  <2>2. CASE ~(m <= done[t])
    <3>1. t = s /\ m - done[s] \in 1 .. n /\ done[s] + (m - done[s]) = m
      BY <1>3, <1>7, <2>2
    <3>2. Len(q) + (m - done[s]) \in 1 .. Len(r)
      BY <1>2, <3>1
    <3>3. r[Len(q) + (m - done[s])] = [from |-> s, seq |-> done[s] + (m - done[s])]
      BY <1>1, <1>2, <3>1
    <3> QED
      BY <3>1, <3>2, <3>3
  <2> QED
    BY <2>1, <2>2
<1>8. ASSUME NEW i \in 1 .. Len(r), NEW j \in 1 .. i - 1
      PROVE  r[j] # r[i]
  <2>1. CASE i \in 1 .. Len(q)
    <3>1. j \in 1 .. Len(q)
      <4>1. 1 .. i - 1 \subseteq 1 .. Len(q)
        BY <1>2, <2>1
      <4> QED
        BY <4>1
    <3> QED
      BY <1>2, <2>1, <3>1 DEF Accounted, Orderly
  <2>2. CASE i \notin 1 .. Len(q) /\ j \in 1 .. Len(q)
    <3>1. r[i].from = s /\ r[i].seq > done[s]
      <4>1. r[i] = [from |-> s, seq |-> done[s] + (i - Len(q))] /\ i - Len(q) \in 1 .. n
        BY <1>4, <2>2
      <4> QED
        BY <1>3, <4>1
    <3>2. r[j].from = s => r[j].seq <= done[s]
      BY <1>2, <1>5, <2>2
    <3>3. r[j].seq \in Nat /\ r[i].seq \in Nat
      BY <1>2, <1>3, <1>4, <1>5, <2>2 DEF Byte
    <3> QED
      BY <1>3, <3>1, <3>2, <3>3
  <2>3. CASE i \notin 1 .. Len(q) /\ j \notin 1 .. Len(q)
    <3>1. j \in 1 .. Len(r) /\ i \in Int /\ j \in Int /\ j < i
      <4>1. 1 .. i - 1 \subseteq 1 .. Len(r)
        BY <1>2
      <4> QED
        BY <4>1
    <3>2. r[i].seq = done[s] + (i - Len(q))
      BY <1>4, <2>3
    <3>3. r[j].seq = done[s] + (j - Len(q))
      BY <1>4, <2>3, <3>1
    <3>4. done[s] + (i - Len(q)) # done[s] + (j - Len(q))
      BY <1>2, <1>3, <3>1
    <3> QED
      BY <3>2, <3>3, <3>4
  <2> QED
    BY <2>1, <2>2, <2>3
<1>9. ASSUME NEW i \in 1 .. Len(r), r[i].seq # 1
      PROVE  \E j \in 1 .. i - 1 : r[j] = [from |-> r[i].from, seq |-> r[i].seq - 1]
  <2>1. CASE i \in 1 .. Len(q)
    <3>1. PICK j \in 1 .. i - 1 : q[j] = [from |-> q[i].from, seq |-> q[i].seq - 1]
      BY <1>2, <1>9, <2>1 DEF Accounted, Orderly
    <3>2. j \in 1 .. Len(q)
      BY <1>2, <2>1
    <3> QED
      BY <1>2, <2>1, <3>1, <3>2
  <2>2. CASE i = Len(q) + 1
    <3>1. r[i] = [from |-> s, seq |-> done[s] + 1]
      BY <1>2, <1>4, <2>2
    <3>2. done[s] \in Nat \ {0}
      BY <1>3, <1>9, <3>1
    <3>3. PICK j \in 1 .. Len(q) : q[j] = [from |-> s, seq |-> done[s]]
      BY <3>2 DEF Accounted
    <3>4. j \in 1 .. i - 1 /\ r[j] = q[j] /\ r[i].seq - 1 = done[s]
      BY <1>2, <2>2, <3>1, <3>2
    <3> QED
      BY <3>1, <3>3, <3>4
  <2>3. CASE i \notin 1 .. Len(q) /\ i # Len(q) + 1
    <3>1. i - 1 \in 1 .. Len(r) /\ i - 1 \notin 1 .. Len(q) /\ i - 1 \in 1 .. i - 1
      BY <1>2, <2>3
    <3>2. r[i] = [from |-> s, seq |-> done[s] + (i - Len(q))]
      BY <1>4, <2>3
    <3>3. r[i - 1] = [from |-> s, seq |-> done[s] + ((i - 1) - Len(q))]
      BY <1>4, <3>1
    <3>4. r[i].seq - 1 = done[s] + ((i - 1) - Len(q))
      BY <1>2, <1>3, <3>2
    <3> QED
      BY <3>1, <3>2, <3>3, <3>4
  <2> QED
    BY <2>1, <2>2, <2>3
<1>10. Orderly(r)
  BY <1>2, <1>8, <1>9 DEF Orderly
<1>11. Accounted(r, more)
  BY <1>6, <1>7, <1>10 DEF Accounted
<1> QED
  BY <1>11 DEF r, d, more

\* sendInLoop() of a sender's next bytes accepts them all or none, and those it
\* drops without giving up are the last that could have been accepted.
LEMMA SendKeepsGapFree ==
    ASSUME TypeOK, GapInv, NEW d \in Seq(Byte), NEW rest \in Seq(Functor),
           SendInLoop(d, rest), UNCHANGED <<broken, shutWr>>,
           count' \in [Sender -> Nat],
           \A done \in [Sender -> Nat] : QueueOK(tasks, done, count) =>
              \E s \in Sender, n \in Nat :
                 /\ d = Run(s, done[s], n)
                 /\ QueueOK(rest, [done EXCEPT ![s] = @ + n], count')
    PROVE  GapInv'
<1>1. CASE gaveUp'
  BY <1>1 DEF GapInv
<1>2. CASE ~gaveUp' /\ Idle /\ Unwritable
  <2>1. UNCHANGED <<buffer, sending, accepted, gaveUp>>
    BY <1>2 DEF SendInLoop
  <2>2. Dead'
    BY <1>2, <2>1 DEF Dead, Idle, Unwritable
  <2> QED
    BY <1>2, <2>1, <2>2 DEF GapInv
<1>3. CASE ~gaveUp' /\ ~(Idle /\ Unwritable)
  <2>1. /\ ~gaveUp /\ accepted' = accepted \o d
        /\ tasks' = rest \/ tasks' = Append(rest, Complete)
    <3>1. CASE Idle
      BY <1>3, <3>1 DEF SendInLoop, SendDirectly, TypeOK
    <3>2. CASE ~Idle
      BY <1>3, <3>2 DEF SendInLoop, TypeOK
    <3> QED
      BY <3>1, <3>2
  <2>2. PICK done \in [Sender -> Nat] :
           Accounted(accepted, done) /\ QueueOK(tasks, done, count)
    BY <1>3, <2>1 DEF GapInv, Dead
  <2>3. PICK s \in Sender, n \in Nat :
           /\ d = Run(s, done[s], n)
           /\ QueueOK(rest, [done EXCEPT ![s] = @ + n], count')
    BY <2>2
  <2> DEFINE more == [done EXCEPT ![s] = @ + n]
  <2>4. more \in [Sender -> Nat]
    OBVIOUS
  <2>5. Accounted(accepted', more)
    BY <2>1, <2>2, <2>3, AcceptedGrows DEF TypeOK
  <2>6. QueueOK(rest, more, count')
    BY <2>3
  <2> HIDE DEF more
  <2>7. QueueOK(tasks', more, count')
    <3>1. Complete \in Functor /\ Complete.op # "send"
      BY DEF Functor, Complete
    <3>2. QueueOK(Append(rest, Complete), more, count')
      BY <2>4, <2>6, <3>1, QueueJoins
    <3> QED
      BY <2>1, <2>6, <3>2
  <2>8. Orderly(accepted')
    BY <2>5 DEF Accounted
  <2> QED
    BY <2>4, <2>5, <2>7, <2>8 DEF GapInv
<1> QED
  BY <1>1, <1>2, <1>3

\* Functors that are not sends come and go.
LEMMA OthersKeepGapFree ==
    ASSUME TypeOK, GapInv, UNCHANGED <<accepted, count, gaveUp>>,
           Dead => Dead',
           \/ tasks' = tasks
           \/ \E t \in Functor : t.op # "send" /\ tasks' = Append(tasks, t)
           \/ tasks # <<>> /\ Head(tasks).op # "send" /\ tasks' = Tail(tasks)
    PROVE  GapInv'
<1>1. ASSUME NEW done \in [Sender -> Nat], QueueOK(tasks, done, count)
      PROVE  QueueOK(tasks', done, count')
  <2>1. tasks \in Seq(Functor) /\ count \in [Sender -> Nat] /\ count' = count
    BY DEF TypeOK
  <2>2. CASE tasks' = tasks
    BY <1>1, <2>1, <2>2
  <2>3. CASE \E t \in Functor : t.op # "send" /\ tasks' = Append(tasks, t)
    BY <1>1, <2>1, <2>3, QueueJoins
  <2>4. CASE tasks # <<>> /\ Head(tasks).op # "send" /\ tasks' = Tail(tasks)
    BY <1>1, <2>1, <2>4, QueueLeaves
  <2> QED
    BY <2>2, <2>3, <2>4
<1>2. Orderly(accepted) <=> Orderly(accepted')
  OBVIOUS
<1> QED
  BY <1>1, <1>2 DEF GapInv

\* The data of a send() is the run behind what its thread has sent.
LEMMA NewDataRun ==
    ASSUME TypeOK, NEW s \in Sender, NEW d \in NewData(s)
    PROVE  /\ d \in Seq(Byte) /\ Len(d) \in Nat \ {0}
           /\ d = Run(s, count[s], Len(d))
<1>1. PICK n \in 1 .. MaxSize : d = [i \in 1 .. n |-> [from |-> s, seq |-> count[s] + i]]
  BY DEF NewData
<1>2. d \in Seq(Byte)
  BY NewDataType
<1>3. Len(d) = n /\ n \in Nat \ {0}
  BY <1>1, <1>2, LenProperties
<1> QED
  BY <1>1, <1>2, <1>3 DEF Run

LEMMA GapStep ==
    ASSUME TypeOK, GapInv, [Next]_vars
    PROVE  GapInv'
<1>0. /\ tasks \in Seq(Functor) /\ count \in [Sender -> Nat]
      /\ TypeOK'
  BY TypeStep DEF TypeOK
<1>1. CASE LoopSend
  <2>1. PICK d \in NewData(Loop) :
           /\ SendInLoop(d, tasks)
           /\ count' = [count EXCEPT ![Loop] = @ + Len(d)]
           /\ UNCHANGED <<shutWr, broken>>
    BY <1>1 DEF LoopSend
  <2>2. d \in Seq(Byte) /\ Len(d) \in Nat \ {0} /\ d = Run(Loop, count[Loop], Len(d))
    BY NewDataRun DEF Sender
  <2>3. ASSUME NEW done \in [Sender -> Nat], QueueOK(tasks, done, count)
        PROVE  \E s \in Sender, n \in Nat :
                  /\ d = Run(s, done[s], n)
                  /\ QueueOK(tasks, [done EXCEPT ![s] = @ + n], count')
    <3>1. /\ done[Loop] = count[Loop]
          /\ QueueOK(tasks, [done EXCEPT ![Loop] = @ + Len(d)], count')
      BY <1>0, <2>1, <2>2, <2>3, QueueSkips
    <3>2. d = Run(Loop, done[Loop], Len(d)) /\ Loop \in Sender
      BY <2>2, <3>1 DEF Sender
    <3> QED
      BY <2>2, <3>1, <3>2
  <2>4. count' \in [Sender -> Nat]
    BY <1>0 DEF TypeOK
  <2> QED
    BY <1>0, <2>1, <2>2, <2>3, <2>4, SendKeepsGapFree
<1>2. CASE RunSend
  <2>1. /\ tasks # <<>> /\ Head(tasks).op = "send"
        /\ SendInLoop(Head(tasks).data, Tail(tasks))
        /\ UNCHANGED <<shutWr, broken, count>>
    BY <1>2 DEF RunSend
  <2>2. Head(tasks).data \in Seq(Byte) /\ Tail(tasks) \in Seq(Functor)
    BY <2>1, HeadType
  <2>3. ASSUME NEW done \in [Sender -> Nat], QueueOK(tasks, done, count)
        PROVE  \E s \in Sender, n \in Nat :
                  /\ Head(tasks).data = Run(s, done[s], n)
                  /\ QueueOK(Tail(tasks), [done EXCEPT ![s] = @ + n], count')
    <3>1. PICK f \in Foreign, n \in Nat \ {0} :
              /\ Head(tasks).data = Run(f, done[f], n)
              /\ QueueOK(Tail(tasks), [done EXCEPT ![f] = @ + n], count)
      BY <1>0, <2>1, <2>3, QueueYields
    <3>2. f \in Sender /\ n \in Nat
      BY DEF Sender
    <3>3. count' = count
      BY <2>1
    <3> QED
      BY <3>1, <3>2, <3>3
  <2>4. count' \in [Sender -> Nat]
    BY <1>0, <2>1
  <2> QED
    BY <2>1, <2>2, <2>3, <2>4, SendKeepsGapFree
<1>3. CASE HandleSend
  <2>1. PICK n \in 1 .. Len(buffer) :
           tasks' = IF n = Len(buffer) THEN Append(tasks, Complete) ELSE tasks
    BY <1>3 DEF HandleSend
  <2>2. Complete \in Functor /\ Complete.op # "send"
    BY DEF Functor, Complete
  <2>3. ~Dead /\ UNCHANGED <<accepted, count, gaveUp>>
    BY <1>3 DEF HandleSend, Dead, Idle, history
  <2> QED
    BY <2>1, <2>2, <2>3, OthersKeepGapFree
<1>4. CASE \E f \in Foreign : ForeignSend(f)
  <2>1. PICK f \in Foreign : ForeignSend(f)
    BY <1>4
  <2>2. PICK d \in NewData(f) :
           /\ tasks' = Append(tasks, [op |-> "send", data |-> d])
           /\ count' = [count EXCEPT ![f] = @ + Len(d)]
    BY <2>1 DEF ForeignSend
  <2>3. d \in Seq(Byte) /\ Len(d) \in Nat \ {0} /\ d = Run(f, count[f], Len(d))
    BY NewDataRun DEF Sender
  <2>4. UNCHANGED <<sending, buffer, shutWr, broken, accepted, gaveUp>>
    BY <2>1 DEF ForeignSend
  <2>5. Dead => Dead'
    BY <2>4 DEF Dead, Idle, Unwritable
  <2>6. ASSUME NEW done \in [Sender -> Nat], QueueOK(tasks, done, count)
        PROVE  QueueOK(tasks', done, count')
    <3> DEFINE t == [op |-> "send", data |-> d]
    <3>1. t \in Functor /\ t.op = "send" /\ t.data = Run(f, count[f], Len(d))
      BY <2>3 DEF Functor
    <3> HIDE DEF t
    <3>2. QueueOK(Append(tasks, t), done, [count EXCEPT ![f] = @ + Len(d)])
      BY <1>0, <2>3, <2>6, <3>1, QueueGains
    <3> QED
      BY <2>2, <3>2 DEF t
  <2> QED
    BY <2>4, <2>5, <2>6 DEF GapInv
<1>5. CASE RunComplete \/ RunShutdown \/ RunClose
  <2>1. tasks # <<>> /\ Head(tasks).op # "send" /\ tasks' = Tail(tasks)
    BY <1>5 DEF RunComplete, RunShutdown, RunClose
  <2>2. /\ UNCHANGED <<accepted, count, gaveUp, buffer, broken>>
        /\ shutWr => shutWr'
        /\ ~sending => ~sending'
    BY <1>5 DEF RunComplete, RunShutdown, RunClose, HandleClose, ShutdownInLoop,
                history, TypeOK
  <2>3. Dead => Dead'
    BY <2>2 DEF Dead, Idle, Unwritable
  <2> QED
    BY <2>1, <2>2, <2>3, OthersKeepGapFree
<1>6. CASE ForceClose \/ ForeignPushes
  <2>1. PICK op \in {"close", "shutdown"} : tasks' = Append(tasks, [op |-> op])
    BY <1>6 DEF ForceClose, ForeignPushes
  <2>2. [op |-> op] \in Functor /\ [op |-> op].op # "send"
    BY DEF Functor
  <2>3. UNCHANGED <<accepted, count, gaveUp, buffer, broken, shutWr, sending>>
    BY <1>6 DEF ForceClose, ForeignPushes, history
  <2>4. Dead => Dead'
    BY <2>3 DEF Dead, Idle, Unwritable
  <2> QED
    BY <2>1, <2>2, <2>3, <2>4, OthersKeepGapFree
<1>7. CASE \/ LoopShutdown \/ PeerCloses \/ PeerResets \/ ForeignStores
           \/ \E f \in Foreign : ForeignShutdown(f)
           \/ UNCHANGED vars
  <2>1. UNCHANGED <<accepted, count, gaveUp, buffer, tasks>>
    BY <1>7 DEF LoopShutdown, PeerCloses, PeerResets, ForeignStores, ForeignShutdown,
                HandleClose, vars, connVars, history
  <2>2. /\ shutWr => shutWr'
        /\ broken => broken'
        /\ ~sending => ~sending'
    BY <1>7 DEF LoopShutdown, PeerCloses, PeerResets, ForeignStores, ForeignShutdown,
                HandleClose, ShutdownInLoop, vars, connVars, TypeOK
  <2>3. Dead => Dead'
    BY <2>1, <2>2 DEF Dead, Idle, Unwritable
  <2> QED
    BY <2>1, <2>3, OthersKeepGapFree
<1> QED
  BY <1>1, <1>2, <1>3, <1>4, <1>5, <1>6, <1>7 DEF Next, RunFunctor

LEMMA GapInit ==
    ASSUME Init
    PROVE  GapInv
<1> DEFINE none == [s \in Sender |-> 0]
<1>1. /\ Len(accepted) = 0 /\ Len(tasks) = 0 /\ DOMAIN accepted = {}
      /\ count = none /\ none \in [Sender -> Nat]
      /\ \A s \in Sender : none[s] = 0
  BY DEF Init
<1> HIDE DEF none
<1>2. 1 .. Len(accepted) = {} /\ 1 .. Len(tasks) = {}
  BY <1>1
<1>3. Accounted(accepted, none) /\ Orderly(accepted)
  BY <1>1, <1>2 DEF Accounted, Orderly
<1>4. QueueOK(tasks, none, count)
  BY <1>1, <1>2 DEF QueueOK, Runs, Ordered, Pending
<1> QED
  BY <1>1, <1>3, <1>4 DEF GapInv

\* The wire holds the first of the accepted bytes.
LEMMA WireOrderly ==
    ASSUME TypeOK, InOrder, Orderly(accepted)
    PROVE  Orderly(wire)
<1>1. /\ Len(wire) \in Nat /\ Len(buffer) \in Nat
      /\ Len(accepted) = Len(wire) + Len(buffer)
      /\ \A i \in 1 .. Len(wire) : accepted[i] = wire[i]
      /\ DOMAIN wire = 1 .. Len(wire) /\ DOMAIN accepted = 1 .. Len(accepted)
  BY ConcatProperties, LenProperties DEF TypeOK, InOrder
<1>2. SUFFICES ASSUME NEW i \in 1 .. Len(wire)
               PROVE  /\ \A j \in 1 .. i - 1 : wire[j] # wire[i]
                      /\ \/ wire[i].seq = 1
                         \/ \E j \in 1 .. i - 1 :
                               wire[j] = [from |-> wire[i].from, seq |-> wire[i].seq - 1]
  BY <1>1 DEF Orderly
<1>3. i \in DOMAIN accepted /\ 1 .. i - 1 \subseteq 1 .. Len(wire)
  BY <1>1
<1>4. accepted[i] = wire[i] /\ \A j \in 1 .. i - 1 : accepted[j] = wire[j]
  BY <1>1, <1>3
<1> QED
  BY <1>3, <1>4 DEF Orderly

\* Until bytes are given up on a disconnected connection, the peer gets of each
\* thread what it sent, from its first byte, in order, and without a gap.
THEOREM NoGaps == Spec => []GapFree
<1>1. Init => StreamInv /\ GapInv
  BY StreamInvInit, GapInit
<1>2. StreamInv /\ GapInv /\ [Next]_vars => StreamInv' /\ GapInv'
  BY StreamInvStep, GapStep DEF StreamInv
<1>3. StreamInv /\ GapInv => GapFree
  BY WireOrderly DEF StreamInv, GapInv, GapFree
<1> QED
  BY <1>1, <1>2, <1>3, PTL DEF Spec
===============================================================================
