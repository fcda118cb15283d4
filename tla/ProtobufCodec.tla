---------------------------- MODULE ProtobufCodec ----------------------------
(***************************************************************************)
(* The protobuf codecs (protobuf/): onMessage() cuts the receive buffer    *)
(* of a connection into frames, checks each and hands the message to a     *)
(* ProtobufDispatcher or, in a ProtobufCodecLite, to its callbacks.        *)
(*                                                                         *)
(* codec says which class it is.  ProtobufCodecLiteT::onMessage() gets the *)
(* buffer by value, so what it takes off stays in the receive buffer.      *)
(*                                                                         *)
(* A buffer is a number of bytes; what they mean is in `wire`, the frames  *)
(* the peer sends.  A frame is a record of its fields.  adler32 is taken   *)
(* to be injective: a checksum is the tuple of the fields it is about.     *)
(***************************************************************************)
EXTENDS Integers, Sequences, SequencesExt, FiniteSets

CONSTANTS NameSize,       \* the length of each type's name, with its NUL
          Generated,      \* the types in generated_pool()
          Registered,     \* the types with a callback in the dispatcher
          PayloadSize,    \* the length of each serialized message
          RawTaken,       \* payloads for which rawMessageCallback_ returns false
          MaxMessageLen,  \* kMaxMessageLen
          Codec,          \* the classes: [lite : BOOLEAN, byValue : BOOLEAN]
          MaxFrames       \* bound: frames that a peer sends

VARIABLES codec,        \* the class
          wire,         \* the frames, in the order they are sent
          came,         \* the bytes that have been received
          taken,        \* the frames erased from the receive buffer
          scan,         \* the frames erased from `buf`
          calling,      \* onMessage() runs
          given,        \* <<frame, callback>>, in the order of the calls
          reported,     \* the error codes that were raised
          connected     \* state_ is CONNECTED

\* A name has a character before its NUL, some message is an ordinary one, and the
\* name of a damaged one is nobody's.
ASSUME CodecAssumption ==
  /\ DOMAIN NameSize # {} /\ \A type \in DOMAIN NameSize : NameSize[type] \in Nat \ {0, 1}
  /\ \A payload \in DOMAIN PayloadSize : PayloadSize[payload] \in Nat
  /\ DOMAIN PayloadSize \ ({"malformed", "tagged"} \cup RawTaken) # {}
  /\ MaxMessageLen \in Nat /\ MaxFrames \in Nat /\ "RPC1" \notin Generated
  /\ Codec \subseteq [lite : BOOLEAN, byValue : BOOLEAN]

codecVars == <<codec, wire, came, taken, scan, calling, given, reported, connected>>

HeaderLen == 4
ChecksumLen == 4
Tag == "RPC0"
TagSize == 4
MinMessageLen(c) == IF c.lite THEN TagSize + ChecksumLen ELSE 2 * HeaderLen + 2

CheckSum(f) == <<f.nameLen, f.name, f.payload>>
Summed(f) == [f EXCEPT !.sum = CheckSum(f)]

\* fillEmptyBuffer(), which ProtobufCodecLite does with tag_ for the type's name.
Encode(type, payload) ==
  Summed([len |-> HeaderLen + NameSize[type] + PayloadSize[payload] + ChecksumLen,
          nameLen |-> NameSize[type], name |-> type, payload |-> payload, sum |-> <<>>])
EncodeLite(payload) ==
  Summed([len |-> TagSize + PayloadSize[payload] + ChecksumLen,
          nameLen |-> 0, name |-> Tag, payload |-> payload, sum |-> <<>>])

MessageOf(c) == IF c.lite THEN {EncodeLite(p) : p \in DOMAIN PayloadSize}
                ELSE {Encode(t, p) : t \in DOMAIN NameSize, p \in DOMAIN PayloadSize}
\* What a peer that is not this code, or a line, makes of a message.
Damaged(c) ==
  LET f == CHOOSE m \in MessageOf(c) : m.payload \notin {"malformed", "tagged"} \cup RawTaken
  IN  { [f EXCEPT !.len = MaxMessageLen + 1], [f EXCEPT !.len = MinMessageLen(c) - 1],
        [f EXCEPT !.sum = <<>>], Summed([f EXCEPT !.name = "RPC1"]) }
      \cup IF c.lite THEN {} ELSE {Summed([f EXCEPT !.nameLen = n]) : n \in {1, f.len}}

\* Behind a length out of range come a few bytes.
LengthIn(c, f) == MinMessageLen(c) <= f.len /\ f.len <= MaxMessageLen
Width(c, f) == HeaderLen + IF LengthIn(c, f) THEN f.len ELSE MinMessageLen(c)
\* Where frame i of w ends and frame i + 1 begins.
Ends(c, w) ==
  LET ends[i \in 0..Len(w)] == IF i = 0 THEN 0 ELSE ends[i - 1] + Width(c, w[i])
  IN  ends
Offset(i) == Ends(codec, wire)[i]

ErrorCode == {"kNoError", "kInvalidLength", "kCheckSumError", "kInvalidNameLen",
              "kUnknownMessageType", "kParseError"}

CodecTypeOK ==
  /\ codec \in Codec /\ came \in 0..Offset(Len(wire))
  /\ taken \in 0..Len(wire) /\ scan \in taken..Len(wire)
  /\ calling \in BOOLEAN /\ connected \in BOOLEAN
  /\ reported \subseteq ErrorCode \ {"kNoError"}
  /\ \A n \in DOMAIN given : given[n][1] \in 1..Len(wire)

CodecInit ==
  /\ codec \in Codec
  /\ wire \in UNION {[1..n -> MessageOf(codec) \cup Damaged(codec)] : n \in 1..MaxFrames}
  /\ came = 0 /\ taken = 0 /\ scan = 0 /\ calling = FALSE
  /\ given = <<>> /\ reported = {} /\ connected = TRUE
------------------------------------------------------------------------------
\* createMessage() finds the type.
Known(name) == name \in Generated

\* Mutant: the checksum is not looked at.
ParseUnsummed(f) ==
  IF f.nameLen < 2 \/ f.nameLen > f.len - 2 * HeaderLen THEN "kInvalidNameLen"
  ELSE IF ~Known(f.name) THEN "kUnknownMessageType"
  ELSE IF f.payload = "malformed" THEN "kParseError" ELSE "kNoError"

\* parse() of ProtobufCodec.
Parse(f) ==
  IF f.sum # CheckSum(f) THEN "kCheckSumError"
  ELSE IF f.nameLen < 2 \/ f.nameLen > f.len - 2 * HeaderLen THEN "kInvalidNameLen"
  ELSE IF ~Known(f.name) THEN "kUnknownMessageType"
  ELSE IF f.payload = "malformed" THEN "kParseError" ELSE "kNoError"

\* parse() of ProtobufCodecLite.  Its memcmp() is true of bytes that differ, and it
\* looks at those behind the tag: a wrong tag passes, a payload like the tag does not.
ParseLite(f) ==
  IF f.sum # CheckSum(f) THEN "kCheckSumError"
  ELSE IF f.payload = "tagged" THEN "kInvalidNameLen"
  ELSE IF f.payload = "malformed" THEN "kParseError" ELSE "kNoError"

\* onProtobufMessage(), or the callback of ProtobufCodecLite.
Dispatch(f) == IF codec.lite THEN "message"
               ELSE IF f.name \in Registered THEN f.name ELSE "default"

\* handleRecv() with n more bytes.
Bytes(n) ==
  /\ ~calling /\ calling' = TRUE
  /\ came' = came + n /\ scan' = taken
  /\ given' = IF codec.byValue THEN <<>> ELSE given
  /\ UNCHANGED <<codec, wire, taken, reported, connected>>

BufSize == came - Offset(scan)
First == wire[scan + 1]
\* The three conditions of the loop.
Header == calling /\ BufSize >= MinMessageLen(codec) + HeaderLen
LengthOK == LengthIn(codec, First)

\* Mutant: the length is taken to include its own field.
FrameTooEarly == Header /\ LengthOK /\ BufSize >= First.len

Frame == Header /\ LengthOK /\ BufSize >= First.len + HeaderLen
Raw == codec.lite /\ First.payload \in RawTaken
Code == IF codec.lite THEN ParseLite(First) ELSE Parse(First)

\* A callback, and buf = buf.substr(...).
Give(callback) ==
  /\ given' = Append(given, <<scan + 1, callback>>)
  /\ scan' = scan + 1 /\ taken' = IF codec.byValue THEN taken ELSE scan + 1
  /\ UNCHANGED <<codec, wire, came, calling, reported, connected>>

GiveRaw == Frame /\ Raw /\ Give("raw")
GiveMessage == Frame /\ ~Raw /\ Code = "kNoError" /\ Give(Dispatch(First))

\* errorCallback_, by default shutdown() of a connection that is still connected,
\* and `break`: the frame stays in the buffer.
Raise(code) ==
  /\ reported' = reported \cup {code} /\ connected' = FALSE /\ calling' = FALSE
  /\ UNCHANGED <<codec, wire, came, taken, scan, given>>

BadLength == Header /\ ~LengthOK /\ Raise("kInvalidLength")
BadFrame == Frame /\ ~Raw /\ Code # "kNoError" /\ Raise(Code)

\* Too few bytes, for a header or for the frame.
NeedMore ==
  /\ calling /\ ~Frame /\ (Header => LengthOK) /\ calling' = FALSE
  /\ UNCHANGED <<codec, wire, came, taken, scan, given, reported, connected>>

CodecOnMessage == GiveRaw \/ GiveMessage \/ BadLength \/ BadFrame \/ NeedMore
CodecNext == (\E n \in 1..Offset(Len(wire)) - came : Bytes(n)) \/ CodecOnMessage
CodecSpec == CodecInit /\ [][CodecNext]_codecVars
------------------------------------------------------------------------------
\* A frame that the receiver has a use for.  ProtobufCodecLite takes those with a
\* wrong tag for its own, and rawMessageCallback_ what it wants.
Usable(f) ==
  LET own == IF codec.lite /\ f.sum = CheckSum(f) THEN Summed([f EXCEPT !.name = Tag]) ELSE f
  IN  /\ LengthIn(codec, f)
      /\ \/ codec.lite /\ f.payload \in RawTaken
         \/ /\ own \in MessageOf(codec) /\ f.payload # "malformed"
            /\ IF codec.lite THEN f.payload # "tagged" ELSE Known(f.name)
UsableUpTo(i) == \A j \in 1..i : Usable(wire[j])
Arrived == {i \in DOMAIN wire : Offset(i) <= came}

\* After each call the callbacks have seen every usable message that has arrived,
\* once and in order, up to the first unusable one, whatever pieces they came in: a
\* codec by reference counts from the first call on, one by value in each call
\* (ProtobufCodec.cc:159, ProtobufCodecLite.h:131).
FramesDelivered ==
  ~calling => given = [i \in 1..Cardinality({i \in Arrived : UsableUpTo(i)}) |->
                         <<i, IF codec.lite /\ wire[i].payload \in RawTaken THEN "raw"
                              ELSE Dispatch(wire[i])>>]

\* The first unusable frame shuts the connection down as soon as it is complete, or
\* its length is wrong, and raises one error code however often it is seen again
\* (ProtobufCodec.cc:147-164).
BadFramesRefused ==
  ~calling =>
    LET bad == {i \in DOMAIN wire : ~Usable(wire[i]) /\ UsableUpTo(i - 1)}
    IN  /\ connected <=> (bad \cap Arrived = {})
        /\ reported = {} <=> connected
        /\ Cardinality(reported) <= 1
        /\ \A i \in bad \cap Arrived : "kInvalidLength" \in reported <=> ~LengthIn(codec, wire[i])
==============================================================================
